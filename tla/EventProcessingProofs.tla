------------------------ MODULE EventProcessingProofs ------------------------
(***************************************************************************)
(* While one thread ingests, nothing has died and no final decision is taken *)
(* back, two open cases never have a correlation key in common, and each     *)
(* key of an open case finds it; in SQLite it does with any threads.  Through *)
(* any deaths one thread keeps what was answered.  At last, what neighbours   *)
(* on a host have in common.                                                *)
(***************************************************************************)
EXTENDS MCEventProcessing, Counting, TLAPS

LEMMA KeysTyped ==
  ASSUME NEW e \in Events
  PROVE  /\ KeysOf[e] \in Seq(Keys)
         /\ Range(KeysOf[e]) \subseteq Keys
         /\ BurstOf[e] \in BurstKeys
<1>1. KeysOf[e] \in Seq(Range(KeysOf[e]))
  BY EventProcessingAssumption DEF EventProcessingAssumption
<1>2. Range(KeysOf[e]) \subseteq Keys
  BY DEF Keys
<1>3. BurstOf[e] \in BurstKeys
  BY DEF BurstKeys
<1>4. KeysOf[e] \in Seq(Keys)
  <2>1. \A i \in 1 .. Len(KeysOf[e]) : KeysOf[e][i] \in Keys
    BY <1>1, <1>2
  <2> QED BY <1>1, <2>1
<1> QED BY <1>2, <1>3, <1>4

(* What a complete save needs so that cases and index stay in order.        *)
Fit(id, card) ==
  /\ id \in Events /\ card \in Card
  /\ card.status # "none"
  /\ id \in card.events
  /\ Stored(id) => cases[id].keys \subseteq card.keys
  /\ \A e \in card.events : Range(KeysOf[e]) \subseteq card.keys
  /\ card.status \in OpenStatuses =>
       \A c \in Events : Open(c) /\ c # id => cases[c].keys \cap card.keys = {}

StoreInv == IndexExact /\ KeysCovered /\ NoKeyShared

(* The rows of the difference make the index exact, whatever is saved.       *)
LEMMA DeltaIsExact ==
  ASSUME TypeOK, IndexExact, backend = "sqlite", UNCHANGED backend,
         NEW id \in Events, NEW card \in Card, card.status # "none", Save(id, card)
  PROVE  IndexExact'
<1>1. cases' = [cases EXCEPT ![id] = card] /\ index' = ReindexDelta(id, card)
  BY DEF Save
<1>2. cases'[id] = card /\ \A c \in Events : c # id => cases'[c] = cases[c]
  BY <1>1 DEF TypeOK
<1>3. SUFFICES ASSUME NEW c \in Events, NEW key \in Keys \cup BurstKeys
               PROVE  <<key, c>> \in index' <=> (Stored(c)' /\ key \in CardKeys(c, cases[c])')
  BY DEF IndexExact
<1>4. <<key, c>> \in index <=> (Stored(c) /\ key \in CardKeys(c, cases[c]))
  BY <1>3 DEF IndexExact
<1>5. CASE c = id
  <2>1. <<key, id>> \in index' <=> key \in CardKeys(id, card)
    BY <1>1, <1>4, <1>5 DEF ReindexDelta
  <2>2. QED
    BY <2>1, <1>5, <1>2 DEF Stored, CardKeys
<1>6. CASE c # id
  <2>1. <<key, c>> \in index' <=> <<key, c>> \in index
    BY <1>1, <1>6 DEF ReindexDelta
  <2>2. QED
    BY <2>1, <1>4, <1>6, <1>2, <1>3 DEF Stored, CardKeys
<1>7. QED
  BY <1>5, <1>6

(* In memory an open card that fits takes all its keys.                      *)
LEMMA MemoryIsExact ==
  ASSUME TypeOK, IndexExact, backend # "sqlite", UNCHANGED backend,
         NEW id, NEW card, Fit(id, card), Save(id, card)
  PROVE  IndexExact'
<1> DEFINE own == CardKeys(id, card)
           open == card.status \in OpenStatuses
           taken == {key \in own : open /\ \A d \in Events \ {id} :
                                             <<key, d>> \in index => BornAt[d] <= BornAt[id]}
<1>1. /\ cases' = [cases EXCEPT ![id] = card] /\ id \in Events
      /\ index' = {p \in index : p[1] \notin own \/ (p[2] # id /\ p[1] \notin taken)}
                  \cup (taken \X {id})
  BY DEF Save, ReindexMemory, Fit
<1>2. cases'[id] = card /\ \A c \in Events : c # id => cases'[c] = cases[c]
  BY <1>1 DEF TypeOK
<1>3. \A key \in Keys : key \in own <=> key \in card.keys
  BY KeysTyped, EventProcessingAssumption DEF CardKeys, Fit
<1>4. \A key \in Keys : key \in taken <=> (open /\ key \in card.keys)
  BY <1>3 DEF Fit, IndexExact
<1> HIDE DEF own, taken
<1>5. SUFFICES ASSUME NEW c \in Events, NEW key \in Keys
               PROVE  <<key, c>> \in index' <=> (Open(c)' /\ key \in cases'[c].keys)
  BY DEF IndexExact
<1>6. <<key, c>> \in index <=> (Open(c) /\ key \in cases[c].keys)
  BY <1>5 DEF IndexExact
<1>7. CASE c = id
  <2>1. <<key, c>> \in index' <=> (<<key, c>> \in index /\ key \notin own) \/ key \in taken
    BY <1>1, <1>7
  <2>2. Open(c) => cases[c].keys \subseteq card.keys
    BY <1>7 DEF Fit, Open, OpenStatuses, Stored
  <2>3. QED
    BY <1>2, <1>3, <1>4, <1>6, <1>7, <2>1, <2>2 DEF Open
<1>8. CASE c # id
  <2>1. <<key, c>> \in index' <=> (<<key, c>> \in index /\ (key \notin own \/ key \notin taken))
    BY <1>1, <1>8
  <2>2. Open(c) /\ key \in cases[c].keys => key \notin taken
    BY <1>4, <1>8 DEF Fit
  <2>3. QED
    BY <1>2, <1>6, <1>8, <2>1, <2>2 DEF Open
<1>9. QED
  BY <1>7, <1>8

LEMMA SaveTyped ==
  ASSUME TypeOK, NEW id \in Events, NEW card \in Card, Save(id, card)
  PROVE  /\ cases' = [cases EXCEPT ![id] = card] /\ cases' \in [Events -> Card]
         /\ cases'[id] = card /\ \A c \in Events : c # id => cases'[c] = cases[c]
         /\ index' \subseteq (Keys \cup BurstKeys) \X Events
<1>1. cases' = [cases EXCEPT ![id] = card] /\ cases \in [Events -> Card]
  BY DEF Save, TypeOK
<1>2. CardKeys(id, card) \subseteq Keys \cup BurstKeys
  BY KeysTyped DEF CardKeys, Card
<1>3. index' \subseteq (Keys \cup BurstKeys) \X Events
  <2>1. index' = ReindexDelta(id, card) \/ index' = ReindexMemory(id, card)
    BY DEF Save
  <2>2. CASE index' = ReindexDelta(id, card)
    BY <1>2, <2>2 DEF ReindexDelta, TypeOK
  <2>3. CASE index' = ReindexMemory(id, card)
    <3>1. PICK taken \in SUBSET CardKeys(id, card) : index' \subseteq index \cup (taken \X {id})
      BY <2>3 DEF ReindexMemory
    <3>2. QED
      BY <1>2, <3>1 DEF TypeOK
  <2>4. QED
    BY <2>1, <2>2, <2>3
<1>4. QED
  BY <1>1, <1>3

LEMMA SaveKeepsStore ==
  ASSUME TypeOK, StoreInv, UNCHANGED backend,
         NEW id, NEW card, Fit(id, card), Save(id, card)
  PROVE  /\ StoreInv'
         /\ cases' = [cases EXCEPT ![id] = card]
         /\ cases' \in [Events -> Card]
         /\ index' \subseteq (Keys \cup BurstKeys) \X Events
<1>1. id \in Events /\ card \in Card /\ card.status # "none" /\ id \in card.events
  BY DEF Fit
<1>2. /\ cases' = [cases EXCEPT ![id] = card] /\ cases' \in [Events -> Card]
      /\ index' \subseteq (Keys \cup BurstKeys) \X Events
      /\ cases'[id] = card /\ \A c \in Events : c # id => cases'[c] = cases[c]
  BY <1>1, SaveTyped
<1>3. IndexExact'
  BY <1>1, DeltaIsExact, MemoryIsExact DEF StoreInv
<1>4. KeysCovered'
  BY <1>2 DEF StoreInv, KeysCovered, Stored, Fit
<1>5. NoKeyShared'
  <2>1. SUFFICES ASSUME NEW c \in Events, NEW d \in Events, Open(c)', Open(d)', c # d
                 PROVE  cases'[c].keys \cap cases'[d].keys = {}
    BY DEF NoKeyShared
  <2>2. CASE c = id
    BY <2>1, <2>2, <1>2 DEF Open, Fit
  <2>3. CASE d = id
    BY <2>1, <2>3, <1>2 DEF Open, Fit
  <2>4. CASE c # id /\ d # id
    BY <2>1, <2>4, <1>2 DEF Open, StoreInv, NoKeyShared
  <2>5. QED
    BY <2>2, <2>3, <2>4
<1>6. QED
  BY <1>2, <1>3, <1>4, <1>5 DEF StoreInv

LEMMA HeadAndTail ==
  \A S : \A s \in Seq(S) : s # <<>> =>
    /\ Head(s) \in S /\ Tail(s) \in Seq(S)
    /\ Head(s) \in Range(s)
    /\ \A x \in Range(s) : x = Head(s) \/ x \in Range(Tail(s))
<1> SUFFICES ASSUME NEW S, NEW s \in Seq(S), s # <<>>
             PROVE  /\ Head(s) \in S /\ Tail(s) \in Seq(S)
                    /\ Head(s) \in Range(s)
                    /\ \A x \in Range(s) : x = Head(s) \/ x \in Range(Tail(s))
  OBVIOUS
<1>1. Head(s) \in S /\ Tail(s) \in Seq(S)
  OBVIOUS
<1>2. Head(s) \in Range(s)
  <2>1. 1 \in DOMAIN s /\ Head(s) = s[1]
    OBVIOUS
  <2> QED BY <2>1 DEF Range
<1>3. \A x \in Range(s) : x = Head(s) \/ x \in Range(Tail(s))
  <2> SUFFICES ASSUME NEW i \in 1 .. Len(s)
               PROVE  s[i] = Head(s) \/ s[i] \in Range(Tail(s))
    BY DEF Range
  <2>1. CASE i = 1
    BY <2>1
  <2>2. CASE i # 1
    <3>1. (i - 1) \in DOMAIN Tail(s) /\ Tail(s)[i - 1] = s[i]
      BY <2>2
    <3> QED BY <3>1 DEF Range
  <2> QED BY <2>1, <2>2
<1> QED BY <1>1, <1>2, <1>3

Found == [id : Events, card : Card]

LEMMA FoundTyped ==
  /\ \A h \in Busy : h.found \in Seq(Found)
  /\ \A s \in Seq(Found) :
       /\ \A i \in DOMAIN s : s[i] \in Found /\ s[i].id \in Events /\ s[i].card \in Card
       /\ Len(s) \in Nat /\ DOMAIN s = 1 .. Len(s) /\ (Len(s) >= 1 <=> s # <<>>)
<1>1. \A h \in Busy : h.found \in Seq(Found)
  BY DEF Busy, Found
<1>2. \A m \in Found : m.id \in Events /\ m.card \in Card
  BY DEF Found
<1> HIDE DEF Found
<1> QED BY <1>1, <1>2

LEMMA MetTyped ==
  TypeOK =>
    \A found \in Seq(Found), c \in Events :
      /\ Met(found, c) \in Seq(Found)
      /\ \E i \in DOMAIN Met(found, c) : Met(found, c)[i].id = c
      /\ DOMAIN found \subseteq DOMAIN Met(found, c)
      /\ \A i \in DOMAIN found : Met(found, c)[i] = found[i]
      /\ \A i \in DOMAIN Met(found, c) \ DOMAIN found :
            /\ Met(found, c)[i] = [id |-> c, card |-> cases[c]]
            /\ i = Len(found) + 1
            /\ \A j \in DOMAIN found : found[j].id # c
<1> SUFFICES ASSUME TypeOK, NEW found \in Seq(Found), NEW c \in Events
             PROVE  /\ Met(found, c) \in Seq(Found)
                    /\ \E i \in DOMAIN Met(found, c) : Met(found, c)[i].id = c
                    /\ DOMAIN found \subseteq DOMAIN Met(found, c)
                    /\ \A i \in DOMAIN found : Met(found, c)[i] = found[i]
                    /\ \A i \in DOMAIN Met(found, c) \ DOMAIN found :
                          /\ Met(found, c)[i] = [id |-> c, card |-> cases[c]]
                          /\ i = Len(found) + 1
                          /\ \A j \in DOMAIN found : found[j].id # c
  OBVIOUS
<1> DEFINE new == [id |-> c, card |-> cases[c]]
<1>1. new \in Found
  BY DEF TypeOK, Found
<1>2. CASE \E i \in DOMAIN found : found[i].id = c
  <2>1. Met(found, c) = found
    BY <1>2 DEF Met
  <2> QED BY <2>1, <1>2
<1>3. CASE ~ \E i \in DOMAIN found : found[i].id = c
  <2> HIDE DEF new
  <2>1. Met(found, c) = Append(found, new)
    BY <1>3 DEF Met, new
  <2>2. /\ Append(found, new) \in Seq(Found)
        /\ DOMAIN found = 1 .. Len(found)
        /\ DOMAIN Append(found, new) = 1 .. Len(found) + 1
        /\ Append(found, new)[Len(found) + 1] = new
        /\ \A i \in 1 .. Len(found) : Append(found, new)[i] = found[i]
    BY <1>1
  <2>3. new.id = c
    BY DEF new
  <2> QED BY <2>1, <2>2, <2>3, <1>3 DEF new
<1> QED BY <1>2, <1>3

(***************************************************************************)
(* One lemma for each action.                                              *)
(***************************************************************************)
LEMMA ReceiveKeeps ==
  ASSUME SerialInv, Serial, Undisturbed, UNCHANGED backend, NEW t \in Threads, NEW e \in Events, Receive(t, e)
  PROVE  SerialInv'
<1> DEFINE h == [pc |-> "find", event |-> e, todo |-> KeysOf[e], found |-> <<>>, n |-> 2]
<1>1. /\ hand' = [hand EXCEPT ![t] = h]
      /\ UNCHANGED <<cases, index, done, decisions, crashes>>
      /\ \A c \in Events : e \notin cases[c].events
  BY DEF Receive
<1>2. h \in Busy
  <2>1. KeysOf[e] \in Seq(Keys)
    BY KeysTyped
  <2> QED BY <2>1 DEF Busy
<1>3. hand'[t] = h /\ \A u \in Threads : u = t
  BY <1>1 DEF Serial, Alone, SerialInv, TypeOK
<1>4. TypeOK'
  BY <1>1, <1>2 DEF SerialInv, TypeOK
<1>5. HandInv(t)'
  <2>1. ~Stored(e)
    BY <1>1 DEF SerialInv, KeysCovered
  <2>2. FoundIsCurrent(t)'
    BY <1>3 DEF FoundIsCurrent
  <2>3. FoundIsComplete(t)'
    BY <1>3 DEF FoundIsComplete
  <2>4. FoundOnce(t)'
    BY <1>3 DEF FoundOnce
  <2> QED BY <1>1, <1>3, <2>1, <2>2, <2>3, <2>4 DEF HandInv, Stored
<1>6. (IndexExact /\ KeysCovered /\ NoKeyShared)'
  BY <1>1 DEF SerialInv, IndexExact, KeysCovered, NoKeyShared, Stored, Open, CardKeys
<1> QED BY <1>1, <1>3, <1>4, <1>5, <1>6 DEF SerialInv

(* What both lookups share: the hand of t has met an open case c.           *)
LEMMA MeetKeeps ==
  ASSUME SerialInv, NEW t \in Threads, hand[t] # Idle,
         hand[t].pc \in {"find", "save"}, NEW c \in Events, Open(c)
  PROVE  LET met == Met(hand[t].found, c) IN
         /\ \A i \in DOMAIN met :
              LET m == met[i] IN
              /\ m.card.keys = cases[m.id].keys /\ m.card.events = cases[m.id].events
              /\ m.card.status \in OpenStatuses /\ Stored(m.id)
              /\ \A d \in Events : Open(d) /\ cases[d].keys \cap m.card.keys # {} => d = m.id
         /\ \A i, j \in DOMAIN met : met[i].id = met[j].id => i = j
<1> DEFINE found == hand[t].found
           met == Met(found, c)
<1>1. HandInv(t) /\ hand[t] \in Busy /\ TypeOK
  BY DEF SerialInv, TypeOK
<1>2. found \in Seq(Found)
  BY <1>1 DEF Busy, Found
<1>3. /\ DOMAIN found \subseteq DOMAIN met
      /\ \A i \in DOMAIN found : met[i] = found[i]
      /\ \A i \in DOMAIN met \ DOMAIN found :
               /\ met[i] = [id |-> c, card |-> cases[c]]
               /\ i = Len(found) + 1
               /\ \A j \in DOMAIN found : found[j].id # c
  <2> HIDE DEF found
  <2> QED BY <1>1, <1>2, MetTyped
<1>4. \A i \in DOMAIN met :
        LET m == met[i] IN
        /\ m.card.keys = cases[m.id].keys /\ m.card.events = cases[m.id].events
        /\ m.card.status \in OpenStatuses /\ Stored(m.id)
        /\ \A d \in Events : Open(d) /\ cases[d].keys \cap m.card.keys # {} => d = m.id
  <2> SUFFICES ASSUME NEW i \in DOMAIN met
               PROVE  LET m == met[i] IN
        /\ m.card.keys = cases[m.id].keys /\ m.card.events = cases[m.id].events
        /\ m.card.status \in OpenStatuses /\ Stored(m.id)
        /\ \A d \in Events : Open(d) /\ cases[d].keys \cap m.card.keys # {} => d = m.id
    OBVIOUS
  <2>1. CASE i \in DOMAIN found
    <3>1. met[i] = found[i]
      BY <2>1, <1>3
    <3> HIDE DEF met
    <3> QED BY <3>1, <2>1, <1>1 DEF HandInv, FoundIsCurrent
  <2>2. CASE i \notin DOMAIN found
    <3>1. met[i].id = c /\ met[i].card = cases[c]
      BY <2>2, <1>3
    <3>2. \A d \in Events : Open(d) /\ cases[d].keys \cap cases[c].keys # {} => d = c
      BY DEF SerialInv, NoKeyShared
    <3>3. cases[c].status \in OpenStatuses /\ Stored(c)
      BY DEF Open, OpenStatuses, Stored
    <3> HIDE DEF met
    <3> QED BY <3>1, <3>2, <3>3
  <2> QED BY <2>1, <2>2
<1>5. \A i, j \in DOMAIN met : met[i].id = met[j].id => i = j
  <2>1. FoundOnce(t)
    BY <1>1 DEF HandInv
  <2> HIDE DEF met
  <2> QED BY <1>3, <2>1 DEF FoundOnce
<1> QED BY <1>4, <1>5

LEMMA LookUpKeyKeeps ==
  ASSUME SerialInv, Serial, Undisturbed, UNCHANGED backend, NEW t \in Threads, LookUpKey(t)
  PROVE  SerialInv'
<1> DEFINE h == hand[t]
           before == hand[t].found
<1>1. /\ h.pc = "find" /\ h.todo # <<>>
      /\ UNCHANGED <<cases, index, done, decisions, crashes>>
  BY DEF LookUpKey
<1>2. h # Idle
  BY <1>1 DEF Idle
<1>3. h \in Busy /\ HandInv(t) /\ TypeOK
  BY <1>2 DEF SerialInv, TypeOK
<1>4. PICK met \in Seq(Found) :
        /\ hand' = [hand EXCEPT ![t] = [h EXCEPT !.todo = Tail(h.todo), !.found = met]]
        /\ \/ met = h.found /\ OpenByKey(Head(h.todo)) = {}
           \/ \E c \in Newest(OpenByKey(Head(h.todo))) : met = Met(h.found, c)
  <2>1. h.found \in Seq(Found)
    BY <1>3 DEF Busy, Found
  <2>2. CASE /\ OpenByKey(Head(h.todo)) = {}
             /\ hand' = [hand EXCEPT ![t].todo = Tail(h.todo)]
    <3>1. hand' = [hand EXCEPT ![t] = [h EXCEPT !.todo = Tail(h.todo), !.found = h.found]]
      BY <2>2, <1>3 DEF Busy, TypeOK
    <3> QED BY <3>1, <2>1, <2>2
  <2>3. ASSUME NEW c \in Newest(OpenByKey(Head(h.todo))),
               hand' = [hand EXCEPT ![t].todo = Tail(h.todo), ![t].found = Met(h.found, c)]
        PROVE  \E met \in Seq(Found) :
                 /\ hand' = [hand EXCEPT ![t] = [h EXCEPT !.todo = Tail(h.todo), !.found = met]]
                 /\ \E d \in Newest(OpenByKey(Head(h.todo))) : met = Met(h.found, d)
    <3>1. c \in Events
      BY DEF Newest, OpenByKey
    <3>2. Met(h.found, c) \in Seq(Found)
      <4> HIDE DEF h
      <4> QED BY <3>1, <2>1, <1>3, MetTyped
    <3>3. hand' = [hand EXCEPT ![t] = [h EXCEPT !.todo = Tail(h.todo), !.found = Met(h.found, c)]]
      BY <2>3, <1>3 DEF Busy, TypeOK
    <3> QED BY <3>2, <3>3
  <2> QED BY <2>2, <2>3 DEF LookUpKey
<1>5. h.todo \in Seq(Keys) /\ h.event \in Events /\ h.found \in Seq(Found)
  BY <1>3 DEF Busy, Found
<1>before. before \in Seq(Found)
  BY <1>5
<1>6. /\ Head(h.todo) \in Keys /\ Tail(h.todo) \in Seq(Keys)
      /\ \A x \in Range(h.todo) : x = Head(h.todo) \/ x \in Range(Tail(h.todo))
  <2> HIDE DEF h
  <2> QED BY <1>1, <1>5, HeadAndTail
<1>7. /\ hand'[t] \in Busy
      /\ hand'[t].pc = "find" /\ hand'[t].event = h.event /\ hand'[t].n = h.n
      /\ hand'[t].todo = Tail(h.todo) /\ hand'[t].found = met
      /\ \A u \in Threads : u = t
  BY <1>1, <1>3, <1>4, <1>6 DEF Busy, Found, TypeOK, Serial, Alone
<1>8. TypeOK'
  BY <1>1, <1>3, <1>4, <1>7 DEF TypeOK
(* The cards in the hand.                                                   *)
<1>9. FoundIsCurrent(t)' /\ FoundOnce(t)'
  <2>1. CASE met = h.found
    BY <2>1, <1>1, <1>3, <1>7 DEF HandInv, FoundIsCurrent, FoundOnce, Stored, Open
  <2>2. ASSUME NEW c \in Newest(OpenByKey(Head(h.todo))), met = Met(h.found, c)
        PROVE  FoundIsCurrent(t)' /\ FoundOnce(t)'
    <3>1. c \in Events /\ Open(c)
      BY DEF Newest, OpenByKey
    <3>2. /\ \A i \in DOMAIN met :
              LET m == met[i] IN
              /\ m.card.keys = cases[m.id].keys /\ m.card.events = cases[m.id].events
              /\ m.card.status \in OpenStatuses /\ Stored(m.id)
              /\ \A d \in Events : Open(d) /\ cases[d].keys \cap m.card.keys # {} => d = m.id
          /\ \A i, j \in DOMAIN met : met[i].id = met[j].id => i = j
      BY <3>1, <1>1, <1>2, <2>2, MeetKeeps
    <3> QED BY <3>2, <1>1, <1>7 DEF FoundIsCurrent, FoundOnce, Stored, Open
  <2> QED BY <2>1, <2>2, <1>4
(* The key just looked up: SerialInv lets at most one open case have it.     *)
<1>10. FoundIsComplete(t)'
  <2> SUFFICES ASSUME NEW key \in Range(KeysOf[h.event]) \ Range(Tail(h.todo)),
                      NEW d \in Events, Open(d), key \in cases[d].keys
               PROVE  \E i \in DOMAIN met : met[i].id = d
    BY <1>1, <1>7 DEF FoundIsComplete, Open
  <2>1. DOMAIN h.found \subseteq DOMAIN met /\ \A i \in DOMAIN h.found : met[i] = h.found[i]
    <3>1. CASE met = h.found
      BY <3>1
    <3>2. ASSUME NEW c \in Newest(OpenByKey(Head(h.todo))), met = Met(h.found, c)
          PROVE  /\ DOMAIN h.found \subseteq DOMAIN met
                 /\ \A i \in DOMAIN h.found : met[i] = h.found[i]
      <4>1. c \in Events
        BY DEF Newest, OpenByKey
      <4>2. /\ DOMAIN before \subseteq DOMAIN Met(before, c)
            /\ \A i \in DOMAIN before : Met(before, c)[i] = before[i]
        <5> HIDE DEF h, before
        <5>1. DOMAIN before \subseteq DOMAIN Met(before, c)
          BY <4>1, <1>3, <1>before, MetTyped
        <5>2. ASSUME NEW i \in DOMAIN before PROVE Met(before, c)[i] = before[i]
          BY <4>1, <1>3, <1>before, MetTyped
        <5> QED BY <5>1, <5>2
      <4> QED BY <4>2, <3>2
    <3> QED BY <3>1, <3>2, <1>4
  <2>2. CASE key \notin Range(h.todo)
    <3>1. FoundIsComplete(t)
      BY <1>1, <1>3 DEF HandInv
    <3>2. \E i \in DOMAIN h.found : h.found[i].id = d
      BY <3>1, <2>2 DEF FoundIsComplete
    <3> QED BY <3>2, <2>1
  <2>3. CASE key = Head(h.todo)
    <3>1. d \in OpenByKey(Head(h.todo))
      BY <2>3, <1>6 DEF OpenByKey, SerialInv, IndexExact, Stored, Open, OpenStatuses, CardKeys
    <3>2. PICK c \in Newest(OpenByKey(Head(h.todo))) : met = Met(h.found, c)
      BY <3>1, <1>4
    <3>3. c \in Events /\ Open(c) /\ <<Head(h.todo), c>> \in index
      BY DEF Newest, OpenByKey
    <3>4. \E i \in DOMAIN met : met[i].id = c
      <4>1. \E i \in DOMAIN Met(before, c) : Met(before, c)[i].id = c
        <5> HIDE DEF h, before
        <5> QED BY <3>3, <1>3, <1>before, MetTyped
      <4> QED BY <4>1, <3>2
    <3>5. CASE c = d
      BY <3>4, <3>5
    <3>6. CASE c # d
      <4>1. key \in CardKeys(c, cases[c])
        BY <3>3, <2>3, <1>6 DEF SerialInv, IndexExact, CardKeys
      <4>2. cases[c].keys \cap cases[d].keys = {}
        BY <3>3, <3>6 DEF SerialInv, NoKeyShared
      <4>3. key \in Keys /\ key = BurstOf[c]
        BY <4>1, <4>2, <2>3, <1>6 DEF CardKeys
      <4> QED BY <4>3, <3>3, KeysTyped, EventProcessingAssumption DEF EventProcessingAssumption
    <3> QED BY <3>5, <3>6
  <2> QED BY <2>2, <2>3, <1>6
<1>11. HandInv(t)'
  BY <1>1, <1>3, <1>7, <1>9, <1>10 DEF HandInv, Stored
<1>12. (IndexExact /\ KeysCovered /\ NoKeyShared)'
  BY <1>1 DEF SerialInv, IndexExact, KeysCovered, NoKeyShared, Stored, Open, CardKeys
<1> QED BY <1>1, <1>7, <1>8, <1>11, <1>12 DEF SerialInv

LEMMA LookUpBurstKeeps ==
  ASSUME SerialInv, Serial, Undisturbed, UNCHANGED backend, NEW t \in Threads, LookUpBurst(t)
  PROVE  SerialInv'
<1> DEFINE h == hand[t]
           before == hand[t].found
           burst == OpenByBurst(BurstOf[hand[t].event])
<1>1. /\ h.pc = "find" /\ h.todo = <<>>
      /\ UNCHANGED <<cases, index, done, decisions, crashes>>
  BY DEF LookUpBurst
<1>2. h # Idle
  BY <1>1 DEF Idle
<1>3. h \in Busy /\ HandInv(t) /\ TypeOK
  BY <1>2 DEF SerialInv, TypeOK
<1>before. before \in Seq(Found)
  BY <1>3 DEF Busy, Found
<1>4. \A c \in Newest(burst) : c \in Events /\ Open(c)
  BY DEF Newest, OpenByBurst, OpenByKey
<1>5. PICK met \in Seq(Found) :
        /\ hand' = [hand EXCEPT ![t] = [h EXCEPT !.pc = "save", !.found = met]]
        /\ met = before \/ \E c \in Newest(burst) : met = Met(before, c)
  <2>1. CASE hand' = [hand EXCEPT ![t].pc = "save"]
    <3>1. hand' = [hand EXCEPT ![t] = [h EXCEPT !.pc = "save", !.found = before]]
      BY <2>1, <1>3 DEF Busy, TypeOK
    <3> QED BY <3>1, <1>before
  <2>2. ASSUME NEW c \in Newest(burst),
               hand' = [hand EXCEPT ![t].pc = "save", ![t].found = Met(before, c)]
        PROVE  \E met \in Seq(Found) :
                 /\ hand' = [hand EXCEPT ![t] = [h EXCEPT !.pc = "save", !.found = met]]
                 /\ \E d \in Newest(burst) : met = Met(before, d)
    <3>1. Met(before, c) \in Seq(Found)
      <4> c \in Events
        BY <1>4
      <4> HIDE DEF h, before, burst
      <4> QED BY <1>before, <1>3, MetTyped
    <3>2. hand' = [hand EXCEPT ![t] = [h EXCEPT !.pc = "save", !.found = Met(before, c)]]
      BY <2>2, <1>3 DEF Busy, TypeOK
    <3> QED BY <3>1, <3>2
  <2> QED BY <2>1, <2>2 DEF LookUpBurst
<1>6. /\ hand'[t] \in Busy
      /\ hand'[t].pc = "save" /\ hand'[t].event = h.event /\ hand'[t].n = h.n
      /\ hand'[t].todo = <<>> /\ hand'[t].found = met
      /\ \A u \in Threads : u = t
  BY <1>1, <1>3, <1>5 DEF Busy, Found, TypeOK, Serial, Alone
<1>7. TypeOK'
  BY <1>1, <1>3, <1>5, <1>6 DEF TypeOK
<1>8. FoundIsCurrent(t)' /\ FoundOnce(t)'
  <2>1. CASE met = before
    BY <2>1, <1>1, <1>3, <1>6 DEF HandInv, FoundIsCurrent, FoundOnce, Stored, Open
  <2>2. ASSUME NEW c \in Newest(burst), met = Met(before, c)
        PROVE  FoundIsCurrent(t)' /\ FoundOnce(t)'
    <3>1. /\ \A i \in DOMAIN met :
              LET m == met[i] IN
              /\ m.card.keys = cases[m.id].keys /\ m.card.events = cases[m.id].events
              /\ m.card.status \in OpenStatuses /\ Stored(m.id)
              /\ \A d \in Events : Open(d) /\ cases[d].keys \cap m.card.keys # {} => d = m.id
          /\ \A i, j \in DOMAIN met : met[i].id = met[j].id => i = j
      BY <1>1, <1>2, <1>4, <2>2, MeetKeeps
    <3> QED BY <3>1, <1>1, <1>6 DEF FoundIsCurrent, FoundOnce, Stored, Open
  <2> QED BY <2>1, <2>2, <1>5
<1>9. FoundIsComplete(t)'
  <2>1. DOMAIN before \subseteq DOMAIN met /\ \A i \in DOMAIN before : met[i] = before[i]
    <3>1. CASE met = before
      BY <3>1
    <3>2. ASSUME NEW c \in Newest(burst), met = Met(before, c)
          PROVE  /\ DOMAIN before \subseteq DOMAIN met
                 /\ \A i \in DOMAIN before : met[i] = before[i]
      <4> c \in Events
        BY <1>4
      <4> HIDE DEF h, before, burst
      <4>1. DOMAIN before \subseteq DOMAIN Met(before, c)
        BY <1>3, <1>before, MetTyped
      <4>2. ASSUME NEW i \in DOMAIN before PROVE Met(before, c)[i] = before[i]
        BY <1>3, <1>before, MetTyped
      <4> QED BY <3>2, <4>1, <4>2
    <3> QED BY <3>1, <3>2, <1>5
  <2>2. FoundIsComplete(t)
    BY <1>1, <1>3 DEF HandInv
  <2> QED BY <2>1, <2>2, <1>1, <1>6 DEF FoundIsComplete, Open
<1>10. HandInv(t)'
  <2>1. ~Stored(h.event) /\ h.n = 2
    BY <1>1, <1>3 DEF HandInv
  <2> QED BY <2>1, <1>1, <1>6, <1>8, <1>9 DEF HandInv, Stored
<1>11. (IndexExact /\ KeysCovered /\ NoKeyShared)'
  BY <1>1 DEF SerialInv, IndexExact, KeysCovered, NoKeyShared, Stored, Open, CardKeys
<1> QED BY <1>1, <1>6, <1>7, <1>10, <1>11 DEF SerialInv

(* A save that changes neither keys nor events of any case, and opens none,  *)
(* leaves what a hand knows in order.                                      *)
ContentsKept ==
  \A c \in Events : /\ cases'[c].keys = cases[c].keys /\ cases'[c].events = cases[c].events
                    /\ Stored(c)' <=> Stored(c)
                    /\ Open(c)' => Open(c)

LEMMA KnowledgeKept ==
  ASSUME NEW t \in Threads, hand[t] \in Busy, ContentsKept,
         hand'[t].found = hand[t].found, hand'[t].event = hand[t].event,
         hand'[t].todo = hand[t].todo
  PROVE  /\ FoundIsCurrent(t) => FoundIsCurrent(t)'
         /\ FoundIsComplete(t) => FoundIsComplete(t)'
         /\ FoundOnce(t) => FoundOnce(t)'
<1> DEFINE found == hand[t].found
<1>1. \A i \in DOMAIN found : found[i].id \in Events
  <2>1. found \in Seq(Found)
    BY FoundTyped
  <2> HIDE DEF found
  <2> QED BY <2>1, FoundTyped
<1>2. FoundIsCurrent(t) => FoundIsCurrent(t)'
  BY <1>1 DEF FoundIsCurrent, ContentsKept
<1>3. FoundIsComplete(t) => FoundIsComplete(t)'
  BY DEF FoundIsComplete, ContentsKept
<1>4. FoundOnce(t) => FoundOnce(t)'
  BY DEF FoundOnce
<1> QED BY <1>2, <1>3, <1>4

LEMMA SaveAbsorbedKeeps ==
  ASSUME SerialInv, Serial, Undisturbed, UNCHANGED backend, NEW t \in Threads, SaveAbsorbed(t)
  PROVE  SerialInv'
<1> DEFINE h == hand[t]
           found == hand[t].found
           m == found[hand[t].n]
           card == AbsorbedCard(m.card, hand[t].found[1].id)
<1>1. /\ h.pc = "save" /\ h.n <= Len(h.found)
      /\ UNCHANGED <<done, decisions, crashes>>
      /\ hand' = [hand EXCEPT ![t].n = @ + 1]
  BY DEF SaveAbsorbed
<1>2. h # Idle
  BY <1>1 DEF Idle
<1>3. h \in Busy /\ HandInv(t) /\ TypeOK /\ StoreInv
  BY <1>2 DEF SerialInv, TypeOK, StoreInv
<1>typed. \A i \in DOMAIN found : found[i].id \in Events /\ found[i] \in Found
  <2>1. found \in Seq(Found)
    BY <1>3, FoundTyped
  <2> HIDE DEF found
  <2> QED BY <2>1, FoundTyped
<1>n. h.n \in Nat /\ h.n >= 2
  BY <1>1, <1>3 DEF HandInv, Busy
<1>4. /\ h.n \in DOMAIN h.found /\ 1 \in DOMAIN h.found
      /\ h.n \in Nat /\ h.n >= 2
      /\ m \in Found /\ h.found[1] \in Found /\ h.found # <<>>
  <2>1. found \in Seq(Found) /\ h.n <= Len(found)
    BY <1>1, <1>3, FoundTyped
  <2>2. h.n \in DOMAIN found /\ 1 \in DOMAIN found /\ found # <<>>
    <3> HIDE DEF found
    <3> QED BY <2>1, <1>n
  <2> QED BY <2>2, <1>n, <1>typed
<1>5. Save(m.id, card)
  BY <1>1, <1>4 DEF SaveAbsorbed, Written
<1>6. /\ m.card.keys = cases[m.id].keys /\ m.card.events = cases[m.id].events /\ Stored(m.id)
      /\ m.id \in Events /\ m.card \in Card
  BY <1>3, <1>4 DEF HandInv, FoundIsCurrent, Found
<1>7. /\ card \in Card /\ card.status = "MERGED"
      /\ card.keys = cases[m.id].keys /\ card.events = cases[m.id].events
  BY <1>4, <1>6 DEF AbsorbedCard, Card, Statuses, Found
<1>8. Fit(m.id, card)
  <2> HIDE DEF card, m
  <2> QED BY <1>3, <1>6, <1>7 DEF Fit, OpenStatuses, StoreInv, KeysCovered
<1>9. /\ StoreInv' /\ cases' = [cases EXCEPT ![m.id] = card]
      /\ cases' \in [Events -> Card]
      /\ index' \subseteq (Keys \cup BurstKeys) \X Events
  <2> HIDE DEF card, m
  <2> QED BY <1>3, <1>5, <1>8, SaveKeepsStore
<1>10. ContentsKept
  <2> HIDE DEF card, m
  <2> QED BY <1>3, <1>6, <1>7, <1>9 DEF ContentsKept, Stored, Open, OpenStatuses, TypeOK
<1>11. /\ hand'[t] \in Busy /\ hand'[t].n = h.n + 1 /\ hand'[t].pc = "save"
       /\ hand'[t].found = h.found /\ hand'[t].event = h.event /\ hand'[t].todo = h.todo
       /\ \A u \in Threads : u = t
  <2>1. hand'[t] = [h EXCEPT !.n = h.n + 1]
    BY <1>1, <1>3 DEF TypeOK
  <2>2. \A u \in Threads : u = t
    BY DEF Serial, Alone
  <2> QED BY <2>1, <2>2, <1>1, <1>3, <1>n DEF Busy
<1>12. TypeOK'
  <2>1. hand' \in [Threads -> {Idle} \cup Busy]
    BY <1>1, <1>3, <1>11 DEF TypeOK
  <2> QED BY <2>1, <1>1, <1>3, <1>9 DEF TypeOK
<1>13. HandInv(t)'
  <2>1. FoundIsCurrent(t)' /\ FoundIsComplete(t)' /\ FoundOnce(t)'
    BY <1>1, <1>3, <1>10, <1>11, KnowledgeKept DEF HandInv
  <2>2. ~Stored(h.event)'
    BY <1>1, <1>3, <1>10 DEF HandInv, ContentsKept, Busy
  <2>3. ASSUME NEW i \in 2 .. h.n, i \in DOMAIN h.found
        PROVE  cases'[h.found[i].id].status = "MERGED"
    <3>1. h.found[i].id \in Events
      BY <2>3, <1>typed
    <3>2. CASE i = h.n
      BY <3>1, <3>2, <1>3, <1>7, <1>9 DEF TypeOK
    <3>3. CASE i # h.n
      <4>1. cases[h.found[i].id].status = "MERGED"
        BY <3>3, <2>3, <1>1, <1>3, <1>4 DEF HandInv
      <4>2. h.found[i].id # m.id
        BY <3>3, <2>3, <1>1, <1>3, <1>4 DEF HandInv, FoundOnce
      <4> QED BY <4>1, <4>2, <3>1, <1>3, <1>9 DEF TypeOK
    <3> QED BY <3>2, <3>3
  <2>4. hand'[t].n >= 2 /\ hand'[t].todo = <<>>
    BY <1>1, <1>3, <1>4, <1>11 DEF HandInv
  <2>5. (hand'[t].n - 1) = h.n
    BY <1>4, <1>11
  <2> QED BY <1>11, <2>1, <2>2, <2>3, <2>4, <2>5 DEF HandInv
<1>14. \A c \in Events : cases'[c].status # "EXPECTED_BEHAVIOR"
  <2> HIDE DEF card, m
  <2> QED BY <1>3, <1>7, <1>9 DEF SerialInv, TypeOK
<1> QED BY <1>9, <1>11, <1>12, <1>13, <1>14 DEF SerialInv, StoreInv

LEMMA AttachKeeps ==
  ASSUME SerialInv, Serial, Undisturbed, UNCHANGED backend, NEW t \in Threads, AttachRawEvidence(t)
  PROVE  SerialInv'
<1> DEFINE h == hand[t]
           found == hand[t].found
           m == found[1]
           card == Attached(hand[t])
<1>1. /\ h.pc = "attach" /\ Save(m.id, card)
      /\ UNCHANGED <<decisions, crashes>>
      /\ hand' = [hand EXCEPT ![t] = Idle] /\ done' = done \cup {h.event}
  BY DEF AttachRawEvidence
<1>2. h # Idle
  BY <1>1 DEF Idle
<1>3. h \in Busy /\ HandInv(t) /\ TypeOK /\ StoreInv
  BY <1>2 DEF SerialInv, TypeOK, StoreInv
<1>4. 1 \in DOMAIN h.found /\ m \in Found /\ h.event \in Events
  <2>1. found \in Seq(Found) /\ Len(found) = 1
    BY <1>1, <1>3, FoundTyped DEF HandInv
  <2>2. 1 \in DOMAIN found /\ found[1] \in Found
    <3> HIDE DEF found
    <3> QED BY <2>1, FoundTyped
  <2> QED BY <2>2, <1>3 DEF Busy
<1>5. /\ m.card.keys = cases[m.id].keys /\ m.card.events = cases[m.id].events /\ Stored(m.id)
      /\ m.card.status \in OpenStatuses
      /\ \A c \in Events : Open(c) /\ cases[c].keys \cap m.card.keys # {} => c = m.id
      /\ m.id \in Events /\ m.card \in Card
  BY <1>3, <1>4 DEF HandInv, FoundIsCurrent, Found
<1>6. /\ card \in Card /\ card.status = m.card.status
      /\ card.keys = m.card.keys /\ card.events = m.card.events
  BY <1>4, <1>5 DEF Attached, Card
<1>7. Fit(m.id, card)
  <2> HIDE DEF card, m
  <2> QED BY <1>3, <1>5, <1>6 DEF Fit, OpenStatuses, StoreInv, KeysCovered
<1>8. /\ StoreInv' /\ cases' = [cases EXCEPT ![m.id] = card]
      /\ cases' \in [Events -> Card]
      /\ index' \subseteq (Keys \cup BurstKeys) \X Events
  <2> HIDE DEF card, m
  <2> QED BY <1>1, <1>3, <1>7, SaveKeepsStore
<1>9. TypeOK'
  BY <1>1, <1>3, <1>4, <1>8 DEF TypeOK
<1>10. \A u \in Threads : hand'[u] = Idle
  BY <1>1, <1>3 DEF Serial, Alone, TypeOK
<1>11. \A c \in Events : cases'[c].status # "EXPECTED_BEHAVIOR"
  <2> HIDE DEF card, m
  <2> QED BY <1>3, <1>5, <1>6, <1>8 DEF SerialInv, TypeOK, OpenStatuses
<1> QED BY <1>8, <1>9, <1>10, <1>11 DEF SerialInv, StoreInv

(* What is saved last is fit: the absorbed cards are closed by then, and no  *)
(* other open case has a key of the survivor or of the new case.            *)
LEMMA NewCardFits ==
  ASSUME SerialInv, NEW t \in Threads, hand[t] # Idle, hand[t].pc = "save",
         hand[t].found = <<>>
  PROVE  Fit(hand[t].event, NewCard(hand[t].event))
<1> DEFINE e == hand[t].event
<1>1. hand[t] \in Busy /\ HandInv(t) /\ e \in Events
  BY DEF SerialInv, TypeOK, Busy
<1>2. Range(KeysOf[e]) \subseteq Keys
  BY <1>1, KeysTyped
<1>3. NewCard(e) \in Card
  BY <1>1, <1>2 DEF NewCard, Card, Statuses, OpenStatuses
<1>4. ASSUME NEW c \in Events, Open(c), NEW key \in Range(KeysOf[e]), key \in cases[c].keys
      PROVE  FALSE
  <2>1. Range(hand[t].todo) = {} /\ DOMAIN hand[t].found = {}
    BY <1>1 DEF HandInv, Range
  <2>2. FoundIsComplete(t)
    BY <1>1 DEF HandInv
  <2> QED BY <2>1, <2>2, <1>4 DEF FoundIsComplete
<1>5. ~Stored(e)
  BY <1>1 DEF HandInv
<1> QED BY <1>1, <1>3, <1>4, <1>5 DEF Fit, NewCard

(* The survivor has its own status and the contents of all cards found.      *)
LEMMA SurvivorTyped ==
  ASSUME NEW e \in Events, NEW found \in Seq(Found), found # <<>>
  PROVE  LET card == SurvivorCard(e, found) IN
         /\ card \in Card /\ card.status = found[1].card.status
         /\ card.events = {e} \cup UNION {x.card.events : x \in Range(found)}
         /\ card.hits = ({e} \cap Hitting) \cup UNION {x.card.hits : x \in Range(found)}
         /\ card.evidence = UNION {x.card.evidence : x \in Range(found)}
         /\ card.keys = Range(KeysOf[e]) \cup UNION {x.card.keys : x \in Range(found)}
         /\ card.related = found[1].card.related \cup {found[i].id : i \in 2 .. Len(found)}
<1> DEFINE card == SurvivorCard(e, found)
           m == found[1]
<1>1. /\ \A i \in DOMAIN found : found[i].id \in Events /\ found[i].card \in Card
      /\ 1 \in DOMAIN found /\ DOMAIN found = 1 .. Len(found) /\ Len(found) \in Nat
  BY FoundTyped
<1>2. Range(KeysOf[e]) \subseteq Keys
  BY KeysTyped
<1>3. \A x \in Range(found) : \E i \in DOMAIN found : x = found[i]
  BY DEF Range
<1>4. m.card \in Card
  BY <1>1
<1>5. /\ card.status = m.card.status
      /\ card.events = {e} \cup UNION {x.card.events : x \in Range(found)}
      /\ card.hits = ({e} \cap Hitting) \cup UNION {x.card.hits : x \in Range(found)}
      /\ card.evidence = UNION {x.card.evidence : x \in Range(found)}
      /\ card.keys = Range(KeysOf[e]) \cup UNION {x.card.keys : x \in Range(found)}
      /\ card.related = m.card.related \cup {found[i].id : i \in 2 .. Len(found)}
      /\ card = [status |-> card.status, events |-> card.events, hits |-> card.hits,
                 evidence |-> card.evidence, keys |-> card.keys, related |-> card.related]
  <2> DEFINE mc == m.card
             ev == {e} \cup UNION {x.card.events : x \in Range(found)}
             hi == ({e} \cap Hitting) \cup UNION {x.card.hits : x \in Range(found)}
             wi == UNION {x.card.evidence : x \in Range(found)}
             ke == Range(KeysOf[e]) \cup UNION {x.card.keys : x \in Range(found)}
             re == mc.related \cup {found[i].id : i \in 2 .. Len(found)}
  <2>1. mc \in Card
    BY <1>4
  <2>2. card = [mc EXCEPT !.events = ev, !.hits = hi, !.evidence = wi,
                          !.keys = ke, !.related = re]
    BY <2>1 DEF SurvivorCard, Card
  <2>3. /\ card.status = mc.status /\ card.events = ev /\ card.hits = hi
        /\ card.evidence = wi /\ card.keys = ke /\ card.related = re
        /\ card = [status |-> card.status, events |-> card.events, hits |-> card.hits,
                   evidence |-> card.evidence, keys |-> card.keys, related |-> card.related]
    <3> HIDE DEF mc, ev, hi, wi, ke, re, card
    <3> QED BY <2>1, <2>2 DEF Card
  <2> HIDE DEF card
  <2> QED BY <2>3, Zenon
<1>6. card \in Card
  <2> HIDE DEF card
  <2>1. \A x \in Range(found) : /\ x.card.events \subseteq Events /\ x.card.hits \subseteq Events
                                /\ x.card.evidence \subseteq Events /\ x.card.keys \subseteq Keys
    BY <1>1, <1>3 DEF Card
  <2>2. card.status \in Statuses
    BY <1>4, <1>5 DEF Card
  <2>3. card.events \subseteq Events /\ card.hits \subseteq Events
    BY <1>5, <2>1
  <2>4. card.evidence \subseteq Events /\ card.keys \subseteq Keys
    BY <1>2, <1>5, <2>1
  <2>5. card.related \subseteq Events
    BY <1>1, <1>4, <1>5 DEF Card
  <2> QED BY <1>5, <2>2, <2>3, <2>4, <2>5 DEF Card
<1> HIDE DEF card
<1>7. QED
  BY <1>5, <1>6 DEF card

LEMMA SurvivorFits ==
  ASSUME SerialInv, NEW t \in Threads, hand[t] # Idle, hand[t].pc = "save",
         hand[t].found # <<>>, hand[t].n > Len(hand[t].found)
  PROVE  /\ Fit(hand[t].found[1].id, SurvivorCard(hand[t].event, hand[t].found))
         /\ SurvivorCard(hand[t].event, hand[t].found).status \in OpenStatuses
<1> DEFINE e == hand[t].event
           found == hand[t].found
           m == found[1]
           card == SurvivorCard(e, found)
<1>1. hand[t] \in Busy /\ HandInv(t) /\ e \in Events /\ TypeOK
  BY DEF SerialInv, TypeOK, Busy
<1>2. /\ \A i \in DOMAIN found : found[i].id \in Events /\ found[i].card \in Card
      /\ 1 \in DOMAIN found /\ DOMAIN found = 1 .. Len(found) /\ Len(found) \in Nat
  <2>1. found \in Seq(Found) /\ found # <<>>
    BY <1>1, FoundTyped
  <2> HIDE DEF found
  <2> QED BY <2>1, FoundTyped
<1>3. Range(KeysOf[e]) \subseteq Keys
  BY <1>1, KeysTyped
<1>4. \A x \in Range(found) : \E i \in DOMAIN found : x = found[i]
  BY DEF Range
<1>5. \A i \in DOMAIN found : found[i] \in Range(found)
  BY DEF Range
<1>6. m.card \in Card /\ m.card.status \in OpenStatuses
  BY <1>1, <1>2 DEF HandInv, FoundIsCurrent
<1>7. /\ card.events = {e} \cup UNION {x.card.events : x \in Range(found)}
      /\ card.keys = Range(KeysOf[e]) \cup UNION {x.card.keys : x \in Range(found)}
      /\ card.status = m.card.status
  <2>1. found \in Seq(Found) /\ found # <<>>
    BY <1>1, FoundTyped
  <2> HIDE DEF found
  <2>2. QED
    BY <1>1, <2>1, SurvivorTyped
<1>8. card \in Card
  <2>1. found \in Seq(Found) /\ found # <<>>
    BY <1>1, FoundTyped
  <2> HIDE DEF found
  <2>2. QED
    BY <1>1, <2>1, SurvivorTyped
<1>9. \A i \in DOMAIN found :
        /\ found[i].card.events = cases[found[i].id].events
        /\ found[i].card.keys = cases[found[i].id].keys /\ Stored(found[i].id)
        /\ \A c \in Events : Open(c) /\ cases[c].keys \cap found[i].card.keys # {} => c = found[i].id
  BY <1>1 DEF HandInv, FoundIsCurrent
<1>10. m.id \in card.events
  <2>1. m.id \in m.card.events
    BY <1>2, <1>9 DEF SerialInv, KeysCovered
  <2> HIDE DEF card
  <2> QED BY <2>1, <1>2, <1>5, <1>7
<1>11. ASSUME NEW f \in card.events PROVE Range(KeysOf[f]) \subseteq card.keys
  <2> HIDE DEF card
  <2>1. CASE f = e
    BY <2>1, <1>7
  <2>2. ASSUME NEW i \in DOMAIN found, f \in found[i].card.events
        PROVE  Range(KeysOf[f]) \subseteq card.keys
    <3>1. Range(KeysOf[f]) \subseteq found[i].card.keys
      BY <2>2, <1>2, <1>9 DEF SerialInv, KeysCovered
    <3> QED BY <3>1, <1>5, <1>7
  <2> QED BY <2>1, <2>2, <1>4, <1>7, <1>11
<1>12. ASSUME NEW c \in Events, Open(c), c # m.id, NEW key, key \in cases[c].keys, key \in card.keys
       PROVE  FALSE
  <2>1. \E i \in DOMAIN found : found[i].id = c
    <3> HIDE DEF card
    <3>1. CASE key \in Range(KeysOf[e])
      <4>1. Range(hand[t].todo) = {} /\ FoundIsComplete(t)
        BY <1>1 DEF HandInv, Range
      <4> QED BY <4>1, <3>1, <1>12 DEF FoundIsComplete
    <3>2. ASSUME NEW i \in DOMAIN found, key \in found[i].card.keys
          PROVE  found[i].id = c
      BY <3>2, <1>9, <1>12
    <3> QED BY <3>1, <3>2, <1>4, <1>7, <1>12
  <2>2. PICK i \in DOMAIN found : found[i].id = c
    BY <2>1
  <2>3. i # 1
    BY <2>2, <1>12
  <2>4. i \in 2 .. (hand[t].n - 1)
    <3>1. hand[t].n \in Nat
      BY <1>1 DEF Busy
    <3> HIDE DEF found
    <3> QED BY <3>1, <2>3, <1>2 DEF found
  <2>5. cases[c].status = "MERGED"
    BY <2>2, <2>4, <1>1 DEF HandInv
  <2> QED BY <2>5, <1>12 DEF Open, OpenStatuses
<1> HIDE DEF card
<1>13. card.status \in OpenStatuses
  BY <1>6, <1>7
<1>14. cases[m.id].keys \subseteq card.keys
  BY <1>2, <1>5, <1>7, <1>9
<1>15. Fit(m.id, card)
  BY <1>2, <1>8, <1>10, <1>11, <1>12, <1>13, <1>14 DEF Fit, OpenStatuses
<1> QED BY <1>13, <1>15 DEF card

LEMMA SaveCaseKeeps ==
  ASSUME SerialInv, Serial, Undisturbed, UNCHANGED backend, NEW t \in Threads, SaveCase(t)
  PROVE  SerialInv'
<1> DEFINE h == hand[t]
           w == Written(hand[t])
<1>1. /\ h.pc = "save" /\ h.n > Len(h.found) /\ Save(w.id, w.card)
      /\ UNCHANGED <<decisions, crashes>>
      /\ \/ /\ hand' = [hand EXCEPT ![t].pc = "attach", ![t].found = <<w>>]
            /\ UNCHANGED done
         \/ /\ hand' = [hand EXCEPT ![t] = Idle]
            /\ done' = done \cup {h.event}
  BY DEF SaveCase
<1>2. h # Idle
  BY <1>1 DEF Idle
<1>3. h \in Busy /\ HandInv(t) /\ TypeOK /\ StoreInv /\ h.event \in Events
  BY <1>2 DEF SerialInv, TypeOK, StoreInv, Busy
<1>4. /\ Fit(w.id, w.card) /\ w.card.status \in OpenStatuses
      /\ w = [id |-> w.id, card |-> w.card]
  <2>1. CASE h.found = <<>>
    <3>1. w = [id |-> h.event, card |-> NewCard(h.event)]
      BY <2>1 DEF Written
    <3>2. NewCard(h.event).status \in OpenStatuses
      BY DEF NewCard, OpenStatuses
    <3> QED BY <3>1, <3>2, <2>1, <1>1, <1>2, NewCardFits
  <2>2. CASE h.found # <<>>
    <3>1. ~ (h.n <= Len(h.found))
      <4> DEFINE found == h.found
      <4>1. h.n \in Nat /\ Len(found) \in Nat
        <5>1. h.n \in Nat /\ found \in Seq(Found)
          BY <1>3, FoundTyped DEF Busy
        <5> HIDE DEF found
        <5> QED BY <5>1, FoundTyped
      <4> QED BY <4>1, <1>1
    <3>2. w = [id |-> h.found[1].id, card |-> SurvivorCard(h.event, h.found)]
      BY <2>2, <3>1 DEF Written
    <3> QED BY <3>2, <2>2, <1>1, <1>2, SurvivorFits
  <2> QED BY <2>1, <2>2
<1> HIDE DEF w
<1>5. /\ StoreInv' /\ cases' = [cases EXCEPT ![w.id] = w.card]
      /\ cases' \in [Events -> Card]
      /\ index' \subseteq (Keys \cup BurstKeys) \X Events
  <2> QED BY <1>1, <1>3, <1>4, SaveKeepsStore
<1>6. w \in Found /\ w.id \in Events /\ w.card \in Card
  BY <1>4 DEF Fit, Found
<1>7. \A u \in Threads : u = t
  BY DEF Serial, Alone
<1>8. /\ hand' \in [Threads -> {Idle} \cup Busy] /\ done' \subseteq Events
      /\ hand'[t] # Idle => HandInv(t)'
  <2>1. CASE /\ hand' = [hand EXCEPT ![t].pc = "attach", ![t].found = <<w>>]
             /\ UNCHANGED done
    <3>1. hand'[t] = [h EXCEPT !.pc = "attach", !.found = <<w>>]
      BY <2>1, <1>3 DEF TypeOK
    <3>2. <<w>> \in Seq(Found) /\ DOMAIN <<w>> = {1} /\ <<w>>[1] = w /\ Len(<<w>>) = 1
      BY <1>6
    <3>3. hand'[t] \in Busy /\ hand'[t].pc = "attach" /\ hand'[t].found = <<w>>
      BY <3>1, <3>2, <1>3 DEF Busy, Found
    <3>4. FoundIsCurrent(t)'
      <4>1. cases'[w.id] = w.card /\ \A c \in Events : c # w.id => cases'[c] = cases[c]
        BY <1>3, <1>5, <1>6 DEF TypeOK
      <4>2. cases'[w.id].status # "none"
        BY <4>1, <1>4 DEF OpenStatuses
      <4>3. \A c \in Events : Open(c)' /\ cases'[c].keys \cap w.card.keys # {} => c = w.id
        BY <4>1, <1>4 DEF Fit, Open
      <4> QED BY <3>2, <3>3, <4>1, <4>2, <4>3, <1>4 DEF FoundIsCurrent, Stored
    <3>5. hand' \in [Threads -> {Idle} \cup Busy]
      BY <2>1, <3>3, <1>3, <1>7 DEF TypeOK
    <3> QED BY <2>1, <3>2, <3>3, <3>4, <3>5, <1>3 DEF HandInv, TypeOK
  <2>2. CASE hand' = [hand EXCEPT ![t] = Idle] /\ done' = done \cup {h.event}
    BY <2>2, <1>3 DEF TypeOK
  <2> QED BY <2>1, <2>2, <1>1
<1>9. TypeOK'
  BY <1>1, <1>3, <1>5, <1>8 DEF TypeOK
<1>10. \A c \in Events : cases'[c].status # "EXPECTED_BEHAVIOR"
  BY <1>3, <1>4, <1>5 DEF SerialInv, TypeOK, OpenStatuses
<1> QED BY <1>5, <1>7, <1>8, <1>9, <1>10 DEF SerialInv, StoreInv

LEMMA DecideKeeps ==
  ASSUME SerialInv, Serial, Undisturbed, UNCHANGED backend, NEW c \in Events, Decide(c)
  PROVE  SerialInv'
<1>1. PICK status \in Targets \cap AllowedTransitions(cases[c].status) :
        Save(c, [cases[c] EXCEPT !.status = status])
  BY DEF Decide
<1> DEFINE card == [cases[c] EXCEPT !.status = status]
<1>2. TypeOK /\ StoreInv /\ cases[c] \in Card /\ UNCHANGED <<hand, done, crashes>>
  BY DEF SerialInv, TypeOK, StoreInv, Decide
<1>3. decisions' \in 0 .. MaxDecisions
  BY <1>2, EventProcessingAssumption DEF Decide, TypeOK, EventProcessingAssumption
<1>4. /\ status \in {"TRIAGE", "CONFIRMED", "FALSE_POSITIVE"}
      /\ cases[c].status \in OpenStatuses
  <2>1. status \in {"TRIAGE", "CONFIRMED", "FALSE_POSITIVE"}
    BY EventProcessingAssumption DEF EventProcessingAssumption, Serial
  <2>2. cases[c].status # "EXPECTED_BEHAVIOR"
    BY DEF SerialInv
  <2> QED BY <2>1, <2>2 DEF AllowedTransitions, OpenStatuses
<1>5. /\ card \in Card /\ card.status = status
      /\ card.keys = cases[c].keys /\ card.events = cases[c].events
  BY <1>2, <1>4 DEF Card, Statuses, OpenStatuses, Decided
<1> HIDE DEF card
<1>6. Fit(c, card)
  BY <1>2, <1>4, <1>5 DEF Fit, StoreInv, KeysCovered, NoKeyShared, Open, Stored, OpenStatuses
<1>7. /\ StoreInv' /\ cases' = [cases EXCEPT ![c] = card]
      /\ cases' \in [Events -> Card]
      /\ index' \subseteq (Keys \cup BurstKeys) \X Events
  <2>1. Save(c, card)
    BY <1>1 DEF card
  <2> QED BY <2>1, <1>2, <1>6, SaveKeepsStore
<1>8. ContentsKept
  BY <1>2, <1>4, <1>5, <1>7 DEF ContentsKept, Stored, Open, OpenStatuses, TypeOK
<1>9. TypeOK'
  BY <1>2, <1>3, <1>7 DEF TypeOK
<1>10. \A d \in Events : cases[d].status = "MERGED" => cases'[d].status = "MERGED"
  BY <1>2, <1>4, <1>7 DEF TypeOK, OpenStatuses
<1>11. ASSUME NEW t \in Threads, hand'[t] # Idle PROVE HandInv(t)'
  <2>1. hand'[t] = hand[t] /\ hand[t] \in Busy /\ HandInv(t)
    BY <1>2, <1>11 DEF SerialInv, TypeOK
  <2>2. /\ FoundIsCurrent(t) => FoundIsCurrent(t)'
        /\ FoundIsComplete(t) => FoundIsComplete(t)'
        /\ FoundOnce(t) => FoundOnce(t)'
    BY <2>1, <1>8, KnowledgeKept
  <2>3. hand[t].event \in Events
    BY <2>1 DEF Busy
  <2>4. ~Stored(hand[t].event) => ~Stored(hand[t].event)'
    BY <2>1, <2>3, <1>2, <1>8 DEF ContentsKept, Stored
  <2>5. \A i \in DOMAIN hand[t].found : hand[t].found[i].id \in Events
    <3> DEFINE found == hand[t].found
    <3>1. found \in Seq(Found)
      BY <2>1, FoundTyped
    <3> HIDE DEF found
    <3>2. \A i \in DOMAIN found : found[i].id \in Events
      BY <3>1, FoundTyped
    <3> QED BY <3>2 DEF found
  <2> QED BY <2>1, <2>2, <2>4, <2>5, <1>2, <1>10 DEF HandInv
<1>12. \A d \in Events : cases'[d].status # "EXPECTED_BEHAVIOR"
  BY <1>2, <1>4, <1>5, <1>7 DEF SerialInv, TypeOK
<1> QED BY <1>7, <1>9, <1>11, <1>12 DEF SerialInv, StoreInv

LEMMA Initially == ASSUME Init PROVE SerialInv
<1>1. NoCard \in Card
  BY DEF NoCard, Card, Statuses
<1>2. TypeOK
  BY <1>1, EventProcessingAssumption DEF Init, TypeOK, EventProcessingAssumption
<1>3. \A c \in Events : cases[c].status = "none" /\ cases[c].events = {}
  BY DEF Init, NoCard
<1>4. IndexExact /\ KeysCovered /\ NoKeyShared
  BY <1>3 DEF Init, IndexExact, KeysCovered, NoKeyShared, Stored, Open, OpenStatuses
<1> QED BY <1>2, <1>3, <1>4 DEF Init, SerialInv

LEMMA StepKeeps ==
  ASSUME SerialInv, Serial, Undisturbed, [Next]_vars
  PROVE  crashes' = 0 => SerialInv'
<1> USE DEF Next
<1>1. ASSUME NEW t \in Threads, NEW e \in Events, Receive(t, e), UNCHANGED backend
      PROVE  SerialInv'
  BY <1>1, ReceiveKeeps
<1>2. ASSUME NEW t \in Threads, LookUpKey(t), UNCHANGED backend PROVE SerialInv'
  BY <1>2, LookUpKeyKeeps
<1>3. ASSUME NEW t \in Threads, LookUpBurst(t), UNCHANGED backend PROVE SerialInv'
  BY <1>3, LookUpBurstKeeps
<1>4. ASSUME NEW t \in Threads, SaveAbsorbed(t), UNCHANGED backend PROVE SerialInv'
  BY <1>4, SaveAbsorbedKeeps
<1>5. ASSUME NEW t \in Threads, SaveCase(t), UNCHANGED backend PROVE SerialInv'
  BY <1>5, SaveCaseKeeps
<1>6. ASSUME NEW t \in Threads, AttachRawEvidence(t), UNCHANGED backend PROVE SerialInv'
  BY <1>6, AttachKeeps
<1>7. ASSUME NEW c \in Events, Decide(c), UNCHANGED backend PROVE SerialInv'
  BY <1>7, DecideKeeps
<1>8. ASSUME NEW t \in Threads, DiedInSave(t) PROVE crashes' # 0
  BY <1>8 DEF DiedInSave, Undisturbed
<1>9. ASSUME Died PROVE crashes' # 0
  BY <1>9 DEF Died, Undisturbed
<1>10. CASE UNCHANGED vars
  BY <1>10 DEF vars, SerialInv, TypeOK, IndexExact, KeysCovered, NoKeyShared, Stored, Open,
               CardKeys, HandInv, FoundIsCurrent, FoundIsComplete, FoundOnce
<1> QED BY <1>1, <1>2, <1>3, <1>4, <1>5, <1>6, <1>7, <1>8, <1>9, <1>10 DEF Process

(* Deaths are counted and the backend stays: what is undisturbed after a     *)
(* step was so before it.                                                   *)
LEMMA Counted ==
  ASSUME crashes \in Nat, [Next]_vars
  PROVE  crashes' \in Nat /\ (Undisturbed' => Undisturbed)
<1>1. crashes' = crashes \/ crashes' = crashes + 1
  BY DEF Next, Process, Receive, LookUpKey, LookUpBurst, SaveAbsorbed, SaveCase,
         AttachRawEvidence, Decide, Died, DiedInSave, vars
<1>2. backend' = backend
  BY DEF Next, vars
<1> QED BY <1>1, <1>2 DEF Undisturbed

(* The inductive invariant of an API that ingests in one thread, until it    *)
(* dies, whatever the events, the rules and the decisions (Serial).          *)
THEOREM SerialInductive == Serial /\ Spec => []Orderly
<1> DEFINE Inductive == crashes \in Nat /\ Orderly
<1>1. Serial /\ Init => Inductive
  BY Initially DEF Init, Orderly
<1>2. Serial /\ Inductive /\ [Next]_vars => Inductive'
  <2> SUFFICES ASSUME Serial, Inductive, [Next]_vars PROVE Inductive'
    OBVIOUS
  <2>1. crashes' \in Nat /\ (Undisturbed' => Undisturbed)
    BY Counted
  <2>2. CASE Undisturbed'
    <3>1. SerialInv /\ Undisturbed
      BY <2>1, <2>2 DEF Orderly
    <3>2. crashes' = 0
      BY <2>2 DEF Undisturbed
    <3>3. SerialInv'
      BY <3>1, <3>2, StepKeeps
    <3> QED BY <2>1, <3>3 DEF Orderly
  <2> QED BY <2>1, <2>2 DEF Orderly
<1>3. Serial => []Serial
  <2>1. Serial => Serial'
    BY DEF Serial, Alone
  <2> QED BY <2>1, PTL
<1>4. Inductive => Orderly
  OBVIOUS
<1> HIDE DEF Inductive
<1> QED BY <1>1, <1>2, <1>3, <1>4, PTL DEF Spec

(* Merging joins transitively: in such an API two open cases never hold      *)
(* events with a correlation key in common, however the events came in and    *)
(* whichever store keeps them.                                              *)
THEOREM OneCaseForKey == Serial /\ Spec => []OneOpenCaseForKey
<1>1. Orderly => OneOpenCaseForKey
  BY DEF Orderly, Undisturbed, SerialInv, KeysCovered, NoKeyShared, OneOpenCaseForKey
<1> QED BY <1>1, SerialInductive, PTL

(* In such an API a key of an open case finds an open case, in either store:  *)
(* no save hides a case from the lookup of the next event.                  *)
THEOREM CasesAreFound == Serial /\ Spec => []OpenCaseIsFound
<1>1. Orderly => OpenCaseIsFound
  <2>1. SUFFICES ASSUME SerialInv, NEW c \in Events, Open(c), NEW key \in cases[c].keys
                 PROVE  OpenByKey(key) # {}
    BY DEF Orderly, Undisturbed, OpenCaseIsFound
  <2>2. key \in Keys /\ Stored(c)
    BY <2>1 DEF SerialInv, TypeOK, Card, Open, OpenStatuses, Stored
  <2>3. <<key, c>> \in index
    BY <2>1, <2>2 DEF SerialInv, IndexExact, CardKeys
  <2>4. QED
    BY <2>1, <2>3 DEF OpenByKey
<1>2. QED
  BY <1>1, SerialInductive, PTL

-----------------------------------------------------------------------------
(***************************************************************************)
(* What the store keeps of the events: with any number of threads every      *)
(* variable keeps its type and the index of SQLite is exact; with one thread *)
(* that ingests nothing an answered request brought is lost.                 *)
(***************************************************************************)


(***************************************************************************)
(* Any number of threads.                                                  *)
(***************************************************************************)
(* Cards in hand were met open; a card that was saved is still in hand.       *)
HandTyped(t) ==
  /\ \A i \in DOMAIN hand[t].found : hand[t].found[i].card.status \in OpenStatuses
  /\ hand[t].n >= 2 /\ (hand[t].pc = "attach" => hand[t].found # <<>>)

WideInv ==
  /\ TypeOK
  /\ backend = "sqlite" /\ crashes = 0 => IndexExact
  /\ \A t \in Threads : hand[t] # Idle => HandTyped(t)

LEMMA BusyTyped ==
  ASSUME TypeOK, NEW t \in Threads, hand[t] # Idle
  PROVE  /\ hand[t] \in Busy /\ hand[t].event \in Events /\ hand[t].n \in Nat
         /\ hand[t].todo \in Seq(Keys) /\ hand[t].found \in Seq(Found)
         /\ \A i \in DOMAIN hand[t].found :
              /\ hand[t].found[i] \in Found
              /\ hand[t].found[i].id \in Events /\ hand[t].found[i].card \in Card
         /\ Len(hand[t].found) \in Nat /\ DOMAIN hand[t].found = 1 .. Len(hand[t].found)
         /\ hand[t].found # <<>> => 1 \in DOMAIN hand[t].found
<1> DEFINE found == hand[t].found
<1>1. hand[t] \in Busy
  BY DEF TypeOK
<1>2. found \in Seq(Found)
  BY <1>1, FoundTyped
<1>3. hand[t].event \in Events /\ hand[t].n \in Nat /\ hand[t].todo \in Seq(Keys)
  BY <1>1 DEF Busy
<1>4. /\ \A i \in DOMAIN found : found[i] \in Found /\ found[i].id \in Events /\ found[i].card \in Card
      /\ Len(found) \in Nat /\ DOMAIN found = 1 .. Len(found)
      /\ found # <<>> => 1 \in DOMAIN found
  <2> HIDE DEF found
  <2>1. QED
    BY <1>2, FoundTyped
<1>5. QED
  BY <1>1, <1>2, <1>3, <1>4

(* A lookup adds at most one open card to the hand.                          *)
LEMMA LookUpMeets ==
  ASSUME TypeOK, NEW t \in Threads, LookUpKey(t) \/ LookUpBurst(t)
  PROVE  /\ hand[t] # Idle /\ hand[t].pc = "find"
         /\ hand'[t] # Idle /\ hand'[t] \in Busy /\ hand'[t].pc \in {"find", "save"}
         /\ hand'[t].event = hand[t].event /\ hand'[t].n = hand[t].n
         /\ \/ hand'[t].found = hand[t].found
            \/ \E c \in Events : Open(c) /\ hand'[t].found = Met(hand[t].found, c)
         /\ \A u \in Threads : u # t => hand'[u] = hand[u]
         /\ hand' \in [Threads -> {Idle} \cup Busy]
         /\ UNCHANGED <<cases, index, done, decisions, crashes>>
<1> DEFINE h == hand[t]
           found == hand[t].found
           Looked == \E todo \in Seq(Keys), met \in Seq(Found), pc \in {"find", "save"} :
                       /\ hand' = [hand EXCEPT ![t] = [h EXCEPT !.pc = pc, !.todo = todo, !.found = met]]
                       /\ met = found \/ \E c \in Events : Open(c) /\ met = Met(found, c)
<1>1. h.pc = "find" /\ h # Idle /\ UNCHANGED <<cases, index, done, decisions, crashes>>
  BY DEF LookUpKey, LookUpBurst, Idle
<1>2. /\ h \in Busy /\ h.event \in Events /\ h.n \in Nat /\ h.todo \in Seq(Keys)
      /\ found \in Seq(Found)
  BY <1>1, BusyTyped
<1>3. Looked
  <2> HIDE DEF found
  <2>1. \A c \in Events : Met(found, c) \in Seq(Found)
    BY <1>2, MetTyped
  <2>2. CASE LookUpKey(t)
    <3>1. h.todo # <<>> /\ Tail(h.todo) \in Seq(Keys)
      BY <1>2, <2>2 DEF LookUpKey
    <3>2. \A c \in Newest(OpenByKey(Head(h.todo))) : c \in Events /\ Open(c)
      BY DEF Newest, OpenByKey
    <3>3. CASE hand' = [hand EXCEPT ![t].todo = Tail(h.todo)]
      <4>1. hand' = [hand EXCEPT ![t] = [h EXCEPT !.pc = "find", !.todo = Tail(h.todo), !.found = found]]
        BY <1>1, <1>2, <3>3 DEF Busy, TypeOK, found
      <4>2. QED
        BY <1>2, <3>1, <4>1
    <3>4. ASSUME NEW c \in Newest(OpenByKey(Head(h.todo))),
                 hand' = [hand EXCEPT ![t].todo = Tail(h.todo), ![t].found = Met(found, c)]
          PROVE  Looked
      <4>1. hand' = [hand EXCEPT ![t] = [h EXCEPT !.pc = "find", !.todo = Tail(h.todo),
                                                  !.found = Met(found, c)]]
        BY <1>1, <1>2, <3>4 DEF Busy, TypeOK
      <4>2. QED
        BY <2>1, <3>1, <3>2, <4>1
    <3>5. \/ hand' = [hand EXCEPT ![t].todo = Tail(h.todo)]
          \/ \E c \in Newest(OpenByKey(Head(h.todo))) :
               hand' = [hand EXCEPT ![t].todo = Tail(h.todo), ![t].found = Met(found, c)]
      BY <2>2 DEF LookUpKey, found
    <3> HIDE DEF Looked
    <3>6. QED
      BY <3>3, <3>4, <3>5
  <2>3. CASE LookUpBurst(t)
    <3>1. \A c \in Newest(OpenByBurst(BurstOf[h.event])) : c \in Events /\ Open(c)
      BY DEF Newest, OpenByBurst, OpenByKey
    <3>2. CASE hand' = [hand EXCEPT ![t].pc = "save"]
      <4>1. hand' = [hand EXCEPT ![t] = [h EXCEPT !.pc = "save", !.todo = h.todo, !.found = found]]
        BY <1>2, <3>2 DEF Busy, TypeOK, found
      <4>2. QED
        BY <1>2, <4>1
    <3>3. ASSUME NEW c \in Newest(OpenByBurst(BurstOf[h.event])),
                 hand' = [hand EXCEPT ![t].pc = "save", ![t].found = Met(found, c)]
          PROVE  Looked
      <4>1. hand' = [hand EXCEPT ![t] = [h EXCEPT !.pc = "save", !.todo = h.todo,
                                                  !.found = Met(found, c)]]
        BY <1>2, <3>3 DEF Busy, TypeOK
      <4>2. QED
        BY <1>2, <2>1, <3>1, <4>1
    <3>4. \/ hand' = [hand EXCEPT ![t].pc = "save"]
          \/ \E c \in Newest(OpenByBurst(BurstOf[h.event])) :
               hand' = [hand EXCEPT ![t].pc = "save", ![t].found = Met(found, c)]
      BY <2>3 DEF LookUpBurst, found
    <3> HIDE DEF Looked
    <3>5. QED
      BY <3>2, <3>3, <3>4
  <2> HIDE DEF Looked
  <2>4. QED
    BY <2>2, <2>3
<1>4. PICK todo \in Seq(Keys), met \in Seq(Found), pc \in {"find", "save"} :
        /\ hand' = [hand EXCEPT ![t] = [h EXCEPT !.pc = pc, !.todo = todo, !.found = met]]
        /\ met = found \/ \E c \in Events : Open(c) /\ met = Met(found, c)
  BY <1>3
<1> DEFINE g == [h EXCEPT !.pc = pc, !.todo = todo, !.found = met]
<1>5. /\ g \in Busy /\ g # Idle /\ g.pc = pc /\ g.event = h.event /\ g.n = h.n /\ g.found = met
  BY <1>2, <1>4 DEF Busy, Found, Idle
<1> HIDE DEF g
<1>6. hand' = [hand EXCEPT ![t] = g]
  BY <1>4 DEF g
<1>7. QED
  BY <1>1, <1>4, <1>5, <1>6 DEF TypeOK

LEMMA AbsorbedTyped ==
  ASSUME NEW card \in Card, NEW survivor \in Events
  PROVE  LET absorbed == AbsorbedCard(card, survivor) IN
         /\ absorbed \in Card /\ absorbed.status = "MERGED"
         /\ absorbed.events = card.events /\ absorbed.hits = card.hits
         /\ absorbed.evidence = card.evidence /\ absorbed.keys = card.keys
         /\ absorbed.related = card.related \cup {survivor}
BY DEF AbsorbedCard, Card, Statuses

LEMMA NewCardTyped ==
  ASSUME NEW e \in Events
  PROVE  /\ NewCard(e) \in Card /\ NewCard(e).status = "NEW" /\ NewCard(e).events = {e}
         /\ NewCard(e).hits = {e} \cap Hitting
BY KeysTyped DEF NewCard, Card, Statuses, OpenStatuses

(* What a save writes of a card in hand, and with which status.              *)
LEMMA WrittenTyped ==
  ASSUME TypeOK, NEW t \in Threads, hand[t] # Idle, hand[t].pc = "save", HandTyped(t)
  PROVE  LET h == hand[t]
             w == Written(h)
         IN
         /\ w \in Found /\ w.id \in Events /\ w.card \in Card
         /\ h.found = <<>> => w.id = h.event /\ w.card = NewCard(h.event)
         /\ h.found # <<>> /\ h.n <= Len(h.found) =>
              /\ h.n \in DOMAIN h.found /\ w.id = h.found[h.n].id
              /\ w.card = AbsorbedCard(h.found[h.n].card, h.found[1].id)
         /\ h.found # <<>> /\ h.n > Len(h.found) =>
              w.id = h.found[1].id /\ w.card = SurvivorCard(h.event, h.found)
         /\ h.n <= Len(h.found) => h.found # <<>>
         /\ w.card.status \in IF h.n > Len(h.found) THEN OpenStatuses ELSE {"MERGED"}
<1> DEFINE h == hand[t]
           e == h.event
           found == h.found
           n == h.n
           w == Written(h)
<1>1. /\ e \in Events /\ n \in Nat /\ found \in Seq(Found)
      /\ \A i \in DOMAIN found : found[i].id \in Events /\ found[i].card \in Card
      /\ Len(found) \in Nat /\ DOMAIN found = 1 .. Len(found)
      /\ found # <<>> => 1 \in DOMAIN found
  BY BusyTyped
<1>2. n >= 2 /\ \A i \in DOMAIN found : found[i].card.status \in OpenStatuses
  BY DEF HandTyped
<1>3. w = IF found = <<>> THEN [id |-> e, card |-> NewCard(e)]
          ELSE IF n <= Len(found)
          THEN [id |-> found[n].id, card |-> AbsorbedCard(found[n].card, found[1].id)]
          ELSE [id |-> found[1].id, card |-> SurvivorCard(e, found)]
  BY DEF Written
<1>4. found = <<>> => Len(found) = 0
  OBVIOUS
<1> HIDE DEF h, e, found, n, w
<1>5. CASE found = <<>>
  <2>1. w = [id |-> e, card |-> NewCard(e)] /\ NewCard(e) \in Card /\ NewCard(e).status \in OpenStatuses
    BY <1>1, <1>3, <1>5, NewCardTyped DEF OpenStatuses
  <2>2. w \in Found /\ w.id = e /\ w.card = NewCard(e) /\ ~(n <= Len(found)) /\ n > Len(found)
    BY <1>1, <1>2, <1>4, <1>5, <2>1 DEF Found
  <2>3. QED
    BY <1>1, <1>5, <2>1, <2>2 DEF h, e, found, n, w
<1>6. CASE found # <<>> /\ n <= Len(found)
  <2>1. n \in DOMAIN found
    BY <1>1, <1>2, <1>6
  <2> DEFINE card == AbsorbedCard(found[n].card, found[1].id)
  <2>2. card \in Card /\ card.status = "MERGED"
    BY <1>1, <1>6, <2>1, AbsorbedTyped
  <2> HIDE DEF card
  <2>3. w = [id |-> found[n].id, card |-> card]
    BY <1>3, <1>6 DEF card
  <2>4. w \in Found /\ w.id = found[n].id /\ w.card = card /\ ~(n > Len(found))
    BY <1>1, <1>6, <2>1, <2>2, <2>3 DEF Found
  <2>5. QED
    BY <1>1, <1>6, <2>1, <2>2, <2>4 DEF h, e, found, n, w, card
<1>7. CASE found # <<>> /\ n > Len(found)
  <2> DEFINE card == SurvivorCard(e, found)
  <2>1. card \in Card /\ card.status = found[1].card.status
    BY <1>1, <1>7, SurvivorTyped
  <2> HIDE DEF card
  <2>2. ~(n <= Len(found))
    BY <1>1, <1>7
  <2>3. w = [id |-> found[1].id, card |-> card]
    BY <1>3, <1>7, <2>2 DEF card
  <2>4. /\ w \in Found /\ w.id = found[1].id /\ w.card = card
        /\ card.status \in OpenStatuses
    BY <1>1, <1>2, <1>7, <2>1, <2>3 DEF Found
  <2>5. QED
    BY <1>1, <1>7, <2>1, <2>2, <2>4 DEF h, e, found, n, w, card
<1>8. QED
  BY <1>1, <1>5, <1>6, <1>7

LEMMA AttachedTyped ==
  ASSUME TypeOK, NEW t \in Threads, hand[t] # Idle, hand[t].found # <<>>
  PROVE  LET card == hand[t].found[1].card IN
         /\ Attached(hand[t]) \in Card /\ Attached(hand[t]).status = card.status
         /\ Attached(hand[t]).events = card.events /\ Attached(hand[t]).hits = card.hits
         /\ Attached(hand[t]).evidence = card.evidence \cup {hand[t].event}
         /\ Attached(hand[t]).keys = card.keys /\ Attached(hand[t]).related = card.related
<1> DEFINE card == hand[t].found[1].card
           e == hand[t].event
<1>1. card \in Card /\ e \in Events
  BY BusyTyped
<1>2. Attached(hand[t]) = [card EXCEPT !.evidence = card.evidence \cup {e}]
  BY <1>1 DEF Attached, Card
<1> HIDE DEF card, e
<1>3. QED
  BY <1>1, <1>2 DEF card, e, Card

(* Where the thread is after the save of an absorbed card.                   *)
LEMMA SaveAbsorbedMoves ==
  ASSUME TypeOK, NEW t \in Threads, SaveAbsorbed(t)
  PROVE  /\ hand[t] # Idle /\ hand[t].pc = "save" /\ hand[t].n <= Len(hand[t].found)
         /\ hand'[t] # Idle /\ hand'[t].pc = "save" /\ hand'[t].n = hand[t].n + 1
         /\ hand'[t].found = hand[t].found /\ hand'[t].event = hand[t].event
         /\ \A u \in Threads : u # t => hand'[u] = hand[u]
         /\ hand' \in [Threads -> {Idle} \cup Busy]
         /\ Save(Written(hand[t]).id, Written(hand[t]).card)
         /\ UNCHANGED <<done, decisions, crashes>>
<1> DEFINE h == hand[t]
           g == [h EXCEPT !.n = h.n + 1]
<1>1. h.pc = "save" /\ h # Idle /\ h.n <= Len(h.found) /\ hand' = [hand EXCEPT ![t].n = @ + 1]
  BY DEF SaveAbsorbed, Idle
<1>2. h \in Busy /\ h.n \in Nat
  BY <1>1, BusyTyped
<1>3. g \in Busy /\ g # Idle /\ g.pc = "save" /\ g.n = h.n + 1 /\ g.found = h.found
      /\ g.event = h.event
  BY <1>1, <1>2 DEF Busy, Idle
<1>4. hand' = [hand EXCEPT ![t] = g]
  BY <1>1 DEF TypeOK
<1> HIDE DEF g
<1>5. QED
  BY <1>1, <1>3, <1>4 DEF TypeOK, SaveAbsorbed

(* Where it is after the last save: still busy if evidence has to be attached. *)
LEMMA SaveCaseMoves ==
  ASSUME TypeOK, NEW t \in Threads, SaveCase(t), hand[t] # Idle => HandTyped(t)
  PROVE  /\ hand[t] # Idle /\ hand[t].pc = "save" /\ hand[t].n > Len(hand[t].found)
         /\ \/ /\ hand'[t] # Idle /\ hand'[t].pc = "attach" /\ hand'[t].n = hand[t].n
               /\ hand'[t].found = <<Written(hand[t])>> /\ hand'[t].event = hand[t].event
               /\ UNCHANGED done
            \/ /\ hand'[t] = Idle /\ done' = done \cup {hand[t].event}
               /\ hand[t].event \notin WithEvidence
         /\ \A u \in Threads : u # t => hand'[u] = hand[u]
         /\ hand' \in [Threads -> {Idle} \cup Busy]
         /\ Save(Written(hand[t]).id, Written(hand[t]).card)
         /\ UNCHANGED <<decisions, crashes>>
<1> DEFINE h == hand[t]
           w == Written(h)
           g == [h EXCEPT !.pc = "attach", !.found = <<w>>]
<1>1. h.pc = "save" /\ h # Idle /\ h.n > Len(h.found) /\ UNCHANGED <<decisions, crashes>>
      /\ Save(w.id, w.card)
  BY DEF SaveCase, Idle
<1>2. h \in Busy /\ w \in Found
  BY <1>1, BusyTyped, WrittenTyped
<1>3. \/ /\ hand' = [hand EXCEPT ![t].pc = "attach", ![t].found = <<w>>] /\ UNCHANGED done
      \/ /\ hand' = [hand EXCEPT ![t] = Idle] /\ done' = done \cup {h.event}
         /\ h.event \notin WithEvidence
  BY DEF SaveCase
<1> HIDE DEF w
<1>4. CASE hand' = [hand EXCEPT ![t].pc = "attach", ![t].found = <<w>>] /\ UNCHANGED done
  <2>1. hand' = [hand EXCEPT ![t] = g]
    BY <1>4 DEF TypeOK
  <2>2. g \in Busy /\ g # Idle /\ g.pc = "attach" /\ g.n = h.n /\ g.found = <<w>> /\ g.event = h.event
    <3> DEFINE saved == <<w>>
    <3>1. saved \in Seq(Found)
      BY <1>2
    <3> HIDE DEF saved
    <3>2. QED
      BY <1>2, <3>1 DEF Busy, Found, Idle, saved
  <2> HIDE DEF g
  <2>3. QED
    BY <1>1, <1>4, <2>1, <2>2 DEF TypeOK, w
<1>5. CASE /\ hand' = [hand EXCEPT ![t] = Idle] /\ done' = done \cup {h.event}
           /\ h.event \notin WithEvidence
  BY <1>1, <1>5 DEF TypeOK, w
<1>6. QED
  BY <1>3, <1>4, <1>5

(* A save leaves the cases and the index typed, and the index of SQLite exact. *)
LEMMA SaveKeepsWide ==
  ASSUME WideInv, NEW id \in Events, NEW card \in Card, card.status # "none",
         Save(id, card), UNCHANGED backend,
         crashes' \in 0 .. MaxCrashes, crashes' = 0 => crashes = 0,
         hand' \in [Threads -> {Idle} \cup Busy], done' \subseteq Events,
         decisions' \in 0 .. MaxDecisions,
         \A t \in Threads : hand'[t] # Idle => HandTyped(t)'
  PROVE  WideInv'
<1>1. TypeOK'
  BY SaveTyped DEF WideInv, TypeOK
<1>2. backend' = "sqlite" /\ crashes' = 0 => IndexExact'
  BY DeltaIsExact DEF WideInv
<1>3. QED
  BY <1>1, <1>2 DEF WideInv

LEMMA QuietKeepsWide ==
  ASSUME WideInv, UNCHANGED <<cases, index, backend>>,
         crashes' \in 0 .. MaxCrashes, crashes' = 0 => crashes = 0,
         hand' \in [Threads -> {Idle} \cup Busy], done' \subseteq Events,
         decisions' \in 0 .. MaxDecisions,
         \A t \in Threads : hand'[t] # Idle => HandTyped(t)'
  PROVE  WideInv'
<1>1. TypeOK'
  BY DEF WideInv, TypeOK
<1>2. IndexExact => IndexExact'
  BY DEF IndexExact, Stored, Open, CardKeys
<1>3. QED
  BY <1>1, <1>2 DEF WideInv

LEMMA WideReceive ==
  ASSUME WideInv, UNCHANGED backend, NEW t \in Threads, NEW e \in Events, Receive(t, e)
  PROVE  WideInv'
<1> DEFINE h == [pc |-> "find", event |-> e, todo |-> KeysOf[e], found |-> <<>>, n |-> 2]
<1>1. /\ TypeOK /\ hand' = [hand EXCEPT ![t] = h]
      /\ UNCHANGED <<cases, index, done, decisions, crashes>>
  BY DEF Receive, WideInv
<1>2. h \in Busy /\ h.found = <<>> /\ h.n = 2 /\ h.pc = "find"
  BY KeysTyped DEF Busy
<1> HIDE DEF h
<1>3. /\ hand' \in [Threads -> {Idle} \cup Busy] /\ hand'[t] = h
      /\ \A u \in Threads : u # t => hand'[u] = hand[u]
  BY <1>1, <1>2 DEF TypeOK
<1>4. \A u \in Threads : hand'[u] # Idle => HandTyped(u)'
  BY <1>2, <1>3 DEF HandTyped, WideInv
<1>5. QED
  BY <1>1, <1>3, <1>4, QuietKeepsWide DEF TypeOK

LEMMA WideLookUp ==
  ASSUME WideInv, UNCHANGED backend, NEW t \in Threads, LookUpKey(t) \/ LookUpBurst(t)
  PROVE  WideInv'
<1>1. TypeOK
  BY DEF WideInv
<1>2. /\ hand[t] # Idle /\ hand'[t].pc \in {"find", "save"} /\ hand'[t].n = hand[t].n
      /\ \/ hand'[t].found = hand[t].found
         \/ \E c \in Events : Open(c) /\ hand'[t].found = Met(hand[t].found, c)
      /\ \A u \in Threads : u # t => hand'[u] = hand[u]
      /\ hand' \in [Threads -> {Idle} \cup Busy]
      /\ UNCHANGED <<cases, index, done, decisions, crashes>>
  BY <1>1, LookUpMeets
<1>3. HandTyped(t)'
  <2>1. HandTyped(t)
    BY <1>2 DEF WideInv
  <2>2. ASSUME NEW c \in Events, Open(c), hand'[t].found = Met(hand[t].found, c),
               NEW i \in DOMAIN hand'[t].found
        PROVE  hand'[t].found[i].card.status \in OpenStatuses
    <3> DEFINE found == hand[t].found
    <3>1. found \in Seq(Found)
      BY <1>1, <1>2, BusyTyped
    <3>2. \A j \in DOMAIN found : found[j].card.status \in OpenStatuses
      BY <2>1 DEF HandTyped
    <3> HIDE DEF found
    <3>3. CASE i \in DOMAIN found
      BY <1>1, <2>2, <3>1, <3>2, <3>3, MetTyped DEF found
    <3>4. CASE i \notin DOMAIN found
      <4>1. Met(found, c)[i] = [id |-> c, card |-> cases[c]]
        BY <1>1, <2>2, <3>1, <3>4, MetTyped DEF found
      <4>2. QED
        BY <2>2, <4>1 DEF found, Open
    <3>5. QED
      BY <3>3, <3>4
  <2>3. QED
    BY <1>2, <2>1, <2>2 DEF HandTyped
<1>4. \A u \in Threads : hand'[u] # Idle => HandTyped(u)'
  BY <1>2, <1>3 DEF HandTyped, WideInv
<1>5. QED
  BY <1>1, <1>2, <1>4, QuietKeepsWide DEF TypeOK

LEMMA WideSaveAbsorbed ==
  ASSUME WideInv, UNCHANGED backend, NEW t \in Threads, SaveAbsorbed(t)
  PROVE  WideInv'
<1>1. TypeOK /\ hand[t] # Idle /\ HandTyped(t)
  BY DEF WideInv, SaveAbsorbed, Idle
<1>2. /\ hand[t].pc = "save" /\ hand[t].n <= Len(hand[t].found) /\ hand'[t].pc = "save"
      /\ hand'[t].n = hand[t].n + 1 /\ hand'[t].found = hand[t].found
      /\ \A u \in Threads : u # t => hand'[u] = hand[u]
      /\ hand' \in [Threads -> {Idle} \cup Busy]
      /\ Save(Written(hand[t]).id, Written(hand[t]).card)
      /\ UNCHANGED <<done, decisions, crashes>>
  BY <1>1, SaveAbsorbedMoves
<1>3. /\ Written(hand[t]).id \in Events /\ Written(hand[t]).card \in Card
      /\ Written(hand[t]).card.status # "none"
  BY <1>1, <1>2, WrittenTyped DEF OpenStatuses
<1>4. hand[t].n \in Nat
  BY <1>1, BusyTyped
<1>5. \A u \in Threads : hand'[u] # Idle => HandTyped(u)'
  BY <1>1, <1>2, <1>4 DEF HandTyped, WideInv
<1>6. QED
  BY <1>1, <1>2, <1>3, <1>5, SaveKeepsWide DEF TypeOK

LEMMA WideSaveCase ==
  ASSUME WideInv, UNCHANGED backend, NEW t \in Threads, SaveCase(t)
  PROVE  WideInv'
<1> DEFINE w == Written(hand[t])
<1>1. TypeOK /\ hand[t] # Idle /\ HandTyped(t) /\ hand[t].event \in Events
  BY BusyTyped DEF WideInv, SaveCase, Idle
<1>2. /\ hand[t].pc = "save" /\ hand[t].n > Len(hand[t].found)
      /\ \/ /\ hand'[t] # Idle /\ hand'[t].pc = "attach" /\ hand'[t].n = hand[t].n
            /\ hand'[t].found = <<w>> /\ UNCHANGED done
         \/ /\ hand'[t] = Idle /\ done' = done \cup {hand[t].event}
      /\ \A u \in Threads : u # t => hand'[u] = hand[u]
      /\ hand' \in [Threads -> {Idle} \cup Busy]
      /\ Save(w.id, w.card) /\ UNCHANGED <<decisions, crashes>>
  BY <1>1, SaveCaseMoves
<1>3. w.id \in Events /\ w.card \in Card /\ w.card.status \in OpenStatuses
  BY <1>1, <1>2, WrittenTyped
<1> HIDE DEF w
<1>4. <<w>> # <<>> /\ DOMAIN <<w>> = {1} /\ <<w>>[1] = w
  OBVIOUS
<1>5. \A u \in Threads : hand'[u] # Idle => HandTyped(u)'
  BY <1>1, <1>2, <1>3, <1>4 DEF HandTyped, WideInv
<1>6. QED
  BY <1>1, <1>2, <1>3, <1>5, SaveKeepsWide DEF TypeOK, OpenStatuses

LEMMA WideAttach ==
  ASSUME WideInv, UNCHANGED backend, NEW t \in Threads, AttachRawEvidence(t)
  PROVE  WideInv'
<1> DEFINE h == hand[t]
<1>1. /\ TypeOK /\ h.pc = "attach" /\ h # Idle /\ HandTyped(t)
      /\ Save(h.found[1].id, Attached(h)) /\ hand' = [hand EXCEPT ![t] = Idle]
      /\ done' = done \cup {h.event} /\ UNCHANGED <<decisions, crashes>>
  BY DEF WideInv, AttachRawEvidence, Idle
<1>2. h.found # <<>> /\ h.event \in Events /\ 1 \in DOMAIN h.found /\ h.found[1].id \in Events
  BY <1>1, BusyTyped DEF HandTyped
<1>3. Attached(h) \in Card /\ Attached(h).status # "none"
  BY <1>1, <1>2, AttachedTyped DEF HandTyped, OpenStatuses
<1>4. /\ hand' \in [Threads -> {Idle} \cup Busy] /\ hand'[t] = Idle
      /\ \A u \in Threads : u # t => hand'[u] = hand[u]
  BY <1>1 DEF TypeOK
<1>5. \A u \in Threads : hand'[u] # Idle => HandTyped(u)'
  BY <1>4 DEF HandTyped, WideInv
<1>6. QED
  BY <1>1, <1>2, <1>3, <1>4, <1>5, SaveKeepsWide DEF TypeOK

(* What an analyst sets is a status that the case may take.                  *)
LEMMA DecideWrites ==
  ASSUME TypeOK, NEW c \in Events, Decide(c)
  PROVE  \E card \in Card :
           /\ Save(c, card) /\ Stored(c)
           /\ card.status \in Targets /\ cases[c].status \notin {"none", "MERGED"}
           /\ card.events = cases[c].events /\ card.hits = cases[c].hits
           /\ card.evidence = cases[c].evidence /\ card.keys = cases[c].keys
           /\ card.related = cases[c].related
           /\ UNCHANGED <<hand, done, crashes>> /\ decisions' \in 0 .. MaxDecisions
<1>1. PICK status \in Targets \cap AllowedTransitions(cases[c].status) :
        Save(c, [cases[c] EXCEPT !.status = status])
  BY DEF Decide
<1> DEFINE old == cases[c]
           card == [old EXCEPT !.status = status]
<1>2. old \in Card /\ status \in Statuses
  BY EventProcessingAssumption DEF TypeOK, Statuses, OpenStatuses, Decided
<1>3. old.status \notin {"none", "MERGED"}
  BY <1>1, <1>2 DEF AllowedTransitions, Card
<1>4. UNCHANGED <<hand, done, crashes>> /\ decisions' \in 0 .. MaxDecisions
  BY EventProcessingAssumption DEF Decide, TypeOK
<1> HIDE DEF old
<1>5. /\ card \in Card /\ card.status = status /\ card.events = old.events
      /\ card.hits = old.hits /\ card.evidence = old.evidence /\ card.keys = old.keys
      /\ card.related = old.related
  BY <1>2 DEF Card
<1> HIDE DEF card
<1>6. Save(c, card)
  BY <1>1 DEF card, old
<1>7. QED
  BY <1>1, <1>3, <1>4, <1>5, <1>6 DEF old, Stored

LEMMA WideDecide ==
  ASSUME WideInv, UNCHANGED backend, NEW c \in Events, Decide(c)
  PROVE  WideInv'
<1>1. TypeOK
  BY DEF WideInv
<1>2. PICK card \in Card : /\ Save(c, card) /\ card.status \in Targets
                           /\ UNCHANGED <<hand, done, crashes>>
                           /\ decisions' \in 0 .. MaxDecisions
  BY <1>1, DecideWrites
<1>3. card.status # "none"
  BY <1>2, EventProcessingAssumption
<1>4. \A u \in Threads : hand'[u] # Idle => HandTyped(u)'
  BY <1>2 DEF HandTyped, WideInv
<1>5. QED
  BY <1>1, <1>2, <1>3, <1>4, SaveKeepsWide DEF TypeOK

LEMMA WideDied ==
  ASSUME WideInv, UNCHANGED backend, Died \/ \E t \in Threads : DiedInSave(t)
  PROVE  WideInv'
<1>1. TypeOK /\ crashes \in Nat /\ MaxCrashes \in Nat
  BY EventProcessingAssumption DEF WideInv, TypeOK
<1>2. /\ crashes' = crashes + 1 /\ crashes < MaxCrashes /\ UNCHANGED <<done, decisions>>
      /\ hand' = [u \in Threads |-> Idle]
  BY DEF Died, DiedInSave
<1>3. cases' \in [Events -> Card] /\ index' \subseteq (Keys \cup BurstKeys) \X Events
  <2>1. CASE Died
    BY <1>1, <2>1 DEF Died, TypeOK
  <2>2. ASSUME NEW t \in Threads, DiedInSave(t)
        PROVE  cases' \in [Events -> Card] /\ index' \subseteq (Keys \cup BurstKeys) \X Events
    <3> DEFINE w == Written(hand[t])
    <3>1. hand[t] # Idle /\ hand[t].pc = "save" /\ HandTyped(t)
      BY <2>2 DEF DiedInSave, Idle, WideInv
    <3>2. w.id \in Events /\ w.card \in Card
      BY <1>1, <3>1, WrittenTyped
    <3>3. /\ cases' = [cases EXCEPT ![w.id] = w.card]
          /\ index' \subseteq index \cup ReindexDelta(w.id, w.card)
      BY <2>2 DEF DiedInSave
    <3> HIDE DEF w
    <3>4. ReindexDelta(w.id, w.card) \subseteq (Keys \cup BurstKeys) \X Events
      BY <1>1, <3>2, KeysTyped DEF ReindexDelta, CardKeys, Card, TypeOK
    <3>5. QED
      BY <1>1, <3>2, <3>3, <3>4 DEF TypeOK
  <2>3. QED
    BY <2>1, <2>2
<1>4. crashes' # 0 /\ crashes' \in 0 .. MaxCrashes
  BY <1>1, <1>2
<1>5. \A u \in Threads : hand'[u] = Idle
  BY <1>2
<1>6. QED
  BY <1>1, <1>2, <1>3, <1>4, <1>5 DEF WideInv, TypeOK

LEMMA WideStep == WideInv /\ [Next]_vars => WideInv'
<1>1. SUFFICES ASSUME WideInv, [Next]_vars PROVE WideInv'
  OBVIOUS
<1>2. CASE UNCHANGED vars
  <2>1. \A u \in Threads : hand'[u] # Idle => HandTyped(u)'
    BY <1>1, <1>2 DEF vars, WideInv, HandTyped
  <2>2. QED
    BY <1>1, <1>2, <2>1, QuietKeepsWide DEF vars, WideInv, TypeOK
<1>3. ASSUME NEW t \in Threads, Process(t), UNCHANGED backend PROVE WideInv'
  BY <1>1, <1>3, WideReceive, WideLookUp, WideSaveAbsorbed, WideSaveCase, WideAttach DEF Process
<1>4. ASSUME NEW t \in Threads, DiedInSave(t), UNCHANGED backend PROVE WideInv'
  BY <1>1, <1>4, WideDied
<1>5. ASSUME NEW c \in Events, Decide(c), UNCHANGED backend PROVE WideInv'
  BY <1>1, <1>5, WideDecide
<1>6. CASE Died /\ UNCHANGED backend
  BY <1>1, <1>6, WideDied
<1>7. QED
  BY <1>1, <1>2, <1>3, <1>4, <1>5, <1>6 DEF Next

LEMMA WideInit == Init => WideInv
<1>1. SUFFICES ASSUME Init PROVE WideInv
  OBVIOUS
<1>2. SerialInv
  BY <1>1, Initially
<1>3. \A t \in Threads : hand[t] = Idle
  BY <1>1 DEF Init
<1>4. QED
  BY <1>2, <1>3 DEF WideInv, SerialInv

THEOREM WideInductive == Spec => []WideInv
BY WideInit, WideStep, PTL DEF Spec

(* Every variable keeps its type with any number of threads, whatever the     *)
(* analysts decide and whenever the API dies.                               *)
THEOREM EventsTyped == Spec => []TypeOK
<1>1. WideInv => TypeOK
  BY DEF WideInv
<1>2. QED
  BY <1>1, WideInductive, PTL

(* Until the API dies, a key of an open case in SQLite finds an open case,    *)
(* though any number of threads save the cards they have in hand.            *)
THEOREM CasesAreFoundInSqlite == Spec => [](backend = "sqlite" => OpenCaseIsFound)
<1>1. WideInv => (backend = "sqlite" => OpenCaseIsFound)
  <2>1. SUFFICES ASSUME WideInv, backend = "sqlite", crashes = 0,
                        NEW c \in Events, Open(c), NEW key \in cases[c].keys
                 PROVE  OpenByKey(key) # {}
    BY DEF OpenCaseIsFound
  <2>2. key \in Keys /\ Stored(c)
    BY <2>1 DEF WideInv, TypeOK, Card, Open, OpenStatuses, Stored
  <2>3. <<key, c>> \in index
    BY <2>1, <2>2 DEF WideInv, IndexExact, CardKeys
  <2>4. QED
    BY <2>1, <2>3 DEF OpenByKey
<1>2. QED
  BY <1>1, WideInductive, PTL

(* The rows that a save deletes and inserts leave the index as a rewrite of   *)
(* all rows of the card would, though the card was read long before it.       *)
THEOREM DeltaIsRewrite == Spec => DeltaEqualsRewrite
<1>1. ASSUME WideInv, WideInv', [Next]_vars, backend = "sqlite", crashes' = 0,
             NEW c \in Events, cases'[c] # cases[c]
      PROVE  {p \in index' : p[2] = c} = CardKeys(c, cases'[c]) \X {c}
  <2>1. backend' = "sqlite" /\ cases'[c].status # "none"
    <3>1. backend' = backend
      BY <1>1 DEF Next, vars
    <3>2. PICK id \in Events, card \in Card : Save(id, card) /\ card.status # "none"
      <4> TypeOK
        BY <1>1 DEF WideInv
      <4>1. ~UNCHANGED cases
        BY <1>1
      <4>2. \A t \in Threads : ~DiedInSave(t)
        BY <1>1 DEF DiedInSave, WideInv, TypeOK
      <4>3. ASSUME NEW d \in Events, Decide(d)
            PROVE  \E id \in Events, card \in Card : Save(id, card) /\ card.status # "none"
        BY <4>3, DecideWrites, EventProcessingAssumption
      <4>4. ASSUME NEW t \in Threads, SaveAbsorbed(t)
            PROVE  \E id \in Events, card \in Card : Save(id, card) /\ card.status # "none"
        <5>1. /\ hand[t] # Idle /\ hand[t].pc = "save" /\ HandTyped(t)
              /\ Save(Written(hand[t]).id, Written(hand[t]).card)
          BY <1>1, <4>4 DEF SaveAbsorbed, Idle, WideInv
        <5>2. QED
          BY <5>1, WrittenTyped DEF OpenStatuses
      <4>5. ASSUME NEW t \in Threads, SaveCase(t)
            PROVE  \E id \in Events, card \in Card : Save(id, card) /\ card.status # "none"
        <5>1. /\ hand[t] # Idle /\ hand[t].pc = "save" /\ HandTyped(t)
              /\ Save(Written(hand[t]).id, Written(hand[t]).card)
          BY <1>1, <4>5 DEF SaveCase, Idle, WideInv
        <5>2. QED
          BY <5>1, WrittenTyped DEF OpenStatuses
      <4>6. ASSUME NEW t \in Threads, AttachRawEvidence(t)
            PROVE  \E id \in Events, card \in Card : Save(id, card) /\ card.status # "none"
        <5>1. /\ hand[t] # Idle /\ hand[t].pc = "attach" /\ HandTyped(t)
              /\ Save(hand[t].found[1].id, Attached(hand[t]))
          BY <1>1, <4>6 DEF AttachRawEvidence, Idle, WideInv
        <5>2. hand[t].found # <<>> /\ 1 \in DOMAIN hand[t].found /\ hand[t].found[1].id \in Events
          BY <5>1, BusyTyped DEF HandTyped
        <5>3. Attached(hand[t]) \in Card /\ Attached(hand[t]).status # "none"
          BY <5>1, <5>2, AttachedTyped DEF HandTyped, OpenStatuses
        <5>4. QED
          BY <5>1, <5>2, <5>3
      <4>7. \/ \E t \in Threads : SaveAbsorbed(t) \/ SaveCase(t) \/ AttachRawEvidence(t)
            \/ \E d \in Events : Decide(d)
        BY <1>1, <4>1, <4>2 DEF Next, Process, Receive, LookUpKey, LookUpBurst, Died, vars
      <4>8. QED
        BY <4>3, <4>4, <4>5, <4>6, <4>7
    <3>3. QED
      BY <1>1, <3>1, <3>2, SaveTyped DEF WideInv
  <2>2. IndexExact' /\ TypeOK' /\ Stored(c)'
    BY <1>1, <2>1 DEF WideInv, Stored
  <2>3. CardKeys(c, cases'[c]) \subseteq Keys \cup BurstKeys
    BY <2>2, KeysTyped DEF CardKeys, TypeOK, Card
  <2>4. \A key \in Keys \cup BurstKeys : <<key, c>> \in index' <=> key \in CardKeys(c, cases'[c])
    BY <2>1, <2>2 DEF IndexExact, CardKeys
  <2>5. index' \subseteq (Keys \cup BurstKeys) \X Events
    BY <2>2 DEF TypeOK
  <2>6. QED
    BY <2>3, <2>4, <2>5
<1>2. WideInv /\ WideInv' /\ [Next]_vars =>
        [backend = "sqlite" /\ crashes' = 0 =>
           \A c \in Events : cases'[c] # cases[c] =>
              {p \in index' : p[2] = c} = CardKeys(c, cases'[c]) \X {c}]_vars
  BY <1>1
<1>3. QED
  BY <1>2, WideInductive, PTL DEF Spec, DeltaEqualsRewrite

(***************************************************************************)
(* One thread that ingests.                                                *)
(***************************************************************************)
LEMMA HeldIsTyped ==
  ASSUME KeepInv, NEW t \in Threads, hand[t] # Idle
  PROVE  /\ TypeOK /\ HeldInv(t) /\ HandTyped(t)
         /\ hand[t].pc = "attach" => hand[t].found # <<>>
<1>1. TypeOK /\ HeldInv(t)
  BY DEF KeepInv
<1>2. hand[t].pc = "attach" => hand[t].found # <<>>
  <2>1. \A s : s = <<>> => Len(s) = 0
    OBVIOUS
  <2>2. QED
    BY <1>1, <2>1 DEF HeldInv
<1>3. QED
  BY <1>1, <1>2 DEF HeldInv, HandTyped

(* What a thread is about to write adds to a case that is not absorbed.      *)
Adds(id, card) ==
  /\ id \in Events /\ card \in Card /\ card.status # "none" /\ id \in card.events
  /\ cases[id].status # "MERGED"
  /\ cases[id].events \subseteq card.events /\ cases[id].hits \subseteq card.hits
  /\ cases[id].evidence \subseteq card.evidence /\ cases[id].related \subseteq card.related

LEMMA AddsKeep ==
  ASSUME KeepInv, NEW id, NEW card, Adds(id, card), cases' = [cases EXCEPT ![id] = card]
  PROVE  /\ cases'[id] = card /\ \A c \in Events : c # id => cases'[c] = cases[c]
         /\ \A c \in Events, e \in Events : Bears(cases[c], e) => Bears(cases'[c], e)
         /\ \A c \in Events :
              IF Stored(c)' THEN c \in cases'[c].events ELSE cases'[c] = NoCard
         /\ \A c \in Events : cases[c].status = "MERGED" => cases'[c] = cases[c]
         /\ \A c \in Events : cases[c].status = "MERGED" /\ Traced(c) => Traced(c)'
<1>1. /\ cases'[id] = card /\ \A c \in Events : c # id => cases'[c] = cases[c]
      /\ TypeOK /\ id \in Events
  BY DEF KeepInv, TypeOK, Adds
<1>2. \A c \in Events, e \in Events : Bears(cases[c], e) => Bears(cases'[c], e)
  BY <1>1 DEF Bears, Adds
<1>3. \A c \in Events : IF Stored(c)' THEN c \in cases'[c].events ELSE cases'[c] = NoCard
  BY <1>1 DEF KeepInv, Stored, Adds
<1>4. \A c \in Events : cases[c].status = "MERGED" => cases'[c] = cases[c]
  BY <1>1 DEF Adds
<1>5. ASSUME NEW c \in Events, cases[c].status = "MERGED", Traced(c) PROVE Traced(c)'
  <2>1. cases[c] \in Card /\ cases'[c] = cases[c]
    BY <1>1, <1>4, <1>5 DEF TypeOK
  <2>2. PICK d \in cases[c].related : cases[c].events \subseteq cases[d].events /\ c \in cases[d].related
    BY <1>5 DEF Traced
  <2>3. d \in Events
    BY <2>1 DEF Card
  <2>4. cases[d].events \subseteq cases'[d].events /\ cases[d].related \subseteq cases'[d].related
    BY <1>1, <2>3 DEF Adds
  <2>5. QED
    BY <2>1, <2>2, <2>4 DEF Traced
<1>6. QED
  BY <1>1, <1>2, <1>3, <1>4, <1>5

(* A card in hand that is absorbed next, and the survivor.                    *)
LEMMA WrittenAdds ==
  ASSUME KeepInv, NEW t \in Threads, hand[t] # Idle, hand[t].pc = "save"
  PROVE  LET h == hand[t]
             w == Written(h)
         IN
         /\ Adds(w.id, w.card)
         /\ h.n <= Len(h.found) =>
              /\ h.n \in DOMAIN h.found /\ 1 \in DOMAIN h.found /\ w.id = h.found[h.n].id
              /\ SameContents(w.card, cases[w.id]) /\ SameContents(h.found[h.n].card, cases[w.id])
              /\ w.card.status = "MERGED" /\ h.found[1].id \in w.card.related
         /\ h.n > Len(h.found) =>
              /\ w.card.status \in OpenStatuses /\ h.event \in w.card.events
              /\ h.event \in Hitting => h.event \in w.card.hits
              /\ h.found # <<>> => /\ w.id = h.found[1].id /\ 1 \in DOMAIN h.found
                                   /\ w.card = SurvivorCard(h.event, h.found)
<1> DEFINE h == hand[t]
           w == Written(h)
           found == h.found
           n == h.n
           e == h.event
<1>1. TypeOK /\ HeldInv(t) /\ HandTyped(t)
  BY HeldIsTyped
<1>2. /\ e \in Events /\ n \in Nat /\ n >= 2 /\ found \in Seq(Found)
      /\ \A i \in DOMAIN found : found[i].id \in Events /\ found[i].card \in Card
      /\ Len(found) \in Nat /\ DOMAIN found = 1 .. Len(found)
      /\ found # <<>> => 1 \in DOMAIN found
  BY <1>1, BusyTyped DEF HeldInv
<1>3. /\ w.id \in Events /\ w.card \in Card
      /\ found = <<>> => w.id = e /\ w.card = NewCard(e)
      /\ found # <<>> /\ n <= Len(found) =>
           /\ n \in DOMAIN found /\ w.id = found[n].id
           /\ w.card = AbsorbedCard(found[n].card, found[1].id)
      /\ found # <<>> /\ n > Len(found) => w.id = found[1].id /\ w.card = SurvivorCard(e, found)
      /\ n <= Len(found) => found # <<>>
      /\ w.card.status \in IF n > Len(found) THEN OpenStatuses ELSE {"MERGED"}
  BY <1>1, WrittenTyped
<1>4. \A i \in DOMAIN found :
        /\ SameContents(found[i].card, cases[found[i].id]) /\ Stored(found[i].id)
        /\ i \notin 2 .. (n - 1) =>
             /\ cases[found[i].id].status # "MERGED"
             /\ found[i].card.related = cases[found[i].id].related
  BY <1>1 DEF HeldInv
<1>5. \A c \in Events : IF Stored(c) THEN c \in cases[c].events ELSE cases[c] = NoCard
  BY DEF KeepInv
<1>6. \A c \in Events : e \notin cases[c].events
  BY <1>1 DEF HeldInv
<1>7. n > Len(found) => ~(n <= Len(found))
  BY <1>2
<1> HIDE DEF w, h, found, n, e
<1>8. CASE found = <<>>
  <2>1. ~Stored(e) /\ cases[e] = NoCard
    BY <1>2, <1>5, <1>6
  <2>2. /\ NewCard(e) \in Card /\ NewCard(e).status = "NEW" /\ NewCard(e).events = {e}
        /\ NewCard(e).hits = {e} \cap Hitting
    BY <1>2, NewCardTyped
  <2>3. Adds(e, NewCard(e))
    BY <1>2, <2>1, <2>2 DEF Adds, NoCard
  <2>4. QED
    BY <1>3, <1>8, <2>2, <2>3 DEF w, h, found, n, e, OpenStatuses
<1>9. CASE found # <<>> /\ n <= Len(found)
  <2> DEFINE m == found[n]
             card == AbsorbedCard(m.card, found[1].id)
  <2>1. m.card \in Card /\ m.id \in Events /\ found[1].id \in Events /\ n \notin 2 .. (n - 1)
    BY <1>2, <1>3, <1>9
  <2>2. /\ SameContents(m.card, cases[m.id]) /\ Stored(m.id) /\ cases[m.id].status # "MERGED"
        /\ m.card.related = cases[m.id].related /\ m.id \in cases[m.id].events
    BY <1>3, <1>4, <1>5, <1>9, <2>1
  <2> HIDE DEF m
  <2>3. /\ card \in Card /\ card.status = "MERGED"
        /\ card.events = m.card.events /\ card.hits = m.card.hits
        /\ card.evidence = m.card.evidence /\ card.related = m.card.related \cup {found[1].id}
    BY <2>1, AbsorbedTyped
  <2>4. w.id = m.id /\ w.card = card
    BY <1>3, <1>9 DEF m
  <2> HIDE DEF card
  <2>5. Adds(m.id, card) /\ SameContents(card, cases[m.id]) /\ found[1].id \in card.related
    BY <2>1, <2>2, <2>3 DEF Adds, SameContents
  <2>6. ~(n > Len(found)) /\ n \in DOMAIN found /\ 1 \in DOMAIN found
    BY <1>2, <1>3, <1>9
  <2>7. QED
    BY <1>9, <2>2, <2>3, <2>4, <2>5, <2>6 DEF w, h, found, n, e, m
<1>10. CASE found # <<>> /\ n > Len(found)
  <2> DEFINE m == found[1]
             card == SurvivorCard(e, found)
  <2>1. m.card \in Card /\ m.id \in Events /\ 1 \in DOMAIN found /\ m \in Range(found)
    BY <1>2, <1>10 DEF Range
  <2>2. /\ SameContents(m.card, cases[m.id]) /\ Stored(m.id) /\ cases[m.id].status # "MERGED"
        /\ m.card.related = cases[m.id].related /\ m.id \in cases[m.id].events
    BY <1>4, <1>5, <2>1
  <2>3. /\ card \in Card
        /\ card.events = {e} \cup UNION {x.card.events : x \in Range(found)}
        /\ card.hits = ({e} \cap Hitting) \cup UNION {x.card.hits : x \in Range(found)}
        /\ card.evidence = UNION {x.card.evidence : x \in Range(found)}
        /\ card.related = m.card.related \cup {found[i].id : i \in 2 .. Len(found)}
    BY <1>2, <1>10, SurvivorTyped
  <2>4. w.id = m.id /\ w.card = card /\ w.card.status \in OpenStatuses
    BY <1>3, <1>10
  <2> HIDE DEF card, m
  <2>5. /\ m.card.events \subseteq card.events /\ m.card.hits \subseteq card.hits
        /\ m.card.evidence \subseteq card.evidence /\ m.card.related \subseteq card.related
        /\ e \in card.events /\ (e \in Hitting => e \in card.hits)
    BY <2>1, <2>3
  <2>6. Adds(m.id, card)
    BY <2>1, <2>2, <2>3, <2>4, <2>5 DEF Adds, SameContents, OpenStatuses
  <2>7. QED
    BY <1>7, <1>10, <2>1, <2>4, <2>5, <2>6 DEF w, h, found, n, e, m, card
<1>11. QED
  BY <1>2, <1>8, <1>9, <1>10

(* A step of the thread that ingests, of one that has saved nothing yet.      *)
LEMMA QuietKeeps ==
  ASSUME KeepInv, Alone, TypeOK', UNCHANGED <<cases, done, crashes>>, NEW t \in Threads,
         hand[t] = Idle \/ hand[t].pc = "find", hand'[t] # Idle => HeldInv(t)'
  PROVE  KeepInv'
<1>1. \A u \in Threads : u = t
  BY DEF Alone
<1>2. \A e \in Events : ~InHand(t, e) /\ ~Absorbing(t, e)
  BY DEF InHand, Absorbing
<1>3. done \subseteq Events
  BY DEF KeepInv, TypeOK
<1>4. AnsweredIsKept'
  BY DEF KeepInv, AnsweredIsKept
<1>5. EventsHeld'
  BY <1>1, <1>2, <1>3 DEF KeepInv, EventsHeld
<1>6. \A c \in Events : IF Stored(c)' THEN c \in cases'[c].events ELSE cases'[c] = NoCard
  BY DEF KeepInv, Stored
<1>7. crashes' = 0 => \A c \in Events : cases'[c].status = "MERGED" =>
                         Traced(c)' \/ \E u \in Threads : Absorbing(u, c)'
  BY <1>1, <1>2 DEF KeepInv, Traced
<1>8. QED
  BY <1>1, <1>4, <1>5, <1>6, <1>7 DEF KeepInv

LEMMA KeepReceive ==
  ASSUME KeepInv, Alone, TypeOK', NEW t \in Threads, NEW e \in Events, Receive(t, e)
  PROVE  KeepInv'
<1> DEFINE h == [pc |-> "find", event |-> e, todo |-> KeysOf[e], found |-> <<>>, n |-> 2]
<1>1. /\ hand[t] = Idle /\ hand'[t] = h /\ \A c \in Events : e \notin cases[c].events
      /\ UNCHANGED <<cases, done, crashes>>
  BY DEF Receive, KeepInv, TypeOK
<1>2. h.found = <<>> /\ h.n = 2 /\ h.pc = "find" /\ h.event = e
  OBVIOUS
<1> HIDE DEF h
<1>3. HeldInv(t)'
  BY <1>1, <1>2 DEF HeldInv, FoundOnce
<1>4. QED
  BY <1>1, <1>3, QuietKeeps

LEMMA KeepLookUp ==
  ASSUME KeepInv, Alone, TypeOK', NEW t \in Threads, LookUpKey(t) \/ LookUpBurst(t)
  PROVE  KeepInv'
<1> DEFINE found == hand[t].found
           next == hand'[t].found
<1>1. TypeOK
  BY DEF KeepInv
<1>2. /\ hand[t] # Idle /\ hand[t].pc = "find" /\ hand'[t].pc \in {"find", "save"}
      /\ hand'[t].event = hand[t].event /\ hand'[t].n = hand[t].n
      /\ next = found \/ \E c \in Events : Open(c) /\ next = Met(found, c)
      /\ UNCHANGED <<cases, done, crashes>>
  BY <1>1, LookUpMeets
<1>3. HeldInv(t)
  BY <1>2 DEF KeepInv
<1>4. /\ found \in Seq(Found) /\ FoundOnce(t) /\ hand[t].n = 2
      /\ \A c \in Events : hand[t].event \notin cases[c].events
      /\ \A i \in DOMAIN found :
           /\ SameContents(found[i].card, cases[found[i].id]) /\ Stored(found[i].id)
           /\ found[i].card.status \in OpenStatuses
           /\ cases[found[i].id].status # "MERGED"
           /\ found[i].card.related = cases[found[i].id].related
  BY <1>1, <1>2, <1>3, BusyTyped DEF HeldInv
<1> HIDE DEF found, next
<1> DEFINE Current ==
             /\ \A i \in DOMAIN next :
                  /\ SameContents(next[i].card, cases[next[i].id]) /\ Stored(next[i].id)
                  /\ next[i].card.status \in OpenStatuses
                  /\ cases[next[i].id].status # "MERGED"
                  /\ next[i].card.related = cases[next[i].id].related
             /\ \A i, j \in DOMAIN next : next[i].id = next[j].id => i = j
<1>5. Current
  <2>1. \A i, j \in DOMAIN found : found[i].id = found[j].id => i = j
    BY <1>4 DEF FoundOnce, found
  <2>2. CASE next = found
    BY <1>4, <2>1, <2>2
  <2>3. ASSUME NEW c \in Events, Open(c), next = Met(found, c)
        PROVE  Current
    <3>1. /\ DOMAIN found \subseteq DOMAIN next
          /\ \A i \in DOMAIN found : next[i] = found[i]
          /\ \A i \in DOMAIN next \ DOMAIN found :
               /\ next[i] = [id |-> c, card |-> cases[c]] /\ i = Len(found) + 1
               /\ \A j \in DOMAIN found : found[j].id # c
      BY <1>1, <1>4, <2>3, MetTyped
    <3>2. \A i \in DOMAIN next \ DOMAIN found : next[i].id = c /\ next[i].card = cases[c]
      BY <3>1
    <3>3. /\ Stored(c) /\ cases[c].status \in OpenStatuses /\ cases[c].status # "MERGED"
          /\ SameContents(cases[c], cases[c])
      BY <2>3 DEF Open, Stored, OpenStatuses, SameContents
    <3>4. QED
      BY <1>4, <2>1, <3>1, <3>2, <3>3
  <2>4. QED
    BY <1>2, <2>2, <2>3
<1>6. HeldInv(t)'
  <2>1. \A i \in 2 .. (hand'[t].n - 1) : FALSE
    BY <1>2, <1>4
  <2>2. FoundOnce(t)'
    BY <1>5 DEF FoundOnce, next
  <2>3. QED
    BY <1>2, <1>4, <1>5, <2>1, <2>2 DEF HeldInv, Stored, next
<1>7. QED
  BY <1>2, <1>6, QuietKeeps

(* An absorbed card keeps its contents, which the survivor in hand has too.   *)
LEMMA KeepSaveAbsorbed ==
  ASSUME KeepInv, Alone, TypeOK', NEW t \in Threads, SaveAbsorbed(t)
  PROVE  KeepInv'
<1> DEFINE h == hand[t]
           w == Written(h)
           id == w.id
           found == h.found
           n == h.n
<1>1. TypeOK /\ done \subseteq Events
  BY DEF KeepInv, TypeOK
<1>2. /\ h # Idle /\ h.pc = "save" /\ n <= Len(found)
      /\ hand'[t] # Idle /\ hand'[t].pc = "save" /\ hand'[t].n = n + 1
      /\ hand'[t].found = found /\ hand'[t].event = h.event
      /\ Save(id, w.card) /\ UNCHANGED <<done, crashes>>
  BY <1>1, SaveAbsorbedMoves
<1>3. HeldInv(t) /\ \A u \in Threads : u = t
  BY <1>2 DEF KeepInv, Alone
<1>4. /\ Adds(id, w.card) /\ n \in DOMAIN found /\ 1 \in DOMAIN found /\ id = found[n].id
      /\ SameContents(w.card, cases[id]) /\ SameContents(found[n].card, cases[id])
      /\ w.card.status = "MERGED" /\ found[1].id \in w.card.related
  BY <1>2, WrittenAdds
<1>5. /\ n \in Nat /\ n >= 2 /\ h.event \in Events /\ found \in Seq(Found) /\ found # <<>>
      /\ DOMAIN found = 1 .. Len(found) /\ Len(found) \in Nat
      /\ \A i \in DOMAIN found : found[i].id \in Events /\ found[i].card \in Card
  <2>1. \A s : s = <<>> => DOMAIN s = {}
    OBVIOUS
  <2>2. found # <<>>
    BY <1>4, <2>1
  <2>3. QED
    BY <1>1, <1>2, <1>3, <2>2, BusyTyped DEF HeldInv
<1>6. cases' = [cases EXCEPT ![id] = w.card] /\ Adds(id, w.card)
  BY <1>2, <1>4 DEF Save
<1> HIDE DEF h, w, id, found, n
<1>7. /\ cases'[id] = w.card /\ \A c \in Events : c # id => cases'[c] = cases[c]
      /\ \A c \in Events, e \in Events : Bears(cases[c], e) => Bears(cases'[c], e)
      /\ \A c \in Events : IF Stored(c)' THEN c \in cases'[c].events ELSE cases'[c] = NoCard
      /\ \A c \in Events : cases[c].status = "MERGED" => cases'[c] = cases[c]
      /\ \A c \in Events : cases[c].status = "MERGED" /\ Traced(c) => Traced(c)'
  BY <1>6, AddsKeep
<1>8. \A c \in Events : SameContents(cases'[c], cases[c])
  BY <1>4, <1>7 DEF SameContents
<1>9. AnsweredIsKept'
  BY <1>1, <1>2, <1>7 DEF KeepInv, AnsweredIsKept
<1>10. EventsHeld'
  <2>1. SUFFICES ASSUME crashes' = 0, NEW e \in done'
                 PROVE  \/ \E c \in Events : cases'[c].status # "MERGED" /\ Bears(cases'[c], e)
                        \/ InHand(t, e)'
    BY DEF EventsHeld
  <2>2. e \in done /\ e \in Events /\ crashes = 0
    BY <1>1, <1>2, <2>1
  <2>3. Bears(SurvivorCard(h.event, found), e) => InHand(t, e)'
    BY <1>2, <1>5 DEF InHand
  <2>4. \/ \E c \in Events : cases[c].status # "MERGED" /\ Bears(cases[c], e)
        \/ Bears(SurvivorCard(h.event, found), e)
    BY <1>3, <2>2 DEF KeepInv, EventsHeld, InHand, h, found
  <2>5. CASE Bears(cases[id], e)
    <3>1. found[n] \in Range(found) /\ Bears(found[n].card, e)
      BY <1>4, <2>5 DEF Range, Bears, SameContents
    <3>2. LET card == SurvivorCard(h.event, found) IN
            /\ card.events = {h.event} \cup UNION {x.card.events : x \in Range(found)}
            /\ card.hits = ({h.event} \cap Hitting) \cup UNION {x.card.hits : x \in Range(found)}
            /\ card.evidence = UNION {x.card.evidence : x \in Range(found)}
      BY <1>5, SurvivorTyped
    <3>3. Bears(SurvivorCard(h.event, found), e)
      BY <3>1, <3>2 DEF Bears
    <3>4. QED
      BY <2>3, <3>3
  <2>6. QED
    BY <1>7, <2>3, <2>4, <2>5
<1>11. crashes' = 0 => \A c \in Events : cases'[c].status = "MERGED" =>
                          Traced(c)' \/ Absorbing(t, c)'
  <2>1. SUFFICES ASSUME crashes' = 0, NEW c \in Events, cases'[c].status = "MERGED"
                 PROVE  Traced(c)' \/ Absorbing(t, c)'
    OBVIOUS
  <2>2. (\E i \in 2 .. n : i \in DOMAIN found /\ found[i].id = c) => Absorbing(t, c)'
    BY <1>2, <1>5 DEF Absorbing
  <2>3. CASE c = id
    BY <1>4, <1>5, <2>2, <2>3
  <2>4. CASE c # id
    <3>1. cases[c].status = "MERGED" /\ crashes = 0
      BY <1>2, <1>7, <2>1, <2>4
    <3>2. Traced(c) \/ \E i \in 2 .. (n - 1) : i \in DOMAIN found /\ found[i].id = c
      BY <1>3, <3>1 DEF KeepInv, Absorbing, n, h, found
    <3>3. QED
      BY <1>5, <1>7, <2>2, <3>1, <3>2
  <2>5. QED
    BY <2>3, <2>4
<1>12. HeldInv(t)'
  <2>1. /\ \A i \in DOMAIN found :
             /\ SameContents(found[i].card, cases[found[i].id]) /\ Stored(found[i].id)
             /\ found[i].card.status \in OpenStatuses
             /\ IF i \in 2 .. (n - 1)
                THEN /\ cases[found[i].id].status = "MERGED"
                     /\ found[1].id \in cases[found[i].id].related
                ELSE /\ cases[found[i].id].status # "MERGED"
                     /\ found[i].card.related = cases[found[i].id].related
        /\ \A i, j \in DOMAIN found : found[i].id = found[j].id => i = j
        /\ \A c \in Events : h.event \notin cases[c].events
    BY <1>2, <1>3 DEF HeldInv, FoundOnce, h, n, found
  <2>2. ASSUME NEW i \in DOMAIN found
        PROVE  /\ SameContents(found[i].card, cases'[found[i].id])
               /\ cases'[found[i].id].status # "none"
               /\ IF i \in 2 .. ((n + 1) - 1)
                  THEN /\ cases'[found[i].id].status = "MERGED"
                       /\ found[1].id \in cases'[found[i].id].related
                  ELSE /\ cases'[found[i].id].status # "MERGED"
                       /\ found[i].card.related = cases'[found[i].id].related
    <3>1. SameContents(found[i].card, cases'[found[i].id])
      BY <1>5, <1>8, <2>1 DEF SameContents
    <3>2. CASE i = n
      BY <1>4, <1>5, <1>7, <3>1, <3>2
    <3>3. CASE i # n
      <4>1. cases'[found[i].id] = cases[found[i].id]
        BY <1>4, <1>5, <1>7, <2>1, <3>3
      <4>2. i \in 2 .. ((n + 1) - 1) <=> i \in 2 .. (n - 1)
        BY <1>5, <3>3
      <4>3. QED
        BY <2>1, <3>1, <4>1, <4>2 DEF Stored
    <3>4. QED
      BY <3>2, <3>3
  <2>3. \A c \in Events : h.event \notin cases'[c].events
    BY <1>8, <2>1 DEF SameContents
  <2>4. n + 1 >= 2
    BY <1>5
  <2>5. QED
    BY <1>2, <2>1, <2>2, <2>3, <2>4 DEF HeldInv, FoundOnce, Stored
<1>13. QED
  BY <1>3, <1>7, <1>9, <1>10, <1>11, <1>12 DEF KeepInv

(* The survivor holds what the thread took over, and names it.                *)
LEMMA KeepSaveCase ==
  ASSUME KeepInv, Alone, TypeOK', NEW t \in Threads, SaveCase(t)
  PROVE  KeepInv'
<1> DEFINE h == hand[t]
           w == Written(h)
           id == w.id
           found == h.found
           n == h.n
<1>1. TypeOK /\ done \subseteq Events /\ h # Idle /\ HandTyped(t)
  BY HeldIsTyped DEF KeepInv, TypeOK, SaveCase, Idle
<1>2. /\ h.pc = "save" /\ n > Len(found)
      /\ \/ /\ hand'[t].pc = "attach" /\ hand'[t].n = n
            /\ hand'[t].found = <<w>> /\ hand'[t].event = h.event /\ UNCHANGED done
         \/ /\ hand'[t] = Idle /\ done' = done \cup {h.event} /\ h.event \notin WithEvidence
      /\ Save(id, w.card) /\ UNCHANGED crashes
  BY <1>1, SaveCaseMoves
<1>3. HeldInv(t) /\ \A u \in Threads : u = t
  BY <1>1 DEF KeepInv, Alone
<1>4. /\ Adds(id, w.card) /\ w.card.status \in OpenStatuses /\ h.event \in w.card.events
      /\ h.event \in Hitting => h.event \in w.card.hits
      /\ found # <<>> => /\ id = found[1].id /\ 1 \in DOMAIN found
                         /\ w.card = SurvivorCard(h.event, found)
  BY <1>1, <1>2, WrittenAdds
<1>5. /\ n \in Nat /\ n >= 2 /\ h.event \in Events /\ found \in Seq(Found)
      /\ DOMAIN found = 1 .. Len(found) /\ Len(found) \in Nat
      /\ \A i \in DOMAIN found : found[i].id \in Events /\ found[i].card \in Card
  BY <1>1, <1>3, BusyTyped DEF HeldInv
<1>6. cases' = [cases EXCEPT ![id] = w.card] /\ id \in Events
  BY <1>2, <1>4 DEF Save, Adds
<1> HIDE DEF h, w, id, found, n
<1>7. /\ cases'[id] = w.card /\ \A c \in Events : c # id => cases'[c] = cases[c]
      /\ \A c \in Events, e \in Events : Bears(cases[c], e) => Bears(cases'[c], e)
      /\ \A c \in Events : IF Stored(c)' THEN c \in cases'[c].events ELSE cases'[c] = NoCard
      /\ \A c \in Events : cases[c].status = "MERGED" => cases'[c] = cases[c]
      /\ \A c \in Events : cases[c].status = "MERGED" /\ Traced(c) => Traced(c)'
  BY <1>4, <1>6, AddsKeep
<1>8. w.card.status # "MERGED" /\ w.card.status # "none"
  BY <1>4 DEF OpenStatuses
<1>9. \A e \in done' : e \in done \/ Bears(w.card, e)
  BY <1>2, <1>4 DEF Bears
<1>10. AnsweredIsKept'
  BY <1>1, <1>6, <1>7, <1>9 DEF KeepInv, AnsweredIsKept
<1>11. EventsHeld'
  <2>1. SUFFICES ASSUME crashes' = 0, NEW e \in done'
                 PROVE  \E c \in Events : cases'[c].status # "MERGED" /\ Bears(cases'[c], e)
    BY DEF EventsHeld
  <2>2. CASE Bears(w.card, e)
    BY <1>6, <1>7, <1>8, <2>2
  <2>3. CASE e \in done
    <3>1. \/ \E c \in Events : cases[c].status # "MERGED" /\ Bears(cases[c], e)
          \/ found # <<>> /\ Bears(SurvivorCard(h.event, found), e)
      BY <1>2, <1>3, <2>1, <2>3 DEF KeepInv, EventsHeld, InHand, h, found
    <3>2. CASE found # <<>> /\ Bears(SurvivorCard(h.event, found), e)
      BY <1>4, <2>2, <3>2
    <3>3. ASSUME NEW c \in Events, cases[c].status # "MERGED", Bears(cases[c], e)
          PROVE  cases'[c].status # "MERGED" /\ Bears(cases'[c], e)
      BY <1>1, <1>7, <1>8, <2>3, <3>3
    <3>4. QED
      BY <3>1, <3>2, <3>3
  <2>4. QED
    BY <1>9, <2>2, <2>3
<1>12. crashes' = 0 => \A c \in Events : cases'[c].status = "MERGED" => Traced(c)'
  <2>1. SUFFICES ASSUME crashes' = 0, NEW c \in Events, cases'[c].status = "MERGED"
                 PROVE  Traced(c)'
    OBVIOUS
  <2>2. c # id /\ cases'[c] = cases[c] /\ cases[c].status = "MERGED" /\ crashes = 0
    BY <1>2, <1>7, <1>8, <2>1
  <2>3. Traced(c) \/ \E i \in 2 .. (n - 1) : i \in DOMAIN found /\ found[i].id = c
    BY <1>3, <2>2 DEF KeepInv, Absorbing, n, h, found
  <2>4. ASSUME NEW i \in 2 .. (n - 1), i \in DOMAIN found, found[i].id = c
        PROVE  Traced(c)'
    <3>1. /\ found[1].id \in cases[c].related /\ SameContents(found[i].card, cases[c])
      BY <1>2, <1>3, <2>4 DEF HeldInv, h, n, found
    <3>2. /\ found # <<>> /\ found[i] \in Range(found) /\ i \in 2 .. Len(found)
      BY <1>5, <2>4 DEF Range
    <3>3. LET card == SurvivorCard(h.event, found) IN
            /\ card.events = {h.event} \cup UNION {x.card.events : x \in Range(found)}
            /\ card.related = found[1].card.related \cup {found[j].id : j \in 2 .. Len(found)}
      BY <1>5, <3>2, SurvivorTyped
    <3>4. w.card = SurvivorCard(h.event, found) /\ id = found[1].id
      BY <1>4, <3>2
    <3>5. found[i].card.events \subseteq w.card.events /\ c \in w.card.related
      BY <2>4, <3>2, <3>3, <3>4
    <3>6. cases[c].events \subseteq cases'[id].events /\ c \in cases'[id].related
      BY <1>7, <3>1, <3>5 DEF SameContents
    <3>7. QED
      BY <2>2, <3>1, <3>4, <3>6 DEF Traced
  <2>5. QED
    BY <1>7, <2>2, <2>3, <2>4
<1>13. hand'[t] # Idle => HeldInv(t)'
  <2>1. SUFFICES ASSUME hand'[t].pc = "attach", hand'[t].n = n, hand'[t].found = <<w>>,
                        hand'[t].event = h.event
                 PROVE  HeldInv(t)'
    BY <1>2
  <2> DEFINE saved == <<w>>
  <2>2. Len(saved) = 1 /\ DOMAIN saved = {1} /\ saved[1] = w
    OBVIOUS
  <2>3. hand'[t].found = saved
    BY <2>1
  <2> HIDE DEF saved
  <2>4. FoundOnce(t)'
    BY <2>2, <2>3 DEF FoundOnce
  <2>5. SameContents(w.card, cases'[w.id]) /\ w.card.related = cases'[w.id].related
        /\ cases'[w.id].status \notin {"none", "MERGED"}
    BY <1>7, <1>8 DEF SameContents, id
  <2>6. QED
    BY <1>4, <1>5, <2>1, <2>2, <2>3, <2>4, <2>5 DEF HeldInv, Stored
<1>14. QED
  BY <1>3, <1>7, <1>10, <1>11, <1>12, <1>13 DEF KeepInv

LEMMA KeepAttach ==
  ASSUME KeepInv, Alone, TypeOK', NEW t \in Threads, AttachRawEvidence(t)
  PROVE  KeepInv'
<1> DEFINE h == hand[t]
           m == h.found[1]
           id == m.id
           card == Attached(h)
<1>1. /\ h # Idle /\ h.pc = "attach" /\ Save(id, card) /\ hand' = [hand EXCEPT ![t] = Idle]
      /\ done' = done \cup {h.event} /\ UNCHANGED crashes
  BY DEF AttachRawEvidence, Idle
<1>2. TypeOK /\ HeldInv(t) /\ h.found # <<>> /\ done \subseteq Events /\ \A u \in Threads : u = t
  BY <1>1, HeldIsTyped DEF TypeOK, Alone
<1>3. 1 \in DOMAIN h.found /\ id \in Events /\ h.event \in Events /\ hand'[t] = Idle
  BY <1>1, <1>2, BusyTyped DEF TypeOK
<1>4. /\ card \in Card /\ card.status = m.card.status /\ card.events = m.card.events
      /\ card.hits = m.card.hits /\ card.evidence = m.card.evidence \cup {h.event}
      /\ card.related = m.card.related
  BY <1>1, <1>2, AttachedTyped
<1>5. /\ SameContents(m.card, cases[id]) /\ Stored(id) /\ m.card.status \in OpenStatuses
      /\ cases[id].status # "MERGED" /\ m.card.related = cases[id].related
      /\ h.event \in m.card.events /\ (h.event \in Hitting => h.event \in m.card.hits)
  BY <1>1, <1>2, <1>3 DEF HeldInv
<1>6. cases' = [cases EXCEPT ![id] = card] /\ id \in cases[id].events
  BY <1>1, <1>3, <1>5 DEF Save, KeepInv
<1>7. \A e \in Events : ~InHand(t, e) /\ ~Absorbing(t, e)
  BY <1>1 DEF InHand, Absorbing
<1> HIDE DEF h, m, id, card
<1>8. Adds(id, card) /\ card.status # "MERGED" /\ Bears(card, h.event)
  BY <1>3, <1>4, <1>5, <1>6 DEF Adds, SameContents, OpenStatuses, Bears
<1>9. /\ cases'[id] = card /\ \A c \in Events : c # id => cases'[c] = cases[c]
      /\ \A c \in Events, e \in Events : Bears(cases[c], e) => Bears(cases'[c], e)
      /\ \A c \in Events : IF Stored(c)' THEN c \in cases'[c].events ELSE cases'[c] = NoCard
      /\ \A c \in Events : cases[c].status = "MERGED" => cases'[c] = cases[c]
      /\ \A c \in Events : cases[c].status = "MERGED" /\ Traced(c) => Traced(c)'
  BY <1>6, <1>8, AddsKeep
<1>10. \A c \in Events : cases[c].status # "MERGED" => cases'[c].status # "MERGED"
  BY <1>8, <1>9
<1>11. AnsweredIsKept'
  BY <1>1, <1>2, <1>3, <1>8, <1>9 DEF KeepInv, AnsweredIsKept
<1>12. EventsHeld'
  BY <1>1, <1>2, <1>3, <1>7, <1>8, <1>9, <1>10 DEF KeepInv, EventsHeld
<1>13. crashes' = 0 => \A c \in Events : cases'[c].status = "MERGED" => Traced(c)'
  BY <1>1, <1>2, <1>7, <1>8, <1>9 DEF KeepInv
<1>14. QED
  BY <1>2, <1>3, <1>9, <1>11, <1>12, <1>13 DEF KeepInv

(* A decision leaves the contents of the case alone.                         *)
LEMMA KeepDecide ==
  ASSUME KeepInv, TypeOK', NEW d \in Events, Decide(d)
  PROVE  KeepInv'
<1>1. TypeOK /\ done \subseteq Events
  BY DEF KeepInv, TypeOK
<1>2. PICK card \in Card :
        /\ Save(d, card) /\ Stored(d)
        /\ card.status \in Targets /\ cases[d].status \notin {"none", "MERGED"}
        /\ card.events = cases[d].events /\ card.hits = cases[d].hits
        /\ card.evidence = cases[d].evidence /\ card.related = cases[d].related
        /\ UNCHANGED <<hand, done, crashes>>
  BY <1>1, DecideWrites
<1>3. cases' = [cases EXCEPT ![d] = card] /\ card.status \notin {"none", "MERGED"}
  BY <1>2, EventProcessingAssumption DEF Save
<1>4. Adds(d, card)
  BY <1>2, <1>3 DEF Adds, KeepInv
<1>5. /\ cases'[d] = card /\ \A c \in Events : c # d => cases'[c] = cases[c]
      /\ \A c \in Events, e \in Events : Bears(cases[c], e) => Bears(cases'[c], e)
      /\ \A c \in Events : IF Stored(c)' THEN c \in cases'[c].events ELSE cases'[c] = NoCard
      /\ \A c \in Events : cases[c].status = "MERGED" => cases'[c] = cases[c]
      /\ \A c \in Events : cases[c].status = "MERGED" /\ Traced(c) => Traced(c)'
  BY <1>3, <1>4, AddsKeep
<1>6. AnsweredIsKept'
  BY <1>1, <1>2, <1>5 DEF KeepInv, AnsweredIsKept
<1>7. EventsHeld'
  <2>1. SUFFICES ASSUME crashes = 0, NEW e \in done
                 PROVE  \/ \E c \in Events : cases'[c].status # "MERGED" /\ Bears(cases'[c], e)
                        \/ \E t \in Threads : InHand(t, e)'
    BY <1>2 DEF EventsHeld
  <2>2. \A t \in Threads : InHand(t, e)' <=> InHand(t, e)
    BY <1>2 DEF InHand
  <2>3. \A c \in Events : cases[c].status # "MERGED" => cases'[c].status # "MERGED"
    BY <1>3, <1>5
  <2>4. QED
    BY <1>1, <1>5, <2>1, <2>2, <2>3 DEF KeepInv, EventsHeld
<1>8. crashes' = 0 => \A c \in Events : cases'[c].status = "MERGED" =>
                         Traced(c)' \/ \E t \in Threads : Absorbing(t, c)'
  <2>1. \A t \in Threads, c \in Events : Absorbing(t, c)' <=> Absorbing(t, c)
    BY <1>2 DEF Absorbing
  <2>2. \A c \in Events : cases'[c].status = "MERGED" => cases[c].status = "MERGED"
    BY <1>3, <1>5
  <2>3. QED
    BY <1>2, <1>5, <2>1, <2>2 DEF KeepInv
<1>9. ASSUME NEW t \in Threads, hand'[t] # Idle PROVE HeldInv(t)'
  <2> DEFINE h == hand[t]
             found == h.found
  <2>1. h # Idle /\ hand'[t] = h /\ HeldInv(t)
    BY <1>2, <1>9 DEF KeepInv
  <2>2. /\ \A i \in DOMAIN found :
             /\ SameContents(found[i].card, cases[found[i].id]) /\ Stored(found[i].id)
             /\ found[i].card.status \in OpenStatuses /\ found[i].id \in Events
             /\ IF h.pc = "save" /\ i \in 2 .. (h.n - 1)
                THEN /\ cases[found[i].id].status = "MERGED"
                     /\ found[1].id \in cases[found[i].id].related
                ELSE /\ cases[found[i].id].status # "MERGED"
                     /\ found[i].card.related = cases[found[i].id].related
        /\ \A c \in Events : h.pc # "attach" => h.event \notin cases[c].events
    BY <1>1, <2>1, BusyTyped DEF HeldInv
  <2> HIDE DEF h, found
  <2>3. /\ \A i \in DOMAIN found :
             /\ SameContents(found[i].card, cases'[found[i].id])
             /\ cases'[found[i].id].status # "none"
             /\ IF h.pc = "save" /\ i \in 2 .. (h.n - 1)
                THEN /\ cases'[found[i].id].status = "MERGED"
                     /\ found[1].id \in cases'[found[i].id].related
                ELSE /\ cases'[found[i].id].status # "MERGED"
                     /\ found[i].card.related = cases'[found[i].id].related
        /\ \A c \in Events : h.pc # "attach" => h.event \notin cases'[c].events
    BY <1>2, <1>3, <1>5, <2>2 DEF SameContents, Stored
  <2>4. QED
    BY <2>1, <2>2, <2>3 DEF HeldInv, FoundOnce, Stored, h, found
<1>10. QED
  BY <1>5, <1>6, <1>7, <1>8, <1>9 DEF KeepInv

(* What was saved before a death stays; nothing is claimed of what was not.   *)
LEMMA KeepDied ==
  ASSUME KeepInv, TypeOK', Died \/ \E t \in Threads : DiedInSave(t)
  PROVE  KeepInv'
<1>1. /\ crashes \in Nat /\ crashes' = crashes + 1 /\ UNCHANGED done /\ done \subseteq Events
      /\ \A u \in Threads : hand'[u] = Idle
  BY EventProcessingAssumption DEF KeepInv, TypeOK, Died, DiedInSave
<1>2. crashes' # 0
  BY <1>1
<1> DEFINE Kept ==
             /\ \A c \in Events, e \in Events : Bears(cases[c], e) => Bears(cases'[c], e)
             /\ \A c \in Events : IF cases'[c].status # "none"
                                 THEN c \in cases'[c].events ELSE cases'[c] = NoCard
<1>3. Kept
  <2>1. CASE Died
    BY <2>1 DEF Died, KeepInv, Stored
  <2>2. ASSUME NEW t \in Threads, DiedInSave(t)
        PROVE  Kept
    <3> DEFINE w == Written(hand[t])
    <3>1. hand[t] # Idle /\ hand[t].pc = "save" /\ cases' = [cases EXCEPT ![w.id] = w.card]
      BY <2>2 DEF DiedInSave, Idle
    <3>2. Adds(w.id, w.card)
      BY <3>1, WrittenAdds
    <3> HIDE DEF w
    <3>3. QED
      BY <3>1, <3>2, AddsKeep DEF Stored
  <2>3. QED
    BY <2>1, <2>2
<1>4. AnsweredIsKept' /\ EventsHeld'
  BY <1>1, <1>2, <1>3 DEF KeepInv, AnsweredIsKept, EventsHeld
<1>5. QED
  BY <1>1, <1>2, <1>3, <1>4 DEF KeepInv, Stored

LEMMA KeepStep == KeepInv /\ Alone /\ TypeOK' /\ [Next]_vars => KeepInv'
<1>1. SUFFICES ASSUME KeepInv, Alone, TypeOK', [Next]_vars PROVE KeepInv'
  OBVIOUS
<1>2. CASE UNCHANGED vars
  <2>1. UNCHANGED <<cases, hand, done, crashes>>
    BY <1>2 DEF vars
  <2>2. AnsweredIsKept' /\ EventsHeld'
    BY <1>1, <2>1 DEF KeepInv, AnsweredIsKept, EventsHeld, InHand
  <2>3. \A c \in Events : IF Stored(c)' THEN c \in cases'[c].events ELSE cases'[c] = NoCard
    BY <1>1, <2>1 DEF KeepInv, Stored
  <2>4. crashes' = 0 => \A c \in Events : cases'[c].status = "MERGED" =>
                           Traced(c)' \/ \E t \in Threads : Absorbing(t, c)'
    <3>1. \A c \in Events : Traced(c) => Traced(c)'
      BY <2>1 DEF Traced
    <3>2. \A t \in Threads, c \in Events : Absorbing(t, c) => Absorbing(t, c)'
      BY <2>1 DEF Absorbing
    <3>3. crashes' = crashes /\ \A c \in Events : cases'[c] = cases[c]
      BY <2>1
    <3>4. QED
      BY <1>1, <3>1, <3>2, <3>3 DEF KeepInv
  <2>5. \A t \in Threads : hand'[t] # Idle => HeldInv(t)'
    BY <1>1, <2>1 DEF KeepInv, HeldInv, FoundOnce, Stored
  <2>6. QED
    BY <1>1, <2>2, <2>3, <2>4, <2>5 DEF KeepInv
<1>3. ASSUME NEW t \in Threads, Process(t) PROVE KeepInv'
  BY <1>1, <1>3, KeepReceive, KeepLookUp, KeepSaveAbsorbed, KeepSaveCase, KeepAttach DEF Process
<1>4. ASSUME NEW t \in Threads, DiedInSave(t) PROVE KeepInv'
  BY <1>1, <1>4, KeepDied
<1>5. ASSUME NEW c \in Events, Decide(c) PROVE KeepInv'
  BY <1>1, <1>5, KeepDecide
<1>6. CASE Died
  BY <1>1, <1>6, KeepDied
<1>7. QED
  BY <1>1, <1>2, <1>3, <1>4, <1>5, <1>6 DEF Next

LEMMA KeepInit == Init => KeepInv
<1>1. SUFFICES ASSUME Init PROVE KeepInv
  OBVIOUS
<1>2. TypeOK
  BY <1>1, Initially DEF SerialInv
<1>3. /\ \A t \in Threads : hand[t] = Idle
      /\ done = {} /\ \A c \in Events : cases[c] = NoCard
  BY <1>1 DEF Init
<1>4. \A c \in Events : cases[c].status = "none"
  BY <1>3 DEF NoCard
<1>5. QED
  BY <1>2, <1>3, <1>4 DEF KeepInv, AnsweredIsKept, EventsHeld, Stored

(* KeepInv is inductive when one thread ingests.                             *)
THEOREM KeepInductive == Alone /\ Spec => []KeepInv
<1>1. Alone => []Alone
  <2>1. Alone => Alone'
    BY DEF Alone
  <2>2. QED
    BY <2>1, PTL
<1>2. QED
  BY <1>1, KeepInit, KeepStep, EventsTyped, PTL DEF Spec

(* With one thread that ingests, whatever dies when and whatever the analysts *)
(* decide: event, hit and evidence of an answered request are in the store.  *)
THEOREM AnswersAreKept == Alone /\ Spec => []AnsweredIsKept
<1>1. KeepInv => AnsweredIsKept
  BY DEF KeepInv
<1>2. QED
  BY <1>1, KeepInductive, PTL

(* With one thread that ingests, until the API dies: a case that was not      *)
(* absorbed bears them, or the card that the thread saves next.              *)
THEOREM EventsAreHeld == Alone /\ Spec => []EventsHeld
<1>1. KeepInv => EventsHeld
  BY DEF KeepInv
<1>2. QED
  BY <1>1, KeepInductive, PTL

(* With one thread that ingests, until the API dies: when it rests, every     *)
(* absorbed case names one that holds all it held and names it back.         *)
THEOREM MergesAreTraced == Alone /\ Spec => []MergedIsTraceable
<1>1. KeepInv => MergedIsTraceable
  BY DEF KeepInv, MergedIsTraceable, Absorbing
<1>2. QED
  BY <1>1, KeepInductive, PTL

-----------------------------------------------------------------------------
(***************************************************************************)
(* The keys that the rules of the configuration give to an event             *)
(* (CorrelationKeys), and what they mean for the cases of a host.           *)
(***************************************************************************)
(* ---- what joining a list of lists keeps ---------------------------------- *)
LEMMA FlattenLinks ==
  ASSUME NEW seqs, NEW n \in Nat, n # 0, Len(seqs) = n
  PROVE  \E g : /\ FlattenSeq(seqs) = g[n] /\ DOMAIN g = 1..n
                /\ \A i \in 1..n : g[i] = IF i = 1 THEN seqs[i] ELSE g[i - 1] \o seqs[i]
  <1> DEFINE Join(g, i) == IF i = 1 THEN seqs[i] ELSE g[i - 1] \o seqs[i]
             G == {m \in Nat : \E g : g = [i \in 1..m |-> Join(g, i)]}
             flatten == CHOOSE g : g = [i \in 1..n |-> Join(g, i)]
  <1>1. 0 \in G
    <2>1. [i \in 1..0 |-> <<>>] = [i \in 1..0 |-> Join([k \in 1..0 |-> <<>>], i)] OBVIOUS
    <2> QED BY <2>1
  <1>2. ASSUME NEW m \in Nat, m \in G PROVE m + 1 \in G
    <2>1. PICK g : g = [i \in 1..m |-> Join(g, i)] BY <1>2
    <2> DEFINE h == [i \in 1..(m + 1) |-> IF i = m + 1 THEN Join(g, i) ELSE g[i]]
    <2>2. ASSUME NEW i \in 1..(m + 1) PROVE h[i] = Join(h, i)
      <3>1. Join(h, i) = Join(g, i)
        <4>1. CASE i = 1 BY <4>1
        <4>2. CASE i # 1
          <5>1. i - 1 \in 1..(m + 1) /\ i - 1 # m + 1 BY <4>2
          <5>2. h[i - 1] = g[i - 1] BY <5>1
          <5> HIDE DEF h
          <5> QED BY <5>2, <4>2
        <4> QED BY <4>1, <4>2
      <3>2. h[i] = Join(g, i)
        <4>1. CASE i = m + 1 BY <4>1
        <4>2. CASE i # m + 1
          <5>1. i \in 1..m /\ h[i] = g[i] BY <4>2
          <5>2. g[i] = [j \in 1..m |-> Join(g, j)][i] BY <2>1
          <5> QED BY <5>1, <5>2
        <4> QED BY <4>1, <4>2
      <3> QED BY <3>1, <3>2
    <2>3. h = [i \in 1..(m + 1) |-> Join(h, i)]
      <3> HIDE DEF Join
      <3> QED BY <2>2
    <2> HIDE DEF h, Join
    <2>4. \E d : d = [i \in 1..(m + 1) |-> Join(d, i)] BY <2>3
    <2> QED BY <2>4
  <1>3. n \in G
    <2> HIDE DEF G
    <2> QED BY <1>1, <1>2, Induction
  <1>4. flatten = [i \in 1..n |-> Join(flatten, i)]
    <2> HIDE DEF Join
    <2> QED BY <1>3
  <1>5. FlattenSeq(seqs) = flatten[n] BY DEF FlattenSeq
  <1> HIDE DEF flatten
  <1>6. ASSUME NEW i \in 1..n PROVE flatten[i] = Join(flatten, i)
    <2> DEFINE f == [j \in 1..n |-> Join(flatten, j)]
    <2>1. f[i] = Join(flatten, i) /\ DOMAIN f = 1..n OBVIOUS
    <2> HIDE DEF f
    <2>2. flatten = f BY <1>4 DEF f
    <2> QED BY <2>1, <2>2
  <1>7. DOMAIN flatten = 1..n
    <2> HIDE DEF Join
    <2> QED BY <1>4
  <1> QED BY <1>5, <1>6, <1>7

LEMMA JoinedRange ==
  ASSUME NEW T, NEW s \in Seq(T), NEW t \in Seq(T)
  PROVE  s \o t \in Seq(T) /\ Range(s \o t) = Range(s) \cup Range(t)
  <1>1. s \o t \in Seq(T) /\ Len(s \o t) = Len(s) + Len(t) OBVIOUS
  <1>2. \A i \in 1..Len(s) : (s \o t)[i] = s[i] OBVIOUS
  <1>3. \A i \in 1..Len(t) : (s \o t)[Len(s) + i] = t[i] OBVIOUS
  <1>4. DOMAIN s = 1..Len(s) /\ DOMAIN t = 1..Len(t) /\ DOMAIN (s \o t) = 1..(Len(s) + Len(t)) BY <1>1
  <1>5. ASSUME NEW i \in DOMAIN s PROVE s[i] \in Range(s \o t)
    <2>1. i \in DOMAIN (s \o t) BY <1>4
    <2> QED BY <2>1, <1>2, <1>4 DEF Range
  <1>6. ASSUME NEW i \in DOMAIN t PROVE t[i] \in Range(s \o t)
    <2>1. Len(s) + i \in DOMAIN (s \o t) BY <1>4
    <2> QED BY <2>1, <1>3, <1>4 DEF Range
  <1>7. ASSUME NEW k \in DOMAIN (s \o t) PROVE (s \o t)[k] \in Range(s) \cup Range(t)
    <2>1. CASE k <= Len(s) BY <2>1, <1>2, <1>4 DEF Range
    <2>2. CASE ~(k <= Len(s))
      <3>1. k - Len(s) \in 1..Len(t) /\ k = Len(s) + (k - Len(s)) BY <2>2, <1>4
      <3>2. (s \o t)[k] = t[k - Len(s)] BY <3>1, <1>3
      <3> QED BY <3>1, <3>2, <1>4 DEF Range
    <2> QED BY <2>1, <2>2
  <1> QED BY <1>1, <1>5, <1>6, <1>7 DEF Range

LEMMA FlattenHolds ==
  ASSUME NEW seqs, NEW n \in Nat, Len(seqs) = n, NEW T, \A i \in 1..n : seqs[i] \in Seq(T), NEW k \in 1..n
  PROVE  Range(seqs[k]) \subseteq Range(FlattenSeq(seqs))
  <1>1. n # 0 OBVIOUS
  <1>2. PICK g : /\ FlattenSeq(seqs) = g[n] /\ DOMAIN g = 1..n
                 /\ \A i \in 1..n : g[i] = IF i = 1 THEN seqs[i] ELSE g[i - 1] \o seqs[i]
    BY <1>1, FlattenLinks
  <1> DEFINE Holds(i) == g[i] \in Seq(T) /\ \A j \in 1..i : Range(seqs[j]) \subseteq Range(g[i])
             H == {i \in Nat : i \in 1..n => Holds(i)}
  <1>3. 0 \in H OBVIOUS
  <1>4. ASSUME NEW i \in Nat, i \in H PROVE i + 1 \in H
    <2> SUFFICES ASSUME i + 1 \in 1..n PROVE Holds(i + 1) OBVIOUS
    <2>1. CASE i = 0
      <3>1. g[1] = seqs[1] BY <1>2
      <3>2. \A j \in 1..(i + 1) : j = 1 BY <2>1
      <3> QED BY <3>1, <3>2, <2>1
    <2>2. CASE i # 0
      <3>1. i \in 1..n /\ Holds(i) BY <2>2, <1>4
      <3>2. g[i + 1] = g[i] \o seqs[i + 1]
        <4>1. (i + 1) - 1 = i /\ i + 1 # 1 BY <2>2
        <4> QED BY <4>1, <1>2
      <3>3. g[i + 1] \in Seq(T) /\ Range(g[i + 1]) = Range(g[i]) \cup Range(seqs[i + 1])
        BY <3>1, <3>2, JoinedRange
      <3>4. ASSUME NEW j \in 1..(i + 1) PROVE j \in 1..i \/ j = i + 1 OBVIOUS
      <3> QED BY <3>1, <3>3, <3>4
    <2> QED BY <2>1, <2>2
  <1>5. Holds(n)
    <2> HIDE DEF Holds
    <2>1. Nat \subseteq H
      <3> HIDE DEF H
      <3> QED BY <1>3, <1>4, Induction
    <2> QED BY <2>1, <1>1
  <1> QED BY <1>2, <1>5

(* ---- every usable row of the configuration is in force ------------------- *)
LEMMA UsableRowsCount ==
  ASSUME NEW N \in Nat, DOMAIN ConfigRules = 1..N, \A i \in 1..N : ConfigRules[i].priority \in Int,
         NEW i \in 1..N, UsableRule(ConfigRules[i])
  PROVE  /\ Len(RulesFromConfig) \in Nat
         /\ \E k \in 1..Len(RulesFromConfig) : RulesFromConfig[k] = ConfigRules[i]
  <1> DEFINE usable == {j \in DOMAIN ConfigRules : UsableRule(ConfigRules[j])}
             Before(j, k) == \/ ConfigRules[j].priority < ConfigRules[k].priority
                             \/ ConfigRules[j].priority = ConfigRules[k].priority /\ j < k
             R == {p \in usable \X usable : Before(p[1], p[2])}
             place == PlaceOf(R, usable)
             n == Cardinality(usable)
  <1>1. IsFiniteSet(usable) /\ usable \subseteq 1..N
    <2>1. 1 \in Int /\ N \in Int /\ usable \subseteq 1..N OBVIOUS
    <2>2. IsFiniteSet(1..N) BY <2>1, FS_Interval
    <2> HIDE DEF usable
    <2> QED BY <2>1, <2>2, FS_Subset
  <1>2. \A j, k \in usable : <<j, k>> \in R <=> Before(j, k) OBVIOUS
  <1>3. StrictlyOrders(R, usable)
    <2>1. \A j \in usable : j \in Int /\ ConfigRules[j].priority \in Int BY <1>1
    <2> HIDE DEF R, usable
    <2>2. \A j \in usable : ~Before(j, j) BY <2>1
    <2>3. \A j, k \in usable : j # k => Before(j, k) \/ Before(k, j) BY <2>1
    <2>4. \A j, k, l \in usable : Before(j, k) /\ Before(k, l) => Before(j, l) BY <2>1
    <2> HIDE DEF Before
    <2> QED BY <1>2, <2>2, <2>3, <2>4 DEF StrictlyOrders
  <1>4. /\ place \in [usable -> 0..(n - 1)]
        /\ \A j, k \in usable : place[j] = place[k] => j = k
    <2> HIDE DEF R, usable
    <2> QED BY <1>1, <1>3, PlacesAreTaken
  <1>5. \A j \in usable : place[j] = Cardinality({k \in usable : Before(k, j)})
    <2>1. ASSUME NEW j \in usable PROVE Ahead(R, usable, j) = {k \in usable : Before(k, j)}
      BY <1>2 DEF Ahead
    <2>2. \A j \in usable : place[j] = Cardinality(Ahead(R, usable, j)) BY DEF PlaceOf
    <2> HIDE DEF usable, R, Before
    <2> QED BY <2>1, <2>2
  <1>6. n \in Nat
    <2> HIDE DEF usable
    <2> QED BY <1>1, FS_CardinalityType
  <1>7. i \in usable OBVIOUS
  <1> DEFINE At(k) == CHOOSE j \in usable : Cardinality({l \in usable : Before(l, j)}) = k - 1
  <1>8. RulesFromConfig = [k \in 1..n |-> ConfigRules[At(k)]] BY DEF RulesFromConfig
  <1> HIDE DEF usable, R, Before, n, place
  <1>9. place[i] + 1 \in 1..n /\ (place[i] + 1) - 1 = place[i] BY <1>4, <1>6, <1>7
  <1>10. At(place[i] + 1) = i
    <2>1. Cardinality({l \in usable : Before(l, i)}) = (place[i] + 1) - 1 BY <1>5, <1>7, <1>9
    <2>2. \A j \in usable : Cardinality({l \in usable : Before(l, j)}) = (place[i] + 1) - 1 => j = i
      BY <1>4, <1>5, <1>7, <1>9
    <2> QED BY <2>1, <2>2, <1>7
  <1> HIDE DEF At
  <1>11. Len(RulesFromConfig) = n BY <1>6, <1>8
  <1> QED BY <1>6, <1>8, <1>9, <1>10, <1>11

(* ---- the keys of neighbours ---------------------------------------------- *)
LEMMA RuleKeysListed ==
  ASSUME NEW rule, NEW event
  PROVE  RuleKeys(rule, event) \in Seq(Range(RuleKeys(rule, event)))
  <1>1. ASSUME NEW a PROVE <<a>> \in Seq(Range(<<a>>)) BY DEF Range
  <1>2. ASSUME NEW a, NEW b PROVE <<a, b>> \in Seq(Range(<<a, b>>))
    <2>1. Range(<<a, b>>) = {a, b} BY DEF Range
    <2> QED BY <2>1
  <1>3. <<>> \in Seq(Range(<<>>)) OBVIOUS
  <1>4. \/ RuleKeys(rule, event) = <<>>
        \/ \E a : RuleKeys(rule, event) = <<a>>
        \/ \E a, b : RuleKeys(rule, event) = <<a, b>>
    BY Zenon DEF RuleKeys
  <1> QED BY <1>1, <1>2, <1>3, <1>4

(* Every key that a rule in force gives is a key of the event.               *)
LEMMA KeysOfRules ==
  ASSUME Generalized, Len(RulesFromConfig) \in Nat, NEW k \in 1..Len(RulesFromConfig), NEW event
  PROVE  Range(RuleKeys(RulesFromConfig[k], event)) \subseteq Range(Fingerprints(event))
  <1> DEFINE n == Len(RulesFromConfig)
             seqs == [i \in 1..n |-> RuleKeys(RulesFromConfig[i], event)]
             T == UNION {Range(seqs[i]) : i \in 1..n}
  <1>1. Len(seqs) = n /\ n \in Nat OBVIOUS
  <1>2. ASSUME NEW i \in 1..n PROVE seqs[i] \in Seq(T)
    <2>1. seqs[i] = RuleKeys(RulesFromConfig[i], event) OBVIOUS
    <2>2. seqs[i] \in Seq(Range(seqs[i])) BY <2>1, RuleKeysListed
    <2>3. Range(seqs[i]) \subseteq T OBVIOUS
    <2> HIDE DEF seqs, T
    <2> QED BY <2>2, <2>3
  <1>3. Fingerprints(event) = FlattenSeq(seqs) BY DEF Fingerprints
  <1>4. seqs[k] = RuleKeys(RulesFromConfig[k], event) OBVIOUS
  <1> HIDE DEF seqs, T, n
  <1>5. Range(seqs[k]) \subseteq Range(FlattenSeq(seqs))
    <2>1. k \in 1..n BY DEF n
    <2> QED BY <2>1, <1>1, <1>2, FlattenHolds
  <1> QED BY <1>3, <1>4, <1>5

(* Quotients of numbers that are at most one divisor apart.                  *)
LEMMA NextBucket ==
  ASSUME NEW b \in Nat, b > 0, NEW x \in Int, NEW y \in Int, x <= y, y <= x + b
  PROVE  x \div b \in Int /\ (y \div b = x \div b \/ y \div b = (x \div b) + 1)
  OBVIOUS

(* Two events that a sliding rule applies to, that agree in its fields and   *)
(* are at most one bucket apart, share a key.                                *)
LEMMA NeighboursShareKey ==
  ASSUME NEW rule, rule.bucket \in Nat, rule.bucket > 0, rule.window = "sliding",
         NEW e, NEW f, e.at \in Int, f.at \in Int,
         AppliesTo(rule, e), AppliesTo(rule, f),
         \A x \in rule.fields : e.entity[x] = f.entity[x],
         e.at <= f.at, f.at <= e.at + rule.bucket
  PROVE  Range(RuleKeys(rule, e)) \cap Range(RuleKeys(rule, f)) # {}
  <1> DEFINE now(ev) == Bucket(rule, ev)
             K(ev, m) == CorrelationKey(rule, ev, <<m>>)
  <1>1. now(e) \in Int /\ (now(f) = now(e) \/ now(f) = now(e) + 1) BY NextBucket DEF Bucket
  <1>2. /\ RuleKeys(rule, e) = <<K(e, now(e)), K(e, now(e) - 1)>>
        /\ RuleKeys(rule, f) = <<K(f, now(f)), K(f, now(f) - 1)>>
    BY DEF RuleKeys
  <1>3. \A m : K(e, m) = K(f, m)
    <2>1. [x \in rule.fields |-> e.entity[x]] = [x \in rule.fields |-> f.entity[x]] OBVIOUS
    <2> QED BY <2>1 DEF CorrelationKey
  <1> HIDE DEF now, K
  <1>4. ASSUME NEW a, NEW b PROVE a \in Range(<<a, b>>) /\ b \in Range(<<a, b>>) BY DEF Range
  <1>5. CASE now(f) = now(e)
    <2>1. K(e, now(e)) = K(f, now(f)) BY <1>3, <1>5
    <2> QED BY <2>1, <1>2, <1>4
  <1>6. CASE now(f) = now(e) + 1
    <2>1. now(f) - 1 = now(e) BY <1>1, <1>6
    <2>2. K(e, now(e)) = K(f, now(f) - 1) BY <1>3, <2>1
    <2> QED BY <2>2, <1>2, <1>4
  <1> QED BY <1>1, <1>5, <1>6

(* Events of one host within ten minutes share a key.                        *)
LEMMA HostWindowJoins ==
  ASSUME NEW e, NEW f, e.at \in Int, f.at \in Int, Neighbours(e, f)
  PROVE  Range(Fingerprints(e)) \cap Range(Fingerprints(f)) # {}
<1>1. /\ HostWindow.bucket = 600 /\ HostWindow.fields = {"host_id"} /\ HostWindow.window = "sliding"
      /\ HostWindow.sources = {"edr", "siem"}
  BY DEF HostWindow
<1>2. UsableRule(HostWindow)
  BY <1>1, HostWindowAssumption DEF UsableRule
<1>3. PICK i \in 1..Len(ConfigRules) : ConfigRules[i] = HostWindow
  BY HostWindowAssumption DEF Range
<1>4. PICK k \in 1..Len(RulesFromConfig) : RulesFromConfig[k] = HostWindow /\ Len(RulesFromConfig) \in Nat
  BY <1>2, <1>3, HostWindowAssumption, UsableRowsCount
<1>5. Range(RuleKeys(HostWindow, e)) \cap Range(RuleKeys(HostWindow, f)) # {}
  <2>1. AppliesTo(HostWindow, e) /\ AppliesTo(HostWindow, f)
    BY <1>1 DEF AppliesTo, Neighbours
  <2>2. \A x \in HostWindow.fields : e.entity[x] = f.entity[x]
    BY <1>1 DEF Neighbours
  <2>3. e.at <= f.at /\ f.at <= e.at + HostWindow.bucket
    BY DEF Neighbours
  <2>4. HostWindow.bucket \in Nat /\ HostWindow.bucket > 0 /\ HostWindow.window = "sliding"
    BY <1>1
  <2> QED BY <2>1, <2>2, <2>3, <2>4, NeighboursShareKey
<1>6. /\ Range(RuleKeys(HostWindow, e)) \subseteq Range(Fingerprints(e))
      /\ Range(RuleKeys(HostWindow, f)) \subseteq Range(Fingerprints(f))
  BY <1>4, HostWindowAssumption, KeysOfRules
<1> QED BY <1>5, <1>6

(* With one thread that ingests, and no decision that is taken back, a burst  *)
(* within a host is in one case, wherever the calendar cuts it               *)
(* (NeighboursShareCase).                                                   *)
THEOREM NeighboursAreTogether == Serial /\ Spec => []NeighboursShareCase
<1>1. TypeOK /\ OneOpenCaseForKey => NeighboursShareCase
  <2> SUFFICES ASSUME TypeOK, OneOpenCaseForKey, crashes = 0,
                      NEW c \in Events, NEW d \in Events, Open(c), Open(d), c # d,
                      NEW e \in cases[c].events, NEW f \in cases[d].events,
                      Neighbours(Data[e], Data[f])
               PROVE  FALSE
    BY DEF NeighboursShareCase
  <2>1. e \in Events /\ f \in Events
    BY DEF TypeOK, Card
  <2>2. Data[e].at \in Int /\ Data[f].at \in Int
    <3>1. \A x \in Events : TimeOfData[x] = Data[x].at
      BY DEF TimeOfData
    <3> QED BY <2>1, <3>1, HostWindowAssumption, EventProcessingAssumption
  <2>3. Range(Fingerprints(Data[e])) \cap Range(Fingerprints(Data[f])) # {}
    BY <2>2, HostWindowJoins
  <2>4. KeysOf[e] = Fingerprints(Data[e]) /\ KeysOf[f] = Fingerprints(Data[f])
    BY <2>1, HostWindowAssumption DEF KeysOfData
  <2> QED BY <2>3, <2>4 DEF OneOpenCaseForKey
<1> QED BY <1>1, EventsTyped, OneCaseForKey, PTL
=============================================================================
