----------------------- MODULE ManualCorrelationProofs -----------------------
(***************************************************************************)
(* The theorems about ManualCorrelation: every operation makes fitting cards *)
(* of fitting cards, so that no interleaving of reads and saves, repetition  *)
(* or death of the process ever stores one that does not fit.               *)
(***************************************************************************)
EXTENDS ManualCorrelation, TLAPS

Books == UNION {[S -> Finding] : S \in SUBSET Findings}

Fits(c, card, where) == EvidenceFits(card) /\ OriginFits(c, card, where)

(* A book of findings is a function on some findings.                       *)
LEMMA BookIs ==
  ASSUME NEW g \in Books
  PROVE  DOMAIN g \subseteq Findings /\ g \in [DOMAIN g -> Finding]
  BY DEF Books

LEMMA IsBook ==
  ASSUME NEW S \in SUBSET Findings, NEW g \in [S -> Finding]
  PROVE  g \in Books
  BY DEF Books

LEMMA CardIs ==
  Card = [status : Statuses, events : SUBSET Known, observed : SUBSET Events,
          hits : SUBSET Events, findings : Books,
          evidence : SUBSET (Rules \X Requests), related : SUBSET Cases]
  BY DEF Card, Books

LEMMA NoCardFits ==
  /\ NoCard \in Card
  /\ \A c \in Cases, where \in [Findings -> Cases \cup {NoCase}] : Fits(c, NoCard, where)
  <1>1. <<>> \in Books
    <2>1. <<>> \in [{} -> Finding] OBVIOUS
    <2> QED BY <2>1, IsBook
  <1>2. NoCard \in Card BY <1>1, CardIs DEF NoCard, Statuses
  <1>3. DOMAIN NoCard.findings = {} BY DEF NoCard
  <1> QED BY <1>2, <1>3 DEF NoCard, Fits, EvidenceFits, OriginFits

-----------------------------------------------------------------------------
(* The operations on cards.                                                 *)

LEMMA AttachedIs ==
  ASSUME NEW card \in Card, NEW e, NEW r
  PROVE  Attached(card, e, r) =
           [status |-> card.status, events |-> card.events \cup {e},
            observed |-> card.observed, hits |-> card.hits, findings |-> card.findings,
            evidence |-> card.evidence \cup {<<"manual_attach", r>>}, related |-> card.related]
  <1> DEFINE new == Attached(card, e, r)
  <1> DEFINE with == [card EXCEPT !.events = @ \cup {e}]
  <1>1. with = [status |-> card.status, events |-> card.events \cup {e},
                observed |-> card.observed, hits |-> card.hits, findings |-> card.findings,
                evidence |-> card.evidence, related |-> card.related]
    <2>1. \A events : [card EXCEPT !.events = events] =
              [status |-> card.status, events |-> events, observed |-> card.observed,
               hits |-> card.hits, findings |-> card.findings, evidence |-> card.evidence,
               related |-> card.related]
      BY CardIs
    <2> QED BY <2>1
  <1>2. new = [with EXCEPT !.evidence = card.evidence \cup {<<"manual_attach", r>>}]
    BY DEF Attached
  <1> HIDE DEF with
  <1> QED BY <1>1, <1>2

LEMMA AttachedFits ==
  ASSUME NEW c \in Cases, NEW card \in Card, NEW e \in Known, NEW r \in Requests,
         NEW where, Fits(c, card, where)
  PROVE  Attached(card, e, r) \in Card /\ Fits(c, Attached(card, e, r), where)
  <1> DEFINE new == Attached(card, e, r)
  <1>1. new = [status |-> card.status, events |-> card.events \cup {e},
               observed |-> card.observed, hits |-> card.hits, findings |-> card.findings,
               evidence |-> card.evidence \cup {<<"manual_attach", r>>},
               related |-> card.related]
    BY AttachedIs
  <1>2. new \in Card BY <1>1, CardIs DEF Rules
  <1>3. /\ new.events = card.events \cup {e} /\ new.observed = card.observed
        /\ new.hits = card.hits /\ new.findings = card.findings
    BY <1>1
  <1> HIDE DEF new
  <1>4. Fits(c, new, where) BY <1>3 DEF Fits, EvidenceFits, OriginFits
  <1> QED BY <1>2, <1>4 DEF new

LEMMA DetachedFits ==
  ASSUME NEW c \in Cases, NEW card \in Card, NEW e \in Events, NEW r \in Requests,
         NEW where, Fits(c, card, where)
  PROVE  Detached(card, c, e, r) \in Card /\ Fits(c, Detached(card, c, e, r), where)
  <1> DEFINE new == Detached(card, c, e, r)
             Left(f) == WithoutEvent(card.findings[f], c, e)
  <1>1. card.findings \in [DOMAIN card.findings -> Finding] /\ DOMAIN card.findings \subseteq Findings
    BY CardIs, BookIs
  <1>2. /\ new.status = card.status /\ new.events = card.events \ {e}
        /\ new.observed = card.observed \ {e} /\ new.hits = card.hits \cap (card.events \ {e})
        /\ new.findings = [f \in DOMAIN card.findings |-> Left(f)]
    BY DEF Detached
  <1>3. ASSUME NEW f \in DOMAIN card.findings
        PROVE  /\ Left(f) \in Finding
               /\ Left(f).events = card.findings[f].events \ {e}
               /\ Left(f).historical <=>
                     (card.findings[f].historical \/ card.findings[f].events = {e})
               /\ Left(f).origin = card.findings[f].origin
                    \/ (card.findings[f].origin = NoCase /\ Left(f).origin = c)
               /\ card.findings[f].events = {e} => Left(f).origin # NoCase
    <2>1. card.findings[f] \in Finding BY <1>1
    <2>2. NoCase # c BY ManualCorrelationAssumption
    <2> QED BY <2>1, <2>2 DEF Finding, WithoutEvent, Historical, Originated
  <1>4. new.findings \in Books
    <2> HIDE DEF new, Left
    <2>1. new.findings \in [DOMAIN card.findings -> Finding] BY <1>2, <1>3
    <2> QED BY <2>1, <1>1, IsBook
  <1>5. new \in Card BY <1>4, CardIs DEF Detached, Rules
  <1> HIDE DEF new, Left
  <1>6. DOMAIN new.findings = DOMAIN card.findings
        /\ \A f \in DOMAIN card.findings : new.findings[f] = Left(f)
    BY <1>2
  <1>7. EvidenceFits(new)
    <2>1. ASSUME NEW f \in DOMAIN card.findings
          PROVE  Left(f).historical \/ Left(f).events \subseteq new.events
      BY <1>2, <1>3 DEF Fits, EvidenceFits
    <2> QED BY <1>2, <1>6, <2>1 DEF Fits, EvidenceFits
  <1>8. OriginFits(c, new, where)
    <2>1. ASSUME NEW f \in DOMAIN card.findings
          PROVE  /\ where[f] # NoCase
                 /\ Left(f).origin = where[f] \/ (Left(f).origin = NoCase /\ c = where[f])
                 /\ Left(f).historical => Left(f).origin # NoCase
      BY <1>3 DEF Fits, OriginFits
    <2> QED BY <1>6, <2>1 DEF OriginFits
  <1> QED BY <1>5, <1>7, <1>8 DEF Fits, new

LEMMA WithFindingFits ==
  ASSUME NEW c \in Cases, NEW card \in Card, NEW f \in Findings,
         NEW events \in SUBSET Events, events \subseteq card.events,
         NEW where, f \in DOMAIN where, Fits(c, card, where), where[f] = NoCase
  PROVE  /\ WithFinding(card, f, events) \in Card
         /\ Fits(c, WithFinding(card, f, events), [where EXCEPT ![f] = c])
  <1> DEFINE new  == WithFinding(card, f, events)
             note == [events |-> events, historical |-> FALSE, origin |-> NoCase]
             book == [g \in DOMAIN card.findings \cup {f} |->
                        IF g = f THEN note ELSE card.findings[g]]
             then == [where EXCEPT ![f] = c]
  <1>1. card.findings \in [DOMAIN card.findings -> Finding] /\ DOMAIN card.findings \subseteq Findings
    BY CardIs, BookIs
  <1>2. new = [card EXCEPT !.findings = book] BY DEF WithFinding
  <1>3. note \in Finding BY DEF Finding
  <1>4. book \in Books
    <2> HIDE DEF note
    <2>1. book \in [DOMAIN card.findings \cup {f} -> Finding] BY <1>1, <1>3
    <2> QED BY <2>1, <1>1, IsBook
  <1> HIDE DEF new
  <1>5. /\ new \in Card /\ new.findings = book /\ new.events = card.events
        /\ new.observed = card.observed /\ new.hits = card.hits
    <2> HIDE DEF book
    <2> QED BY <1>2, <1>4, CardIs
  <1>6. f \notin DOMAIN card.findings BY DEF Fits, OriginFits
  <1>7. c # NoCase BY ManualCorrelationAssumption
  <1>8. EvidenceFits(new) BY <1>5, <1>6 DEF Fits, EvidenceFits
  <1>9. OriginFits(c, new, then)
    <2>1. then[f] = c /\ \A g \in DOMAIN card.findings : then[g] = where[g]
      BY <1>6
    <2> HIDE DEF then
    <2>2. ASSUME NEW g \in DOMAIN book
          PROVE  /\ then[g] # NoCase
                 /\ book[g].origin = then[g] \/ (book[g].origin = NoCase /\ c = then[g])
                 /\ book[g].historical => book[g].origin # NoCase
      <3>1. CASE g = f BY <3>1, <2>1, <1>7
      <3>2. CASE g # f BY <3>2, <2>1 DEF Fits, OriginFits
      <3> QED BY <3>1, <3>2
    <2> QED BY <2>2, <1>5 DEF OriginFits
  <1> QED BY <1>5, <1>8, <1>9 DEF Fits, new

LEMMA OriginatedIs ==
  ASSUME NEW finding \in Finding, NEW c \in Cases
  PROVE  LET new == Originated(finding, c)
         IN  /\ new \in Finding
             /\ new.events = finding.events /\ new.historical = finding.historical
             /\ new.origin = IF finding.origin = NoCase THEN c ELSE finding.origin
             /\ new.origin # NoCase
  BY ManualCorrelationAssumption DEF Originated, Finding

LEMMA MergedTargetFits ==
  ASSUME NEW c \in Cases, NEW card \in Card, NEW d \in Cases, NEW source \in Card,
         NEW r \in Requests, NEW where, Fits(c, card, where), Fits(d, source, where)
  PROVE  /\ MergedTarget(card, d, source, r) \in Card
         /\ Fits(c, MergedTarget(card, d, source, r), where)
  <1> DEFINE new  == MergedTarget(card, d, source, r)
             book == [f \in DOMAIN card.findings \cup DOMAIN source.findings |->
                        IF f \in DOMAIN card.findings THEN card.findings[f]
                        ELSE Originated(source.findings[f], d)]
  <1>1. /\ card.findings \in [DOMAIN card.findings -> Finding] /\ DOMAIN card.findings \subseteq Findings
        /\ source.findings \in [DOMAIN source.findings -> Finding]
        /\ DOMAIN source.findings \subseteq Findings
    BY CardIs, BookIs
  <1>2. /\ new.events = card.events \cup source.events
        /\ new.observed = card.observed \cup source.observed
        /\ new.hits = card.hits \cup source.hits /\ new.findings = book
    BY DEF MergedTarget
  <1>3. book \in Books
    <2>1. book \in [DOMAIN card.findings \cup DOMAIN source.findings -> Finding]
      BY <1>1, OriginatedIs
    <2> QED BY <2>1, <1>1, IsBook
  <1>4. new \in Card
    <2> HIDE DEF book
    <2>1. new = [status |-> card.status, events |-> card.events \cup source.events,
                 observed |-> card.observed \cup source.observed,
                 hits |-> card.hits \cup source.hits, findings |-> book,
                 evidence |-> card.evidence \cup {<<"manual_merge", r>>},
                 related |-> card.related \cup {d}]
      BY DEF MergedTarget, book
    <2> QED BY <2>1, <1>3, CardIs DEF Rules
  <1>5. ASSUME NEW f \in DOMAIN book
        PROVE  /\ book[f].historical \/ book[f].events \subseteq card.events \cup source.events
               /\ where[f] # NoCase
               /\ book[f].origin = where[f] \/ (book[f].origin = NoCase /\ c = where[f])
               /\ book[f].historical => book[f].origin # NoCase
    <2>1. CASE f \in DOMAIN card.findings
      <3>1. book[f] = card.findings[f] BY <2>1
      <3> QED BY <3>1, <2>1 DEF Fits, EvidenceFits, OriginFits
    <2>2. CASE f \notin DOMAIN card.findings
      <3>1. book[f] = Originated(source.findings[f], d) /\ f \in DOMAIN source.findings
        BY <2>2
      <3>2. source.findings[f] \in Finding BY <3>1, <1>1
      <3> DEFINE old == source.findings[f]
      <3>3. /\ book[f].events = old.events /\ book[f].historical = old.historical
            /\ book[f].origin = (IF old.origin = NoCase THEN d ELSE old.origin)
            /\ book[f].origin # NoCase
        BY <3>1, <3>2, OriginatedIs
      <3> HIDE DEF book
      <3> QED BY <3>1, <3>3 DEF Fits, EvidenceFits, OriginFits
    <2> QED BY <2>1, <2>2
  <1> HIDE DEF new, book
  <1>6. EvidenceFits(new) BY <1>2, <1>5 DEF Fits, EvidenceFits
  <1>7. OriginFits(c, new, where) BY <1>2, <1>5 DEF OriginFits
  <1> QED BY <1>4, <1>6, <1>7 DEF Fits, new

LEMMA MergedSourceIs ==
  ASSUME NEW source \in Card, NEW c
  PROVE  MergedSource(source, c) =
           [status |-> "merged", events |-> source.events, observed |-> source.observed,
            hits |-> source.hits, findings |-> source.findings,
            evidence |-> source.evidence, related |-> source.related \cup {c}]
  <1> DEFINE new == MergedSource(source, c)
  <1> DEFINE with == [source EXCEPT !.status = "merged"]
  <1>1. with = [status |-> "merged", events |-> source.events, observed |-> source.observed,
                hits |-> source.hits, findings |-> source.findings,
                evidence |-> source.evidence, related |-> source.related]
    BY CardIs
  <1>2. new = [with EXCEPT !.related = @ \cup {c}] BY DEF MergedSource
  <1> HIDE DEF with
  <1> QED BY <1>1, <1>2

LEMMA MergedSourceFits ==
  ASSUME NEW c \in Cases, NEW d \in Cases, NEW source \in Card, NEW where,
         Fits(d, source, where)
  PROVE  MergedSource(source, c) \in Card /\ Fits(d, MergedSource(source, c), where)
  <1> DEFINE new == MergedSource(source, c)
  <1>1. new = [status |-> "merged", events |-> source.events, observed |-> source.observed,
               hits |-> source.hits, findings |-> source.findings,
               evidence |-> source.evidence, related |-> source.related \cup {c}]
    BY MergedSourceIs
  <1>2. new \in Card BY <1>1, CardIs DEF Statuses
  <1>3. /\ new.events = source.events /\ new.observed = source.observed
        /\ new.hits = source.hits /\ new.findings = source.findings
    BY <1>1
  <1> HIDE DEF new
  <1>4. Fits(d, new, where) BY <1>3 DEF Fits, EvidenceFits, OriginFits
  <1> QED BY <1>2, <1>4 DEF new

LEMMA HistoricalIs ==
  ASSUME NEW finding \in Finding, NEW c \in Cases
  PROVE  LET new == Historical(finding, c)
         IN  /\ new \in Finding /\ new.historical
             /\ new.origin = IF finding.origin = NoCase THEN c ELSE finding.origin
             /\ new.origin # NoCase
  BY ManualCorrelationAssumption DEF Historical, Originated, Finding

LEMMA SplitChildFits ==
  ASSUME NEW c \in Cases, NEW card \in Card, NEW child \in Cases,
         NEW events \in SUBSET Events, events \subseteq card.events,
         NEW r \in Requests, NEW where, Fits(c, card, where)
  PROVE  /\ SplitChild(card, c, events, r) \in Card
         /\ Fits(child, SplitChild(card, c, events, r), where)
  <1> DEFINE new  == SplitChild(card, c, events, r)
             book == [f \in Moving(card, events) |-> Originated(card.findings[f], c)]
  <1>1. card.findings \in [DOMAIN card.findings -> Finding] /\ DOMAIN card.findings \subseteq Findings
    BY CardIs, BookIs
  <1>2. /\ new.events = events /\ new.observed = card.observed \cap events
        /\ new.hits = card.hits \cap events /\ new.findings = book
    BY DEF SplitChild
  <1>3. Moving(card, events) \subseteq DOMAIN card.findings BY DEF Moving
  <1>4. book \in Books
    <2>1. book \in [Moving(card, events) -> Finding] BY <1>1, <1>3, OriginatedIs
    <2> QED BY <2>1, <1>1, <1>3, IsBook
  <1>5. new \in Card
    <2> HIDE DEF book
    <2>1. new = [status |-> "open", events |-> events, observed |-> card.observed \cap events,
                 hits |-> card.hits \cap events, findings |-> book,
                 evidence |-> {<<"manual_split", r>>}, related |-> {c}]
      BY DEF SplitChild, book
    <2> QED BY <2>1, <1>4, CardIs DEF Rules, Statuses
  <1>6. ASSUME NEW f \in DOMAIN book
        PROVE  /\ book[f].events \subseteq events
               /\ where[f] # NoCase /\ book[f].origin = where[f] /\ book[f].origin # NoCase
    <2>1. f \in Moving(card, events) /\ book[f] = Originated(card.findings[f], c) OBVIOUS
    <2>2. card.findings[f] \in Finding BY <2>1, <1>1, <1>3
    <2> DEFINE old == card.findings[f]
    <2>3. /\ book[f].events = old.events
          /\ book[f].origin = (IF old.origin = NoCase THEN c ELSE old.origin)
          /\ book[f].origin # NoCase
      BY <2>1, <2>2, OriginatedIs
    <2> HIDE DEF book
    <2>4. old.events \subseteq events BY <2>1 DEF Moving, Moves
    <2> QED BY <2>1, <2>3, <2>4, <1>3 DEF Fits, OriginFits
  <1> HIDE DEF new, book
  <1>7. EvidenceFits(new) BY <1>2, <1>6 DEF EvidenceFits
  <1>8. OriginFits(child, new, where) BY <1>2, <1>6 DEF OriginFits
  <1> QED BY <1>5, <1>7, <1>8 DEF Fits, new

LEMMA SplitSourceFits ==
  ASSUME NEW c \in Cases, NEW card \in Card, NEW child \in Cases,
         NEW events \in SUBSET Events, NEW r \in Requests, NEW where, Fits(c, card, where)
  PROVE  /\ SplitSource(card, c, child, events, r) \in Card
         /\ Fits(c, SplitSource(card, c, child, events, r), where)
  <1> DEFINE new  == SplitSource(card, c, child, events, r)
             kept == DOMAIN card.findings \ Moving(card, events)
             book == [f \in kept |->
                        IF card.findings[f].events \cap events # {}
                        THEN Historical(card.findings[f], c) ELSE card.findings[f]]
  <1>1. card.findings \in [DOMAIN card.findings -> Finding] /\ DOMAIN card.findings \subseteq Findings
    BY CardIs, BookIs
  <1>2. /\ new.events = card.events \ events /\ new.observed = card.observed \ events
        /\ new.hits = card.hits \cap (card.events \ events) /\ new.findings = book
    BY DEF SplitSource
  <1>3. book \in Books
    <2>1. book \in [kept -> Finding] BY <1>1, HistoricalIs
    <2> QED BY <2>1, <1>1, IsBook
  <1>4. new \in Card
    <2> HIDE DEF book
    <2>1. new = [status |-> card.status, events |-> card.events \ events,
                 observed |-> card.observed \ events,
                 hits |-> card.hits \cap (card.events \ events), findings |-> book,
                 evidence |-> card.evidence \cup {<<"manual_split_source", r>>},
                 related |-> card.related \cup {child}]
      BY DEF SplitSource, book
    <2> QED BY <2>1, <1>3, CardIs DEF Rules
  <1>5. ASSUME NEW f \in DOMAIN book
        PROVE  /\ book[f].historical \/ book[f].events \subseteq card.events \ events
               /\ where[f] # NoCase
               /\ book[f].origin = where[f] \/ (book[f].origin = NoCase /\ c = where[f])
               /\ book[f].historical => book[f].origin # NoCase
    <2> DEFINE old == card.findings[f]
    <2>1. f \in DOMAIN card.findings /\ old \in Finding BY <1>1
    <2>2. CASE old.events \cap events # {}
      <3>1. book[f] = Historical(old, c) BY <2>2
      <3>2. /\ book[f].historical
            /\ book[f].origin = (IF old.origin = NoCase THEN c ELSE old.origin)
            /\ book[f].origin # NoCase
        BY <2>1, <3>1, HistoricalIs
      <3> HIDE DEF book
      <3> QED BY <2>1, <3>2 DEF Fits, OriginFits
    <2>3. CASE old.events \cap events = {}
      <3>1. book[f] = old BY <2>3
      <3> HIDE DEF book
      <3> QED BY <2>1, <2>3, <3>1 DEF Fits, OriginFits, EvidenceFits
    <2> QED BY <2>2, <2>3
  <1> HIDE DEF new, book
  <1>6. EvidenceFits(new) BY <1>2, <1>5 DEF Fits, EvidenceFits
  <1>7. OriginFits(c, new, where) BY <1>2, <1>5 DEF OriginFits
  <1> QED BY <1>4, <1>6, <1>7 DEF Fits, new

-----------------------------------------------------------------------------
(* The steps.                                                               *)

Places == [Findings -> Cases \cup {NoCase}]

LEMMA CommandIs ==
  ASSUME NEW cmd \in Commands
  PROVE  /\ cmd # NoCommand /\ cmd.case \in Cases /\ cmd.from \in Cases
         /\ cmd.events \subseteq Events
  BY ManualCorrelationAssumption DEF Command, NoCommand

(* What fits goes on fitting when another finding is written.               *)
LEMMA FitsLater ==
  ASSUME NEW c \in Cases, NEW card, NEW where \in Places, NEW d \in Cases,
         NEW f \in Findings, where[f] = NoCase, OriginFits(c, card, where)
  PROVE  OriginFits(c, card, [where EXCEPT ![f] = d])
  BY DEF OriginFits, Places

(* A thread that is busy has a command, and cases to read.                   *)
LEMMA BusyIs ==
  ASSUME TypeOK, NEW t \in Threads, hand[t].pc # "idle"
  PROVE  /\ hand[t] # Idle /\ hand[t] \in Busy /\ CommandOf(t) \in Commands
  BY DEF TypeOK, Idle, CommandOf

(* The hand of one thread changes, findings may be written.                  *)
WrittenLater ==
  \/ written' = written
  \/ \E f \in Findings, d \in Cases :
       written[f] = NoCase /\ written' = [written EXCEPT ![f] = d]

LEMMA OthersFit ==
  ASSUME TypeOK, WrittenLater, sent' = sent, NEW u \in Threads, hand'[u] = hand[u],
         hand[u] # Idle, HandFits(u)
  PROVE  HandFits(u)'
  <1>1. CommandOf(u)' = CommandOf(u) BY DEF CommandOf
  <1>2. CommandOf(u) \in Commands BY DEF TypeOK, CommandOf
  <1>3. written \in Places BY DEF TypeOK, Places
  <1>4. ASSUME NEW c \in Cases, NEW card, OriginFits(c, card, written)
        PROVE  OriginFits(c, card, written')
    BY <1>3, <1>4, FitsLater DEF WrittenLater
  <1>5. CommandOf(u).case \in Cases /\ CommandOf(u).from \in Cases BY <1>2, CommandIs
  <1>6. /\ OriginFits(CommandOf(u).case, hand[u].target, written')
        /\ OriginFits(CommandOf(u).from, hand[u].source, written')
    BY <1>4, <1>5 DEF HandFits
  <1> QED BY <1>1, <1>6 DEF HandFits

LEMMA HandTyped ==
  ASSUME TypeOK, NEW t \in Threads, NEW h \in {Idle} \cup Busy,
         hand' = [hand EXCEPT ![t] = h], sent' = sent,
         h # Idle => h.req = hand[t].req /\ hand[t] # Idle
  PROVE  /\ hand' \in [Threads -> {Idle} \cup Busy]
         /\ \A u \in Threads : hand'[u] # Idle => sent'[hand'[u].req] \in Commands
  BY DEF TypeOK

LEMMA GoneOn ==
  ASSUME IInv, NEW t \in Threads, hand[t].pc # "idle",
         NEW pc \in {"target", "source", "child", "save", "record"},
         NEW target \in Card, NEW source \in Card, NEW left \in SUBSET Cases,
         GoOn(t, pc, target, source, left), sent' = sent, WrittenLater,
         Fits(CommandOf(t).case, target, written'), Fits(CommandOf(t).from, source, written'),
         pc = "source" => CommandOf(t).kind = "merge",
         pc = "child" => CommandOf(t).kind = "split",
         pc = "save" =>
           /\ CommandOf(t).kind = "attach" => CommandOf(t).events \subseteq Known
           /\ CommandOf(t).kind \in {"finding", "split"} => CommandOf(t).events \subseteq target.events
  PROVE  /\ hand' \in [Threads -> {Idle} \cup Busy]
         /\ \A u \in Threads : hand'[u] # Idle => sent'[hand'[u].req] \in Commands
         /\ \A u \in Threads : hand'[u] # Idle => HandFits(u)'
  <1> DEFINE h == [pc |-> pc, req |-> hand[t].req, target |-> target, source |-> source,
                   left |-> left]
  <1>1. TypeOK BY DEF IInv
  <1>2. hand[t] # Idle /\ hand[t] \in Busy BY <1>1, BusyIs
  <1>3. h \in Busy /\ h.req = hand[t].req /\ h.pc = pc /\ h.target = target /\ h.source = source
    BY <1>2 DEF Busy
  <1>4. hand' = [hand EXCEPT ![t] = h] BY DEF GoOn
  <1> HIDE DEF h
  <1>5. hand' \in [Threads -> {Idle} \cup Busy]
        /\ \A u \in Threads : hand'[u] # Idle => sent'[hand'[u].req] \in Commands
    BY <1>1, <1>2, <1>3, <1>4, HandTyped
  <1>6. ASSUME NEW u \in Threads, hand'[u] # Idle
        PROVE  HandFits(u)'
    <2>1. CASE u = t
      <3>1. hand'[t] = h BY <1>1, <1>4 DEF TypeOK
      <3>2. CommandOf(t)' = CommandOf(t) BY <3>1, <1>3 DEF CommandOf
      <3> QED BY <2>1, <3>1, <3>2, <1>3 DEF HandFits, Fits
    <2>2. CASE u # t
      <3>1. hand'[u] = hand[u] BY <2>2, <1>1, <1>4 DEF TypeOK
      <3>2. hand[u] # Idle /\ HandFits(u) BY <3>1, <1>6 DEF IInv
      <3> QED BY <3>1, <3>2, <1>1, OthersFit
    <2> QED BY <2>1, <2>2
  <1> QED BY <1>5, <1>6

LEMMA GoneIdle ==
  ASSUME IInv, NEW t \in Threads, hand' = [hand EXCEPT ![t] = Idle],
         sent' = sent, written' = written
  PROVE  /\ hand' \in [Threads -> {Idle} \cup Busy]
         /\ \A u \in Threads : hand'[u] # Idle => sent'[hand'[u].req] \in Commands
         /\ \A u \in Threads : hand'[u] # Idle => HandFits(u)'
  <1>1. TypeOK BY DEF IInv
  <1>2. WrittenLater BY DEF WrittenLater
  <1>3. hand' \in [Threads -> {Idle} \cup Busy]
        /\ \A u \in Threads : hand'[u] # Idle => sent'[hand'[u].req] \in Commands
    BY <1>1, HandTyped
  <1>4. ASSUME NEW u \in Threads, hand'[u] # Idle
        PROVE  HandFits(u)'
    <2>1. hand'[u] = hand[u] BY <1>4, <1>1 DEF TypeOK
    <2>2. hand[u] # Idle /\ HandFits(u) BY <2>1, <1>4 DEF IInv
    <2> QED BY <2>1, <2>2, <1>1, <1>2, OthersFit
  <1> QED BY <1>3, <1>4

(* A step that leaves the cards alone.                                       *)
LEMMA QuietStep ==
  ASSUME IInv, UNCHANGED <<cards, written, changes>>,
         hand' \in [Threads -> {Idle} \cup Busy],
         sent' \in [Requests -> Commands \cup {NoCommand}],
         \A u \in Threads : hand'[u] # Idle => sent'[hand'[u].req] \in Commands,
         \A u \in Threads : hand'[u] # Idle => HandFits(u)',
         ledger' \subseteq Requests \X Cases, answered' \subseteq Requests,
         raced' \subseteq Cases, sends' \in 0 .. MaxSends, deaths' \in 0 .. MaxDeaths
  PROVE  IInv'
  <1>1. TypeOK' BY DEF IInv, TypeOK
  <1>2. EvidenceBelongs' /\ OriginIsTrue' BY DEF IInv, EvidenceBelongs, OriginIsTrue
  <1> QED BY <1>1, <1>2 DEF IInv

(* A thread answers, or refuses.                                            *)
LEMMA LetGo ==
  ASSUME IInv, NEW t \in Threads, hand' = [hand EXCEPT ![t] = Idle],
         answered' \subseteq Requests, ledger' \subseteq Requests \X Cases,
         UNCHANGED <<cards, sent, written, changes, raced, sends, deaths>>
  PROVE  IInv'
  <1>1. /\ hand' \in [Threads -> {Idle} \cup Busy]
        /\ \A u \in Threads : hand'[u] # Idle => sent'[hand'[u].req] \in Commands
        /\ \A u \in Threads : hand'[u] # Idle => HandFits(u)'
    BY GoneIdle
  <1>2. /\ sent' \in [Requests -> Commands \cup {NoCommand}]
        /\ raced' \subseteq Cases /\ sends' \in 0 .. MaxSends /\ deaths' \in 0 .. MaxDeaths
    BY DEF IInv, TypeOK
  <1> QED BY <1>1, <1>2, QuietStep

LEMMA Answers ==
  ASSUME IInv, NEW t \in Threads, hand[t].pc # "idle",
         hand' = [hand EXCEPT ![t] = Idle], answered' \in {answered, answered \cup {hand[t].req}},
         UNCHANGED <<cards, sent, written, ledger, changes, raced, sends, deaths>>
  PROVE  IInv'
  <1>1. hand[t] \in Busy BY BusyIs DEF IInv
  <1>2. answered' \subseteq Requests /\ ledger' \subseteq Requests \X Cases
    BY <1>1 DEF IInv, TypeOK, Busy
  <1> QED BY <1>2, LetGo

(* A thread goes on with cards that fit.                                    *)
LEMMA ReadsOn ==
  ASSUME IInv, NEW t \in Threads, hand[t].pc # "idle",
         NEW pc \in {"target", "source", "child", "save", "record"},
         NEW target \in Card, NEW source \in Card, NEW left \in SUBSET Cases,
         GoOn(t, pc, target, source, left),
         Fits(CommandOf(t).case, target, written), Fits(CommandOf(t).from, source, written),
         pc = "source" => CommandOf(t).kind = "merge",
         pc = "child" => CommandOf(t).kind = "split",
         pc = "save" =>
           /\ CommandOf(t).kind = "attach" => CommandOf(t).events \subseteq Known
           /\ CommandOf(t).kind \in {"finding", "split"} => CommandOf(t).events \subseteq target.events,
         ledger' \subseteq Requests \X Cases,
         UNCHANGED <<cards, sent, written, changes, answered, raced, sends, deaths>>
  PROVE  IInv'
  <1>1. WrittenLater BY DEF WrittenLater
  <1>2. /\ hand' \in [Threads -> {Idle} \cup Busy]
        /\ \A u \in Threads : hand'[u] # Idle => sent'[hand'[u].req] \in Commands
        /\ \A u \in Threads : hand'[u] # Idle => HandFits(u)'
    BY <1>1, GoneOn
  <1>3. /\ sent' \in [Requests -> Commands \cup {NoCommand}] /\ answered' \subseteq Requests
        /\ raced' \subseteq Cases /\ sends' \in 0 .. MaxSends /\ deaths' \in 0 .. MaxDeaths
    BY DEF IInv, TypeOK
  <1> QED BY <1>2, <1>3, QuietStep

(* What a busy thread has, and what the store has, fits.                     *)
LEMMA HandIs ==
  ASSUME IInv, NEW t \in Threads, hand[t].pc # "idle"
  PROVE  /\ hand[t].req \in Requests /\ hand[t].left \subseteq Cases
         /\ hand[t].target \in Card /\ hand[t].source \in Card
         /\ CommandOf(t) \in Commands /\ CommandOf(t).case \in Cases
         /\ CommandOf(t).from \in Cases /\ CommandOf(t).events \subseteq Events
         /\ Fits(CommandOf(t).case, hand[t].target, written)
         /\ Fits(CommandOf(t).from, hand[t].source, written)
         /\ written \in Places
         /\ hand[t].pc = "source" => CommandOf(t).kind = "merge"
         /\ hand[t].pc = "child" => CommandOf(t).kind = "split"
         /\ hand[t].pc = "save" =>
              /\ CommandOf(t).kind = "attach" => CommandOf(t).events \subseteq Known
              /\ CommandOf(t).kind \in {"finding", "split"} =>
                   CommandOf(t).events \subseteq hand[t].target.events
  <1>1. hand[t] # Idle /\ hand[t] \in Busy /\ CommandOf(t) \in Commands
    BY BusyIs DEF IInv
  <1>2. HandFits(t) BY <1>1 DEF IInv
  <1>3. written \in Places BY DEF IInv, TypeOK, Places
  <1>4. /\ CommandOf(t).case \in Cases /\ CommandOf(t).from \in Cases
        /\ CommandOf(t).events \subseteq Events
    BY <1>1, CommandIs
  <1>5. /\ hand[t].req \in Requests /\ hand[t].left \subseteq Cases
        /\ hand[t].target \in Card /\ hand[t].source \in Card
    BY <1>1 DEF Busy
  <1> QED BY <1>1, <1>2, <1>3, <1>4, <1>5 DEF HandFits, Fits

LEMMA StoreFits ==
  ASSUME IInv, NEW c \in Cases
  PROVE  cards[c] \in Card /\ Fits(c, cards[c], written) /\ cards[c].related \subseteq Cases
  BY CardIs DEF IInv, TypeOK, EvidenceBelongs, OriginIsTrue, Fits

LEMMA SendStep ==
  ASSUME IInv, NEW t \in Threads, NEW r \in Requests, Send(t, r)
  PROVE  IInv'
  <1> DEFINE h == [pc |-> "target", req |-> r, target |-> NoCard, source |-> NoCard, left |-> {}]
  <1>1. PICK cmd \in Commands :
          /\ sent[r] \in {NoCommand, cmd} /\ sent' = [sent EXCEPT ![r] = cmd]
          /\ raced' = raced \cup {c \in Involved(cmd) :
                \E u \in Threads : hand[u] # Idle /\ c \in Involved(sent[hand[u].req])}
    BY DEF Send
  <1>2. hand[t] = Idle /\ hand' = [hand EXCEPT ![t] = h]
        /\ UNCHANGED <<cards, written, ledger, changes, answered, deaths>>
    BY DEF Send
  <1>3. TypeOK BY DEF IInv
  <1>4. h \in Busy /\ h.req = r /\ h.target = NoCard /\ h.source = NoCard /\ h.pc = "target"
    BY NoCardFits DEF Busy
  <1> HIDE DEF h
  <1>5. hand' \in [Threads -> {Idle} \cup Busy] BY <1>2, <1>3, <1>4 DEF TypeOK
  <1>6. sent' \in [Requests -> Commands \cup {NoCommand}] BY <1>1, <1>3 DEF TypeOK
  <1>7. raced' \subseteq Cases
    <2>1. Involved(cmd) \subseteq Cases BY CommandIs DEF Involved
    <2> QED BY <2>1, <1>1, <1>3 DEF TypeOK
  <1>8. sends' \in 0 .. MaxSends /\ deaths' \in 0 .. MaxDeaths
        /\ ledger' \subseteq Requests \X Cases /\ answered' \subseteq Requests
    <2>1. sends < MaxSends /\ sends' = sends + 1 BY DEF Send
    <2> QED BY <1>2, <1>3, <2>1, ManualCorrelationAssumption DEF TypeOK
  <1>9. ASSUME NEW u \in Threads, hand'[u] # Idle
        PROVE  sent'[hand'[u].req] \in Commands /\ HandFits(u)'
    <2>1. CASE u = t
      <3>1. hand'[t] = h BY <1>2, <1>3 DEF TypeOK
      <3>2. CommandOf(t)' = cmd BY <1>1, <1>3, <1>4, <3>1 DEF CommandOf, TypeOK
      <3>3. written' \in Places BY <1>2, <1>3 DEF TypeOK, Places
      <3>4. cmd.case \in Cases /\ cmd.from \in Cases BY CommandIs
      <3>5. Fits(cmd.case, NoCard, written') /\ Fits(cmd.from, NoCard, written')
        BY <3>3, <3>4, NoCardFits DEF Places
      <3>6. sent'[hand'[t].req] = cmd BY <3>2 DEF CommandOf
      <3> QED BY <2>1, <3>1, <3>2, <3>5, <3>6, <1>4 DEF HandFits, Fits
    <2>2. CASE u # t
      <3>1. hand'[u] = hand[u] BY <2>2, <1>2, <1>3 DEF TypeOK
      <3>2. hand[u] # Idle /\ HandFits(u) BY <3>1, <1>9 DEF IInv
      <3>3. sent[hand[u].req] \in Commands /\ hand[u].req \in Requests
        BY <3>2, <1>3 DEF TypeOK, Busy
      <3>4. sent'[hand[u].req] = sent[hand[u].req]
        BY <3>3, <1>1, <1>3, CommandIs DEF TypeOK
      <3>5. CommandOf(u)' = CommandOf(u) BY <3>1, <3>4 DEF CommandOf
      <3> QED BY <3>1, <3>2, <3>3, <3>4, <3>5, <1>2 DEF HandFits
    <2> QED BY <2>1, <2>2
  <1> QED BY <1>2, <1>5, <1>6, <1>7, <1>8, <1>9, QuietStep

LEMMA ReadTargetStep ==
  ASSUME IInv, NEW t \in Threads, ReadTarget(t)
  PROVE  IInv'
  <1> DEFINE cmd  == CommandOf(t)
             card == cards[cmd.case]
             pc   == CASE cmd.kind = "merge" -> "source"
                       [] cmd.kind = "split" -> "child"
                       [] OTHER -> "save"
  <1>1. hand[t].pc = "target" /\ UNCHANGED <<cards, sent, written, ledger, changes, raced, sends, deaths>>
    BY DEF ReadTarget
  <1>2. /\ cmd \in Commands /\ cmd.case \in Cases /\ cmd.from \in Cases /\ written \in Places
    BY <1>1, HandIs
  <1>3. CASE Settled(cmd, hand[t].req, card) BY <1>1, <1>3, Answers DEF ReadTarget, Answer
  <1>4. CASE ~Settled(cmd, hand[t].req, card) /\ Invalid(cmd, card)
    BY <1>1, <1>4, Answers DEF ReadTarget, Refuse
  <1>5. CASE ~Settled(cmd, hand[t].req, card) /\ ~Invalid(cmd, card)
    <2>1. GoOn(t, pc, card, NoCard, card.related) /\ answered' = answered
      BY <1>5 DEF ReadTarget
    <2>2. card \in Card /\ Fits(cmd.case, card, written) /\ card.related \subseteq Cases
      BY <1>2, StoreFits
    <2>3. NoCard \in Card /\ Fits(cmd.from, NoCard, written)
      BY <1>2, NoCardFits DEF Places
    <2>4. pc = "save" => /\ cmd.kind = "attach" => cmd.events \subseteq Known
                         /\ cmd.kind \in {"finding", "split"} => cmd.events \subseteq card.events
      <3>1. cmd.events \subseteq Events BY <1>2, CommandIs
      <3> QED BY <1>5, <3>1 DEF Invalid, IsKnown
    <2>5. pc \in {"target", "source", "child", "save", "record"}
          /\ (pc = "source" => cmd.kind = "merge")
          /\ (pc = "child" => cmd.kind = "split")
      OBVIOUS
    <2>6. ledger' \subseteq Requests \X Cases BY <1>1 DEF IInv, TypeOK
    <2> HIDE DEF pc, card
    <2> QED BY <1>1, <2>1, <2>2, <2>3, <2>4, <2>5, <2>6, ReadsOn
  <1> QED BY <1>3, <1>4, <1>5

LEMMA ReadSourceStep ==
  ASSUME IInv, NEW t \in Threads, ReadSource(t)
  PROVE  IInv'
  <1> DEFINE cmd    == CommandOf(t)
             source == cards[cmd.from]
  <1>1. hand[t].pc = "source" /\ UNCHANGED <<cards, sent, written, ledger, changes, raced, sends, deaths>>
    BY DEF ReadSource
  <1>2. /\ cmd.from \in Cases /\ hand[t].target \in Card /\ Fits(cmd.case, hand[t].target, written)
        /\ cmd.kind = "merge"
    BY <1>1, HandIs
  <1>3. source \in Card /\ Fits(cmd.from, source, written) BY <1>2, StoreFits
  <1>4. CASE source.status = "none" BY <1>1, <1>4, Answers DEF ReadSource, Refuse
  <1>5. CASE source.status # "none" /\ cmd.from = cmd.case
    BY <1>1, <1>5, Answers DEF ReadSource, Answer
  <1>6. CASE source.status # "none" /\ cmd.from # cmd.case
    <2>1. GoOn(t, "save", hand[t].target, source, {}) /\ answered' = answered
      BY <1>6 DEF ReadSource
    <2>2. ledger' \subseteq Requests \X Cases BY <1>1 DEF IInv, TypeOK
    <2> HIDE DEF source
    <2> QED BY <1>1, <1>2, <1>3, <2>1, <2>2, ReadsOn
  <1> QED BY <1>4, <1>5, <1>6

LEMMA ReadRelatedStep ==
  ASSUME IInv, NEW t \in Threads, ReadRelated(t)
  PROVE  IInv'
  <1> DEFINE cmd == CommandOf(t)
  <1>1. hand[t].pc = "child" /\ UNCHANGED <<cards, sent, written, ledger, changes, raced, sends, deaths>>
    BY DEF ReadRelated
  <1>2. /\ cmd.from \in Cases /\ hand[t].target \in Card /\ Fits(cmd.case, hand[t].target, written)
        /\ hand[t].left \subseteq Cases /\ written \in Places /\ cmd.kind = "split"
    BY <1>1, HandIs
  <1>3. NoCard \in Card /\ Fits(cmd.from, NoCard, written) BY <1>2, NoCardFits DEF Places
  <1>4. ledger' \subseteq Requests \X Cases BY <1>1 DEF IInv, TypeOK
  <1>5. CASE Answer(t) BY <1>1, <1>5, Answers DEF Answer
  <1>6. CASE Refuse(t) BY <1>1, <1>6, Answers DEF Refuse
  <1>7. ASSUME NEW c \in hand[t].left,
               GoOn(t, "child", hand[t].target, NoCard, hand[t].left \ {c}), answered' = answered
        PROVE  IInv'
    <2>1. hand[t].left \ {c} \in SUBSET Cases BY <1>2
    <2> QED BY <1>1, <1>2, <1>3, <1>4, <1>7, <2>1, ReadsOn
  <1>8. CASE /\ cmd.events \subseteq hand[t].target.events
             /\ GoOn(t, "save", hand[t].target, NoCard, {}) /\ answered' = answered
    BY <1>1, <1>2, <1>3, <1>4, <1>8, ReadsOn
  <1> QED BY <1>5, <1>6, <1>7, <1>8 DEF ReadRelated

(* Cards that fit are saved.                                                *)
LEMMA SavedFits ==
  ASSUME IInv, NEW t \in Threads, hand[t].pc = "save", NEW new,
         DOMAIN new \subseteq Cases, Saved(t, new), WrittenLater,
         \A c \in DOMAIN new : new[c] \in Card /\ Fits(c, new[c], written')
  PROVE  IInv'
  <1>1. /\ TypeOK /\ CommandOf(t).case \in Cases /\ CommandOf(t).from \in Cases
        /\ written \in Places /\ hand[t].req \in Requests
    BY HandIs DEF IInv
  <1>2. written' \in Places BY <1>1 DEF WrittenLater, Places
  <1>3. NoCard \in Card /\ Fits(CommandOf(t).case, NoCard, written')
        /\ Fits(CommandOf(t).from, NoCard, written')
    BY <1>1, <1>2, NoCardFits DEF Places
  <1>4. /\ GoOn(t, "record", NoCard, NoCard, DOMAIN new)
        /\ UNCHANGED <<sent, ledger, answered, raced, sends, deaths>>
        /\ changes' = [changes EXCEPT ![hand[t].req] = @ + 1]
        /\ cards' = [c \in Cases |-> IF c \in DOMAIN new THEN new[c] ELSE cards[c]]
    BY DEF Saved
  <1>5. /\ hand' \in [Threads -> {Idle} \cup Busy]
        /\ \A u \in Threads : hand'[u] # Idle => sent'[hand'[u].req] \in Commands
        /\ \A u \in Threads : hand'[u] # Idle => HandFits(u)'
    BY <1>3, <1>4, GoneOn
  <1>6. ASSUME NEW c \in Cases
        PROVE  cards'[c] \in Card /\ Fits(c, cards'[c], written')
    <2>1. CASE c \in DOMAIN new BY <2>1, <1>4
    <2>2. CASE c \notin DOMAIN new
      <3>1. cards'[c] = cards[c] /\ cards[c] \in Card /\ Fits(c, cards[c], written)
        BY <2>2, <1>4, StoreFits
      <3>2. OriginFits(c, cards[c], written')
        BY <3>1, <1>1, FitsLater DEF WrittenLater, Fits
      <3> QED BY <3>1, <3>2 DEF Fits
    <2> QED BY <2>1, <2>2
  <1>7. cards' \in [Cases -> Card] BY <1>4, <1>6
  <1>8. changes' \in [Requests -> Nat] BY <1>1, <1>4 DEF TypeOK
  <1>9. TypeOK' BY <1>1, <1>2, <1>4, <1>5, <1>7, <1>8 DEF TypeOK, Places
  <1>10. EvidenceBelongs' /\ OriginIsTrue' BY <1>6 DEF Fits, EvidenceBelongs, OriginIsTrue
  <1> QED BY <1>5, <1>9, <1>10 DEF IInv

LEMMA SaveAttachedStep ==
  ASSUME IInv, NEW t \in Threads, SaveAttached(t)
  PROVE  IInv'
  <1> DEFINE cmd    == CommandOf(t)
             new(e) == [c \in {cmd.case} |-> Attached(hand[t].target, e, hand[t].req)]
  <1>1. hand[t].pc = "save" /\ cmd.kind = "attach" /\ written' = written
    BY DEF SaveAttached
  <1>2. PICK e \in cmd.events : Saved(t, new(e)) BY DEF SaveAttached
  <1>3. /\ e \in Known /\ cmd.case \in Cases /\ hand[t].target \in Card
        /\ hand[t].req \in Requests /\ Fits(cmd.case, hand[t].target, written)
    BY <1>1, HandIs
  <1>4. /\ Attached(hand[t].target, e, hand[t].req) \in Card
        /\ Fits(cmd.case, Attached(hand[t].target, e, hand[t].req), written)
    BY <1>3, AttachedFits
  <1>5. DOMAIN new(e) \subseteq Cases
        /\ \A c \in DOMAIN new(e) : new(e)[c] \in Card /\ Fits(c, new(e)[c], written')
    BY <1>1, <1>3, <1>4
  <1>6. WrittenLater BY <1>1 DEF WrittenLater
  <1> HIDE DEF new
  <1> QED BY <1>1, <1>2, <1>5, <1>6, SavedFits

LEMMA SaveDetachedStep ==
  ASSUME IInv, NEW t \in Threads, SaveDetached(t)
  PROVE  IInv'
  <1> DEFINE cmd    == CommandOf(t)
             new(e) == [c \in {cmd.case} |-> Detached(hand[t].target, c, e, hand[t].req)]
  <1>1. hand[t].pc = "save" /\ written' = written BY DEF SaveDetached
  <1>2. PICK e \in cmd.events : Saved(t, new(e)) BY DEF SaveDetached
  <1>3. /\ e \in Events /\ cmd.case \in Cases /\ hand[t].target \in Card
        /\ hand[t].req \in Requests /\ Fits(cmd.case, hand[t].target, written)
    BY <1>1, HandIs
  <1>4. /\ Detached(hand[t].target, cmd.case, e, hand[t].req) \in Card
        /\ Fits(cmd.case, Detached(hand[t].target, cmd.case, e, hand[t].req), written)
    BY <1>3, DetachedFits
  <1>5. DOMAIN new(e) \subseteq Cases
        /\ \A c \in DOMAIN new(e) : new(e)[c] \in Card /\ Fits(c, new(e)[c], written')
    BY <1>1, <1>3, <1>4
  <1>6. WrittenLater BY <1>1 DEF WrittenLater
  <1> HIDE DEF new
  <1> QED BY <1>1, <1>2, <1>5, <1>6, SavedFits

LEMMA SaveFindingStep ==
  ASSUME IInv, NEW t \in Threads, SaveFinding(t)
  PROVE  IInv'
  <1> DEFINE cmd    == CommandOf(t)
             new(f) == [c \in {cmd.case} |-> WithFinding(hand[t].target, f, cmd.events)]
  <1>1. hand[t].pc = "save" /\ cmd.kind = "finding" BY DEF SaveFinding
  <1>2. PICK f \in Findings :
          /\ written[f] = NoCase /\ written' = [written EXCEPT ![f] = cmd.case]
          /\ Saved(t, new(f))
    BY DEF SaveFinding
  <1>3. /\ cmd.events \subseteq Events /\ cmd.events \subseteq hand[t].target.events
        /\ cmd.case \in Cases /\ hand[t].target \in Card /\ written \in Places
        /\ Fits(cmd.case, hand[t].target, written)
    BY <1>1, HandIs
  <1>4. f \in DOMAIN written BY <1>3 DEF Places
  <1>5. /\ WithFinding(hand[t].target, f, cmd.events) \in Card
        /\ Fits(cmd.case, WithFinding(hand[t].target, f, cmd.events), written')
    BY <1>2, <1>3, <1>4, WithFindingFits
  <1>6. DOMAIN new(f) \subseteq Cases
        /\ \A c \in DOMAIN new(f) : new(f)[c] \in Card /\ Fits(c, new(f)[c], written')
    BY <1>3, <1>5
  <1>7. WrittenLater BY <1>2, <1>3 DEF WrittenLater
  <1> HIDE DEF new
  <1> QED BY <1>1, <1>2, <1>6, <1>7, SavedFits

LEMMA SaveMergedStep ==
  ASSUME IInv, NEW t \in Threads, SaveMerged(t)
  PROVE  IInv'
  <1> DEFINE cmd    == CommandOf(t)
             target == MergedTarget(hand[t].target, cmd.from, hand[t].source, hand[t].req)
             source == MergedSource(hand[t].source, cmd.case)
             new    == [c \in {cmd.case, cmd.from} |-> IF c = cmd.case THEN target ELSE source]
  <1>1. hand[t].pc = "save" /\ written' = written /\ Saved(t, new) BY DEF SaveMerged
  <1>2. /\ cmd.case \in Cases /\ cmd.from \in Cases /\ hand[t].req \in Requests
        /\ hand[t].target \in Card /\ Fits(cmd.case, hand[t].target, written)
        /\ hand[t].source \in Card /\ Fits(cmd.from, hand[t].source, written)
    BY <1>1, HandIs
  <1>3. target \in Card /\ Fits(cmd.case, target, written) BY <1>2, MergedTargetFits
  <1>4. source \in Card /\ Fits(cmd.from, source, written) BY <1>2, MergedSourceFits
  <1> HIDE DEF target, source
  <1>5. DOMAIN new \subseteq Cases
        /\ \A c \in DOMAIN new : new[c] \in Card /\ Fits(c, new[c], written')
    BY <1>1, <1>2, <1>3, <1>4
  <1>6. WrittenLater BY <1>1 DEF WrittenLater
  <1> HIDE DEF new
  <1> QED BY <1>1, <1>5, <1>6, SavedFits

LEMMA SaveSplitStep ==
  ASSUME IInv, NEW t \in Threads, SaveSplit(t)
  PROVE  IInv'
  <1> DEFINE cmd       == CommandOf(t)
             card      == hand[t].target
             part      == SplitChild(card, cmd.case, cmd.events, hand[t].req)
             rest(kid) == SplitSource(card, cmd.case, kid, cmd.events, hand[t].req)
             new(kid)  == [c \in {cmd.case, kid} |-> IF c = kid THEN part ELSE rest(kid)]
  <1>1. hand[t].pc = "save" /\ cmd.kind = "split" /\ written' = written BY DEF SaveSplit
  <1>2. PICK kid \in Cases \ {cmd.case} : Saved(t, new(kid)) BY DEF SaveSplit
  <1>3. /\ cmd.case \in Cases /\ hand[t].req \in Requests
        /\ card \in Card /\ Fits(cmd.case, card, written)
        /\ cmd.events \subseteq Events /\ cmd.events \subseteq card.events
    BY <1>1, HandIs
  <1>4. part \in Card /\ Fits(kid, part, written) BY <1>3, SplitChildFits
  <1>5. rest(kid) \in Card /\ Fits(cmd.case, rest(kid), written) BY <1>3, SplitSourceFits
  <1> HIDE DEF part, rest
  <1>6. DOMAIN new(kid) \subseteq Cases
        /\ \A c \in DOMAIN new(kid) : new(kid)[c] \in Card /\ Fits(c, new(kid)[c], written')
    BY <1>1, <1>3, <1>4, <1>5
  <1>7. WrittenLater BY <1>1 DEF WrittenLater
  <1> HIDE DEF new
  <1> QED BY <1>1, <1>2, <1>6, <1>7, SavedFits

LEMMA RecordStep ==
  ASSUME IInv, NEW t \in Threads, Record(t)
  PROVE  IInv'
  <1>1. /\ hand[t].pc = "record"
        /\ UNCHANGED <<cards, sent, written, changes, raced, sends, deaths>>
    BY DEF Record
  <1>2. PICK c \in hand[t].left :
          /\ ledger' = ledger \cup {<<hand[t].req, c>>}
          /\ \/ Answer(t)
             \/ GoOn(t, "record", NoCard, NoCard, hand[t].left \ {c}) /\ answered' = answered
    BY DEF Record
  <1>3. /\ hand[t].req \in Requests /\ hand[t].left \subseteq Cases /\ written \in Places
        /\ CommandOf(t).case \in Cases /\ CommandOf(t).from \in Cases
    BY <1>1, HandIs
  <1>4. ledger' \subseteq Requests \X Cases BY <1>2, <1>3 DEF IInv, TypeOK
  <1>5. CASE Answer(t)
    <2>1. answered' \subseteq Requests BY <1>3, <1>5 DEF Answer, IInv, TypeOK
    <2> QED BY <1>1, <1>4, <1>5, <2>1, LetGo DEF Answer
  <1>6. CASE GoOn(t, "record", NoCard, NoCard, hand[t].left \ {c}) /\ answered' = answered
    <2>1. hand[t].left \ {c} \in SUBSET Cases BY <1>3
    <2>2. NoCard \in Card /\ Fits(CommandOf(t).case, NoCard, written)
          /\ Fits(CommandOf(t).from, NoCard, written)
      BY <1>3, NoCardFits DEF Places
    <2> QED BY <1>1, <1>4, <1>6, <2>1, <2>2, ReadsOn
  <1> QED BY <1>2, <1>5, <1>6

LEMMA DiedStep ==
  ASSUME IInv, Died
  PROVE  IInv'
  <1>1. hand' = [t \in Threads |-> Idle] /\ deaths < MaxDeaths /\ deaths' = deaths + 1
        /\ UNCHANGED <<cards, sent, written, ledger, changes, answered, raced, sends>>
    BY DEF Died
  <1>2. TypeOK BY DEF IInv
  <1>3. hand' \in [Threads -> {Idle} \cup Busy] /\ \A u \in Threads : hand'[u] = Idle
    BY <1>1
  <1>4. deaths' \in 0 .. MaxDeaths BY <1>1, <1>2, ManualCorrelationAssumption DEF TypeOK
  <1>5. /\ sent' \in [Requests -> Commands \cup {NoCommand}]
        /\ ledger' \subseteq Requests \X Cases /\ answered' \subseteq Requests
        /\ raced' \subseteq Cases /\ sends' \in 0 .. MaxSends
    BY <1>1, <1>2 DEF TypeOK
  <1> QED BY <1>1, <1>3, <1>4, <1>5, QuietStep

LEMMA InitStep == Init => IInv
  <1> SUFFICES ASSUME Init PROVE IInv
    OBVIOUS
  <1>1. TypeOK
    BY ManualCorrelationAssumption DEF Init, TypeOK
  <1>2. EvidenceBelongs /\ OriginIsTrue
    <2>1. \A c \in Cases : EvidenceFits(FirstCards[c]) /\ OriginFits(c, FirstCards[c], WrittenIn)
      BY ManualCorrelationAssumption
    <2>2. cards = FirstCards /\ written = WrittenIn BY DEF Init
    <2> QED BY <2>1, <2>2 DEF EvidenceBelongs, OriginIsTrue
  <1> QED BY <1>1, <1>2 DEF IInv, Init

LEMMA NextStep == IInv /\ [Next]_vars => IInv'
  <1> SUFFICES ASSUME IInv, [Next]_vars PROVE IInv'
    OBVIOUS
  <1>1. CASE Died BY <1>1, DiedStep
  <1>2. ASSUME NEW t \in Threads, Serve(t)
        PROVE  IInv'
    <2>1. ASSUME NEW r \in Requests, Send(t, r) PROVE IInv' BY <2>1, SendStep
    <2>2. CASE ReadTarget(t) BY <2>2, ReadTargetStep
    <2>3. CASE ReadSource(t) BY <2>3, ReadSourceStep
    <2>4. CASE ReadRelated(t) BY <2>4, ReadRelatedStep
    <2>5. CASE SaveAttached(t) BY <2>5, SaveAttachedStep
    <2>6. CASE SaveDetached(t) BY <2>6, SaveDetachedStep
    <2>7. CASE SaveFinding(t) BY <2>7, SaveFindingStep
    <2>8. CASE SaveMerged(t) BY <2>8, SaveMergedStep
    <2>9. CASE SaveSplit(t) BY <2>9, SaveSplitStep
    <2>10. CASE Record(t) BY <2>10, RecordStep
    <2> QED BY <1>2, <2>1, <2>2, <2>3, <2>4, <2>5, <2>6, <2>7, <2>8, <2>9, <2>10 DEF Serve
  <1>3. CASE UNCHANGED vars
    <2>1. \A t \in Threads : HandFits(t)' <=> HandFits(t)
      BY <1>3 DEF vars, HandFits, CommandOf
    <2>2. TypeOK' /\ EvidenceBelongs' /\ OriginIsTrue'
      BY <1>3 DEF vars, IInv, TypeOK, EvidenceBelongs, OriginIsTrue
    <2> QED BY <1>3, <2>1, <2>2 DEF IInv, vars
  <1> QED BY <1>1, <1>2, <1>3 DEF Next

-----------------------------------------------------------------------------
(* The results.                                                             *)

(* The inductive invariant: the cards in the store and those in the hands of  *)
(* threads fit, and a command is saved only after the checks of its kind.     *)
THEOREM Inductive == Spec => []IInv
  BY InitStep, NextStep, PTL DEF Spec

(* Every variable keeps its type; a case holds known events only.            *)
THEOREM TypeCorrect == Spec => []TypeOK
  <1>1. IInv => TypeOK BY DEF IInv
  <1> QED BY <1>1, Inductive, PTL

(* Evidence that still stands is about events of its case, however many       *)
(* requests read and save the cases at the same time, and whoever dies.       *)
THEOREM EvidenceStaysWithEvents == Spec => []EvidenceBelongs
  <1>1. IInv => EvidenceBelongs BY DEF IInv
  <1> QED BY <1>1, Inductive, PTL

(* A finding always names the case it was written in, unless it is there.     *)
THEOREM OriginStaysTrue == Spec => []OriginIsTrue
  <1>1. IInv => OriginIsTrue BY DEF IInv
  <1> QED BY <1>1, Inductive, PTL

-----------------------------------------------------------------------------
(***************************************************************************)
(* What repeated and concurrent requests do to cases that one request at a   *)
(* time works on: a correction takes effect once, and nothing a case had is  *)
(* left behind.                                                              *)
(***************************************************************************)


(* The inductive invariant without IInv, of which ManualCorrelationProofs     *)
(* shows that it is kept.                                                  *)
LEMMA AloneParts ==
  ASSUME IInv', RacedInv', EffectsInv',
         \A c \in Cases : cards'[c].status = "none" => cards'[c] = NoCard,
         \A u \in Threads : hand'[u] # Idle => CopiesInv(u)' /\ RepeatInv(u)'
  PROVE  AloneInv'
  BY DEF AloneInv

LEMMA CommandKinds ==
  ASSUME NEW cmd \in Commands
  PROVE  /\ cmd.kind \in {"attach", "detach", "finding", "merge", "split"}
         /\ cmd # NoCommand /\ cmd.case \in Involved(cmd)
         /\ cmd.kind = "merge" => cmd.from \in Involved(cmd)
  BY CommandIs, ManualCorrelationAssumption DEF Command, Involved

(* CopyOf in the next state, of a card that is in hand now.                   *)
CopyNext(c, card) ==
  /\ cards'[c].status # "none" /\ card.status # "none"
  /\ SplitBy(card) = SplitBy(cards'[c])
  /\ c \notin raced' => card = cards'[c]

(* Whatever a thread reads, as long as it says how its copies were read.      *)
LEMMA ReadKeepsAlone ==
  ASSUME AloneInv, IInv', NEW t \in Threads, UNCHANGED <<cards, sent, changes, raced>>,
         \A u \in Threads : u # t => hand'[u] = hand[u],
         hand'[t] # Idle => /\ hand[t] # Idle /\ hand'[t].req = hand[t].req
                            /\ CopiesInv(t)' /\ RepeatInv(t)'
  PROVE  AloneInv'
  <1>1. \A u \in Threads : hand'[u] # Idle => hand[u] # Idle /\ CommandOf(u)' = CommandOf(u)
    BY DEF CommandOf
  <1>2. RacedInv' BY <1>1 DEF AloneInv, RacedInv
  <1>3. EffectsInv'
    BY DEF AloneInv, EffectsInv, Undisturbed, Marked, SplitOff
  <1>4. \A c \in Cases : cards'[c].status = "none" => cards'[c] = NoCard
    BY DEF AloneInv
  <1>5. ASSUME NEW u \in Threads, hand'[u] # Idle PROVE CopiesInv(u)' /\ RepeatInv(u)'
    <2>1. CASE u = t BY <1>5, <2>1
    <2>2. CASE u # t
      <3>1. hand'[u] = hand[u] /\ CopiesInv(u) /\ RepeatInv(u) /\ CommandOf(u)' = CommandOf(u)
        BY <1>1, <1>5, <2>2 DEF AloneInv
      <3>2. CopiesInv(u)' BY <3>1 DEF CopiesInv, CopyOf
      <3>3. RepeatInv(u)' BY <3>1 DEF RepeatInv, Undisturbed, SplitOff
      <3> QED BY <3>2, <3>3
    <2> QED BY <2>1, <2>2
  <1> QED BY <1>2, <1>3, <1>4, <1>5, AloneParts

(* A thread lets its request go.                                            *)
LEMMA LetGoAlone ==
  ASSUME AloneInv, IInv', NEW t \in Threads, hand' = [hand EXCEPT ![t] = Idle],
         UNCHANGED <<cards, sent, changes, raced>>
  PROVE  AloneInv'
  <1>1. hand'[t] = Idle /\ \A u \in Threads : u # t => hand'[u] = hand[u]
    BY DEF AloneInv, IInv, TypeOK
  <1> QED BY <1>1, ReadKeepsAlone

(* A thread goes on with the copies it has read.                             *)
LEMMA GoesOn ==
  ASSUME IInv, NEW t \in Threads, hand[t].pc # "idle", NEW pc, NEW target, NEW source, NEW left,
         GoOn(t, pc, target, source, left), sent' = sent
  PROVE  /\ hand'[t].pc = pc /\ hand'[t].req = hand[t].req /\ hand'[t].target = target
         /\ hand'[t].source = source /\ hand'[t].left = left
         /\ hand[t] # Idle /\ CommandOf(t)' = CommandOf(t)
         /\ \A u \in Threads : u # t => hand'[u] = hand[u]
  <1> DEFINE h == [pc |-> pc, req |-> hand[t].req, target |-> target, source |-> source, left |-> left]
  <1>1. hand' = [hand EXCEPT ![t] = h] /\ hand \in [Threads -> {Idle} \cup Busy]
    BY DEF GoOn, IInv, TypeOK
  <1>2. hand'[t] = h /\ \A u \in Threads : u # t => hand'[u] = hand[u] BY <1>1
  <1>3. hand'[t].req = hand[t].req BY <1>2
  <1> QED BY <1>2, <1>3 DEF CommandOf, Idle

LEMMA AloneReadTarget ==
  ASSUME AloneInv, IInv', NEW t \in Threads, ReadTarget(t)
  PROVE  AloneInv'
  <1> DEFINE cmd  == CommandOf(t)
             card == cards[cmd.case]
             r    == hand[t].req
             pc   == CASE cmd.kind = "merge" -> "source"
                       [] cmd.kind = "split" -> "child"
                       [] OTHER -> "save"
  <1>1. hand[t].pc = "target" /\ UNCHANGED <<cards, sent, changes, raced>>
    BY DEF ReadTarget
  <1>2. /\ IInv /\ cmd \in Commands /\ cmd = sent[r] /\ r \in Requests /\ cmd.case \in Cases
        /\ cmd.kind \in {"attach", "detach", "finding", "merge", "split"} /\ cmd # NoCommand
        /\ changes[r] \in Nat
    BY <1>1, HandIs, CommandKinds DEF AloneInv, IInv, TypeOK, CommandOf
  <1>3. \/ hand' = [hand EXCEPT ![t] = Idle]
        \/ /\ ~Settled(cmd, r, card) /\ ~Invalid(cmd, card)
           /\ GoOn(t, pc, card, NoCard, card.related)
    BY DEF ReadTarget, Answer, Refuse
  <1>4. CASE hand' = [hand EXCEPT ![t] = Idle] BY <1>1, <1>4, LetGoAlone
  <1>5. CASE ~Settled(cmd, r, card) /\ ~Invalid(cmd, card) /\ GoOn(t, pc, card, NoCard, card.related)
    <2> HIDE DEF pc, card, cmd, r
    <2>1. /\ hand'[t].pc = pc /\ hand'[t].req = r /\ hand'[t].target = card
          /\ hand'[t].left = card.related /\ hand[t] # Idle /\ CommandOf(t)' = cmd
          /\ \A u \in Threads : u # t => hand'[u] = hand[u]
      BY <1>1, <1>2, <1>5, GoesOn DEF r, cmd
    <2>2. card.status # "none" BY <1>5 DEF Invalid
    <2>3. CopyNext(cmd.case, card) BY <1>1, <2>2 DEF CopyNext, CopyOf, card, cmd
    <2>4. pc = "save" => cmd.kind # "merge" BY DEF pc
    <2>5. CopiesInv(t)' BY <2>1, <2>3, <2>4 DEF CopiesInv, CopyOf, CopyNext
    <2>6. ASSUME Undisturbed(r)
          PROVE  /\ pc \in {"source", "save"} => changes[r] = 0
                 /\ pc = "child" /\ changes[r] = 1 => \E c \in card.related : SplitOff(r, c)
      <3>1. changes[r] <= 1 /\ (changes[r] = 1 => Marked(r)) /\ cmd.kind # "finding"
        BY <1>2, <2>6 DEF AloneInv, EffectsInv, Undisturbed
      <3>2. cmd.kind \in {"attach", "detach", "merge"} => ~Marked(r)
        BY <1>2, <1>5, <2>2 DEF Settled, Marked, card
      <3>3. cmd.kind = "split" /\ Marked(r) => \E c \in card.related : SplitOff(r, c)
        BY <1>2 DEF Marked, card
      <3>4. pc = "child" <=> cmd.kind = "split" BY DEF pc
      <3>5. changes[r] = 0 \/ changes[r] = 1 BY <1>2, <3>1
      <3>6. pc \in {"source", "save"} => cmd.kind # "split" BY DEF pc
      <3> QED BY <1>2, <3>1, <3>2, <3>3, <3>4, <3>5, <3>6
    <2>7. RepeatInv(t)'
      BY <1>1, <2>1, <2>6 DEF RepeatInv, Undisturbed, SplitOff
    <2> QED BY <1>1, <2>1, <2>5, <2>7, ReadKeepsAlone DEF r
  <1> QED BY <1>3, <1>4, <1>5

LEMMA AloneReadSource ==
  ASSUME AloneInv, IInv', NEW t \in Threads, ReadSource(t)
  PROVE  AloneInv'
  <1> DEFINE cmd    == CommandOf(t)
             source == cards[cmd.from]
             target == hand[t].target
             r      == hand[t].req
  <1>1. hand[t].pc = "source" /\ UNCHANGED <<cards, sent, changes, raced>>
    BY DEF ReadSource
  <1>2. IInv /\ hand[t] # Idle /\ CopiesInv(t) /\ RepeatInv(t)
    BY <1>1 DEF AloneInv, Idle
  <1>3. \/ hand' = [hand EXCEPT ![t] = Idle]
        \/ /\ source.status # "none" /\ cmd.from # cmd.case
           /\ GoOn(t, "save", target, source, {})
    BY DEF ReadSource, Answer, Refuse
  <1>4. CASE hand' = [hand EXCEPT ![t] = Idle] BY <1>1, <1>4, LetGoAlone
  <1>5. CASE /\ source.status # "none" /\ cmd.from # cmd.case
             /\ GoOn(t, "save", target, source, {})
    <2> HIDE DEF source, target, cmd, r
    <2>1. /\ hand'[t].pc = "save" /\ hand'[t].req = r /\ hand'[t].target = target
          /\ hand'[t].source = source /\ CommandOf(t)' = cmd
          /\ \A u \in Threads : u # t => hand'[u] = hand[u]
      BY <1>1, <1>2, <1>5, GoesOn DEF r, cmd
    <2>2. CopyNext(cmd.case, target) BY <1>1, <1>2 DEF CopyNext, CopiesInv, CopyOf, cmd, target
    <2>3. CopyNext(cmd.from, source) BY <1>1, <1>5 DEF CopyNext, CopyOf, cmd, source
    <2>4. CopiesInv(t)' BY <1>5, <2>1, <2>2, <2>3 DEF CopiesInv, CopyOf, CopyNext
    <2>5. RepeatInv(t)' BY <1>1, <1>2, <2>1 DEF RepeatInv, Undisturbed, r
    <2> QED BY <1>1, <1>2, <2>1, <2>4, <2>5, ReadKeepsAlone DEF r
  <1> QED BY <1>3, <1>4, <1>5

LEMMA AloneReadRelated ==
  ASSUME AloneInv, IInv', NEW t \in Threads, ReadRelated(t)
  PROVE  AloneInv'
  <1> DEFINE cmd    == CommandOf(t)
             target == hand[t].target
             r      == hand[t].req
             left   == hand[t].left
  <1>1. hand[t].pc = "child" /\ UNCHANGED <<cards, sent, changes, raced>>
    BY DEF ReadRelated
  <1>2. /\ IInv /\ hand[t] # Idle /\ CopiesInv(t) /\ RepeatInv(t) /\ HandFits(t)
        /\ r \in Requests /\ changes[r] \in Nat
    BY <1>1, HandIs DEF AloneInv, Idle, IInv, TypeOK
  <1>3. cmd.kind = "split" BY <1>1, <1>2 DEF HandFits
  <1>4. \/ hand' = [hand EXCEPT ![t] = Idle]
        \/ \E c \in left : /\ <<"manual_split", r>> \notin cards[c].evidence
                           /\ GoOn(t, "child", target, NoCard, left \ {c})
        \/ left = {} /\ GoOn(t, "save", target, NoCard, {})
    BY DEF ReadRelated, Answer, Refuse
  <1>5. CASE hand' = [hand EXCEPT ![t] = Idle] BY <1>1, <1>5, LetGoAlone
  <1>6. ASSUME NEW pc \in {"child", "save"}, NEW rest, GoOn(t, pc, target, NoCard, rest),
               Undisturbed(r) =>
                 /\ pc = "save" => changes[r] = 0
                 /\ pc = "child" /\ changes[r] = 1 => \E c \in rest : SplitOff(r, c)
        PROVE  AloneInv'
    <2> HIDE DEF target, cmd, r, left
    <2>1. /\ hand'[t].pc = pc /\ hand'[t].req = r /\ hand'[t].target = target
          /\ hand'[t].left = rest /\ CommandOf(t)' = cmd
          /\ \A u \in Threads : u # t => hand'[u] = hand[u]
      BY <1>1, <1>2, <1>6, GoesOn DEF r, cmd
    <2>2. CopyNext(cmd.case, target) BY <1>1, <1>2 DEF CopyNext, CopiesInv, CopyOf, cmd, target
    <2>3. CopiesInv(t)' BY <1>3, <2>1, <2>2 DEF CopiesInv, CopyOf, CopyNext
    <2>4. RepeatInv(t)' BY <1>1, <1>6, <2>1 DEF RepeatInv, Undisturbed, SplitOff
    <2> QED BY <1>1, <1>2, <2>1, <2>3, <2>4, ReadKeepsAlone DEF r
  <1>7. ASSUME NEW c \in left, <<"manual_split", r>> \notin cards[c].evidence,
               GoOn(t, "child", target, NoCard, left \ {c})
        PROVE  AloneInv'
    <2>1. Undisturbed(r) /\ changes[r] = 1 => \E d \in left \ {c} : SplitOff(r, d)
      BY <1>1, <1>2, <1>7 DEF RepeatInv, SplitOff, SplitBy
    <2> HIDE DEF target, cmd, r, left
    <2> QED BY <1>6, <1>7, <2>1
  <1>8. CASE left = {} /\ GoOn(t, "save", target, NoCard, {})
    <2>1. Undisturbed(r) => changes[r] = 0
      <3>1. Undisturbed(r) => changes[r] <= 1 BY <1>2 DEF AloneInv, EffectsInv
      <3>2. Undisturbed(r) => changes[r] # 1 BY <1>1, <1>2, <1>8 DEF RepeatInv
      <3> QED BY <1>2, <3>1, <3>2
    <2> HIDE DEF target, cmd, r, left
    <2> QED BY <1>6, <1>8, <2>1
  <1> QED BY <1>4, <1>5, <1>7, <1>8

(* A request that comes while another has its case in hand races it.          *)
LEMMA AloneSend ==
  ASSUME AloneInv, IInv', NEW t \in Threads, NEW r \in Requests, Send(t, r)
  PROVE  AloneInv'
  <1> DEFINE h == [pc |-> "target", req |-> r, target |-> NoCard, source |-> NoCard, left |-> {}]
  <1>1. PICK cmd \in Commands :
          /\ sent[r] \in {NoCommand, cmd} /\ sent' = [sent EXCEPT ![r] = cmd]
          /\ raced' = raced \cup {c \in Involved(cmd) :
                \E u \in Threads : hand[u] # Idle /\ c \in Involved(sent[hand[u].req])}
    BY DEF Send
  <1>2. /\ hand[t] = Idle /\ hand' = [hand EXCEPT ![t] = h] /\ UNCHANGED <<cards, changes>>
    BY DEF Send
  <1>3. IInv /\ TypeOK BY DEF AloneInv, IInv
  <1>4. h.pc = "target" /\ h.req = r OBVIOUS
  <1> HIDE DEF h
  <1>5. hand'[t] = h /\ \A u \in Threads : u # t => hand'[u] = hand[u]
    BY <1>2, <1>3 DEF TypeOK
  <1>6. /\ sent'[r] = cmd /\ \A q \in Requests : q # r => sent'[q] = sent[q]
        /\ \A q \in Requests : sent[q] # NoCommand => sent'[q] = sent[q]
        /\ raced \subseteq raced' /\ cmd # NoCommand
    BY <1>1, <1>3, CommandKinds DEF TypeOK
  <1>7. ASSUME NEW u \in Threads, u # t, hand'[u] # Idle
        PROVE  hand[u] # Idle /\ hand[u].req \in Requests /\ CommandOf(u)' = CommandOf(u)
    <2>1. hand[u] # Idle /\ hand[u].req \in Requests /\ sent[hand[u].req] \in Commands
      BY <1>3, <1>5, <1>7 DEF TypeOK, Busy
    <2>2. sent[hand[u].req] # NoCommand BY <2>1, CommandKinds
    <2> QED BY <1>5, <1>6, <1>7, <2>1, <2>2 DEF CommandOf
  <1>8. CommandOf(t)' = cmd BY <1>4, <1>5, <1>6 DEF CommandOf
  <1>9. ASSUME NEW u \in Threads, u # t, hand'[u] # Idle
        PROVE  Involved(cmd) \cap Involved(CommandOf(u)) \subseteq raced'
    BY <1>1, <1>7, <1>9 DEF CommandOf
  <1>10. RacedInv'
    <2>1. SUFFICES ASSUME NEW u \in Threads, NEW v \in Threads, u # v, hand'[u] # Idle, hand'[v] # Idle
                   PROVE  Involved(CommandOf(u)') \cap Involved(CommandOf(v)') \subseteq raced'
      BY DEF RacedInv, Involved
    <2>2. CASE u = t BY <1>7, <1>8, <1>9, <2>1, <2>2
    <2>3. CASE v = t BY <1>7, <1>8, <1>9, <2>1, <2>3
    <2>4. CASE u # t /\ v # t
      BY <1>6, <1>7, <2>1, <2>4 DEF AloneInv, RacedInv
    <2> QED BY <2>2, <2>3, <2>4
  <1>11. EffectsInv'
    <2>1. SUFFICES ASSUME NEW q \in Requests
                   PROVE  /\ sent'[q] = NoCommand => changes[q] = 0
                          /\ Undisturbed(q)' => changes[q] <= 1 /\ (changes[q] = 1 => Marked(q)')
      BY <1>2 DEF EffectsInv
    <2>2. CASE sent[q] = NoCommand
      <3>1. changes[q] = 0 BY <2>2 DEF AloneInv, EffectsInv
      <3> QED BY <3>1
    <2>3. CASE sent[q] # NoCommand
      <3>1. sent'[q] = sent[q] /\ sent'[q] # NoCommand BY <1>6, <2>3
      <3>2. Undisturbed(q)' => Undisturbed(q) BY <1>6, <3>1 DEF Undisturbed
      <3>3. Undisturbed(q) => changes[q] <= 1 /\ (changes[q] = 1 => Marked(q))
        BY DEF AloneInv, EffectsInv
      <3>4. Marked(q) => Marked(q)' BY <1>2, <3>1 DEF Marked, SplitOff
      <3> QED BY <3>1, <3>2, <3>3, <3>4
    <2> QED BY <2>2, <2>3
  <1>12. \A c \in Cases : cards'[c].status = "none" => cards'[c] = NoCard
    BY <1>2 DEF AloneInv
  <1>13. ASSUME NEW u \in Threads, hand'[u] # Idle PROVE CopiesInv(u)' /\ RepeatInv(u)'
    <2>1. CASE u = t BY <1>4, <1>5, <2>1 DEF CopiesInv, RepeatInv
    <2>2. CASE u # t
      <3>1. /\ hand'[u] = hand[u] /\ hand[u].req \in Requests
            /\ CopiesInv(u) /\ RepeatInv(u) /\ CommandOf(u)' = CommandOf(u)
        BY <1>5, <1>7, <1>13, <2>2 DEF AloneInv
      <3>2. CopiesInv(u)' BY <1>2, <1>6, <3>1 DEF CopiesInv, CopyOf
      <3>3. Undisturbed(hand[u].req)' => Undisturbed(hand[u].req)
        BY <1>6, <3>1 DEF Undisturbed, CommandOf
      <3>4. RepeatInv(u)' BY <1>2, <3>1, <3>3 DEF RepeatInv, SplitOff
      <3> QED BY <3>2, <3>4
    <2> QED BY <2>1, <2>2
  <1> QED BY <1>10, <1>11, <1>12, <1>13, AloneParts

LEMMA AloneRecord ==
  ASSUME AloneInv, IInv', NEW t \in Threads, Record(t)
  PROVE  AloneInv'
  <1>1. hand[t].pc = "record" /\ UNCHANGED <<cards, sent, changes, raced>> BY DEF Record
  <1>2. IInv BY DEF AloneInv
  <1>3. PICK c \in hand[t].left :
          \/ hand' = [hand EXCEPT ![t] = Idle]
          \/ GoOn(t, "record", NoCard, NoCard, hand[t].left \ {c})
    BY DEF Record, Answer
  <1>4. CASE hand' = [hand EXCEPT ![t] = Idle] BY <1>1, <1>4, LetGoAlone
  <1>5. CASE GoOn(t, "record", NoCard, NoCard, hand[t].left \ {c})
    <2>1. /\ hand'[t].pc = "record" /\ hand'[t].req = hand[t].req /\ hand[t] # Idle
          /\ \A u \in Threads : u # t => hand'[u] = hand[u]
      BY <1>1, <1>2, <1>5, GoesOn
    <2>2. CopiesInv(t)' /\ RepeatInv(t)' BY <2>1 DEF CopiesInv, RepeatInv
    <2> QED BY <1>1, <2>1, <2>2, ReadKeepsAlone
  <1> QED BY <1>3, <1>4, <1>5

LEMMA AloneDied ==
  ASSUME AloneInv, IInv', Died
  PROVE  AloneInv'
  <1>1. (\A u \in Threads : hand'[u] = Idle) /\ UNCHANGED <<cards, sent, changes, raced>>
    BY DEF Died
  <1>2. RacedInv' BY <1>1 DEF RacedInv
  <1>3. EffectsInv' BY <1>1 DEF AloneInv, EffectsInv, Undisturbed, Marked, SplitOff
  <1>4. \A c \in Cases : cards'[c].status = "none" => cards'[c] = NoCard BY <1>1 DEF AloneInv
  <1> QED BY <1>1, <1>2, <1>3, <1>4, AloneParts

(* What a save makes of a case: its marks stay, and of a case that was not    *)
(* raced all that later requests look at.                                   *)
Grown(c, card) ==
  /\ cards[c].status # "none" /\ card.status # "none" /\ SplitBy(card) = SplitBy(cards[c])
  /\ c \notin raced => /\ cards[c].evidence \subseteq card.evidence
                       /\ cards[c].related \subseteq card.related

LEMMA SavedKeepsAlone ==
  ASSUME AloneInv, IInv', NEW t \in Threads, hand[t].pc = "save", NEW new,
         DOMAIN new \subseteq Cases, Saved(t, new),
         \A c \in DOMAIN new : \/ cards[c].status = "none" /\ new[c].status # "none"
                               \/ c \in Involved(CommandOf(t)) /\ Grown(c, new[c]),
         \A q \in Requests : q = hand[t].req /\ Undisturbed(q) => Marked(q)'
  PROVE  AloneInv'
  <1> DEFINE r == hand[t].req
  <1>1. /\ IInv /\ TypeOK /\ hand[t] # Idle /\ r \in Requests /\ CommandOf(t) \in Commands
        /\ CommandOf(t) = sent[r] /\ CopiesInv(t) /\ RepeatInv(t) /\ RacedInv /\ EffectsInv
    BY HandIs DEF AloneInv, Idle, IInv, CommandOf
  <1>2. /\ cards' = [c \in Cases |-> IF c \in DOMAIN new THEN new[c] ELSE cards[c]]
        /\ changes' = [changes EXCEPT ![r] = @ + 1] /\ UNCHANGED <<sent, raced>>
        /\ GoOn(t, "record", NoCard, NoCard, DOMAIN new)
    BY DEF Saved
  <1>3. /\ hand'[t].pc = "record" /\ hand'[t].req = r
        /\ \A u \in Threads : u # t => hand'[u] = hand[u]
    BY <1>1, <1>2, GoesOn
  <1>4. \A u \in Threads : hand'[u] # Idle =>
          /\ hand[u] # Idle /\ hand[u].req \in Requests /\ sent[hand[u].req] \in Commands
          /\ CommandOf(u)' = CommandOf(u)
    BY <1>1, <1>2, <1>3 DEF TypeOK, CommandOf, Busy
  <1>5. changes'[r] = changes[r] + 1 /\ changes[r] \in Nat
        /\ \A q \in Requests : q # r => changes'[q] = changes[q]
    BY <1>1, <1>2 DEF TypeOK
  <1> HIDE DEF r
  <1>6. ASSUME NEW c \in Cases
        PROVE  /\ cards[c].status # "none" => Grown(c, cards'[c])
               /\ cards'[c].status = "none" => cards'[c] = NoCard
    <2>1. CASE c \in DOMAIN new
      <3>1. cards'[c] = new[c] BY <1>2, <2>1
      <3> QED BY <2>1, <3>1 DEF Grown
    <2>2. CASE c \notin DOMAIN new
      <3>1. cards'[c] = cards[c] BY <1>2, <2>2
      <3> QED BY <3>1 DEF Grown, AloneInv
    <2> QED BY <2>1, <2>2
  <1>7. ASSUME NEW q \in Requests, NEW c \in Cases, SplitOff(q, c) PROVE SplitOff(q, c)'
    BY <1>6, <1>7 DEF SplitOff, Grown
  <1>8. RacedInv' BY <1>1, <1>2, <1>4 DEF RacedInv
  <1>9. ASSUME NEW q \in Requests, q # r, Undisturbed(q), Marked(q) PROVE Marked(q)'
    <2> DEFINE c == sent[q].case
    <2>1. sent[q] \in Commands BY <1>1, <1>9 DEF Undisturbed, TypeOK
    <2>2. c \in Cases /\ c \notin raced BY <1>9, <2>1, CommandIs, CommandKinds DEF Undisturbed
    <2>3. Grown(c, cards'[c]) BY <1>6, <1>9, <2>2 DEF Marked
    <2>4. /\ cards[c].evidence \subseteq cards'[c].evidence
          /\ cards[c].related \subseteq cards'[c].related /\ cards'[c].status # "none"
      BY <2>2, <2>3 DEF Grown
    <2>5. cards[c].related \subseteq Cases BY <1>1, <2>2, StoreFits
    <2>6. sent'[q] = sent[q] BY <1>2
    <2>7. CASE sent[q].kind = "split"
      <3>1. PICK d \in cards[c].related : SplitOff(q, d) BY <1>9, <2>7 DEF Marked
      <3>2. SplitOff(q, d)' BY <1>7, <2>5, <3>1
      <3> QED BY <2>4, <2>6, <2>7, <3>1, <3>2 DEF Marked
    <2>8. CASE sent[q].kind # "split"
      BY <1>9, <2>4, <2>6, <2>8 DEF Marked
    <2> QED BY <2>7, <2>8
  <1>10. EffectsInv'
    <2>1. SUFFICES ASSUME NEW q \in Requests
                   PROVE  /\ sent[q] = NoCommand => changes'[q] = 0
                          /\ Undisturbed(q) => changes'[q] <= 1 /\ (changes'[q] = 1 => Marked(q)')
      BY <1>2 DEF EffectsInv, Undisturbed
    <2>2. CASE q = r
      <3>1. sent[q] # NoCommand BY <1>1, <2>2, CommandKinds
      <3>2. Undisturbed(q) => changes[q] = 0 BY <1>1, <2>2 DEF RepeatInv, r
      <3>3. Undisturbed(q) => Marked(q)' BY <2>2 DEF r
      <3>4. changes'[q] = changes[q] + 1 BY <1>5, <2>2
      <3> QED BY <3>1, <3>2, <3>3, <3>4
    <2>3. CASE q # r
      BY <1>1, <1>5, <1>9, <2>3 DEF EffectsInv
    <2> QED BY <2>2, <2>3
  <1>11. ASSUME NEW u \in Threads, u # t, hand'[u] # Idle
         PROVE  CopiesInv(u)' /\ RepeatInv(u)'
    <2> DEFINE cmd == CommandOf(u)
    <2>1. /\ hand'[u] = hand[u] /\ hand[u] # Idle /\ CommandOf(u)' = cmd /\ cmd \in Commands
          /\ hand[u].req \in Requests /\ cmd = sent[hand[u].req] /\ CopiesInv(u) /\ RepeatInv(u)
      BY <1>3, <1>4, <1>11 DEF AloneInv, CommandOf
    <2>2. cmd.case \in Cases /\ cmd.from \in Cases /\ cmd.case \in Involved(cmd)
          /\ (cmd.kind = "merge" => cmd.from \in Involved(cmd))
      BY <2>1, CommandIs, CommandKinds
    <2>3. ASSUME NEW c \in Cases, c \in Involved(cmd), NEW card, CopyOf(c, card)
          PROVE  CopyNext(c, card)
      <3>1. Grown(c, cards'[c]) /\ cards[c].status # "none" BY <1>6, <2>3 DEF CopyOf
      <3>2. c \notin raced => c \notin Involved(CommandOf(t))
        BY <1>1, <1>11, <2>1, <2>3 DEF RacedInv
      <3>3. c \notin raced => cards'[c] = cards[c] BY <1>2, <3>1, <3>2
      <3> QED BY <1>2, <2>3, <3>1, <3>3 DEF CopyOf, CopyNext, Grown
    <2>4. CopiesInv(u)'
      <3>1. hand[u].pc \in {"source", "child", "save"} => CopyNext(cmd.case, hand[u].target)
        BY <2>1, <2>2, <2>3 DEF CopiesInv
      <3>2. hand[u].pc = "save" /\ cmd.kind = "merge" =>
              CopyNext(cmd.from, hand[u].source) /\ cmd.from # cmd.case
        BY <2>1, <2>2, <2>3 DEF CopiesInv
      <3> QED BY <2>1, <3>1, <3>2 DEF CopiesInv, CopyOf, CopyNext
    <2>5. Undisturbed(hand[u].req) => hand[u].req # r
      <3>1. cmd.case \in Involved(cmd) /\ cmd.case \in Involved(sent[r]) => cmd.case \in raced
        BY <1>1, <1>11, <2>1 DEF RacedInv
      <3> QED BY <2>1, <2>2, <3>1 DEF Undisturbed
    <2>6. hand[u].left \subseteq Cases BY <1>1, <2>1 DEF TypeOK, Busy
    <2>7. RepeatInv(u)'
      BY <1>2, <1>5, <1>7, <2>1, <2>5, <2>6 DEF RepeatInv, Undisturbed
    <2> QED BY <2>4, <2>7
  <1>12. CopiesInv(t)' /\ RepeatInv(t)' BY <1>3 DEF CopiesInv, RepeatInv
  <1> QED BY <1>6, <1>8, <1>10, <1>11, <1>12, AloneParts

(* What a correction leaves as it was in the card it has read.               *)
LEMMA OperationsKeep ==
  ASSUME NEW card \in Card, NEW c \in Cases, NEW d \in Cases, NEW r \in Requests
  PROVE  /\ \A e : LET new == Attached(card, e, r) IN
                     /\ new.status = card.status /\ new.related = card.related
                     /\ new.evidence = card.evidence \cup {<<"manual_attach", r>>}
                     /\ new.events = card.events \cup {e} /\ new.findings = card.findings
         /\ \A e : LET new == Detached(card, c, e, r) IN
                     /\ new.status = card.status /\ new.related = card.related
                     /\ new.evidence = card.evidence \cup {<<"manual_detach", r>>}
                     /\ DOMAIN new.findings = DOMAIN card.findings
         /\ \A f, events : LET new == WithFinding(card, f, events) IN
                     /\ new.status = card.status /\ new.related = card.related
                     /\ new.evidence = card.evidence /\ new.events = card.events
                     /\ DOMAIN new.findings = DOMAIN card.findings \cup {f}
         /\ \A source \in Card : LET new == MergedTarget(card, d, source, r) IN
                     /\ new.status = card.status /\ new.related = card.related \cup {d}
                     /\ new.evidence = card.evidence \cup {<<"manual_merge", r>>}
                     /\ new.events = card.events \cup source.events
                     /\ new.observed = card.observed \cup source.observed
                     /\ new.hits = card.hits \cup source.hits
                     /\ DOMAIN new.findings = DOMAIN card.findings \cup DOMAIN source.findings
         /\ LET new == MergedSource(card, c) IN
                     /\ new.status = "merged" /\ new.related = card.related \cup {c}
                     /\ new.evidence = card.evidence /\ new.events = card.events
                     /\ new.findings = card.findings
         /\ \A events : LET new == SplitSource(card, c, d, events, r) IN
                     /\ new.status = card.status /\ new.related = card.related \cup {d}
                     /\ new.evidence = card.evidence \cup {<<"manual_split_source", r>>}
                     /\ new.events = card.events \ events
                     /\ DOMAIN new.findings = DOMAIN card.findings \ Moving(card, events)
         /\ \A events : LET new == SplitChild(card, c, events, r) IN
                     /\ new.status = "open" /\ new.evidence = {<<"manual_split", r>>}
                     /\ new.events = events /\ DOMAIN new.findings = Moving(card, events)
  <1>1. \A e : LET new == Attached(card, e, r) IN
          /\ new.status = card.status /\ new.related = card.related
          /\ new.evidence = card.evidence \cup {<<"manual_attach", r>>}
          /\ new.events = card.events \cup {e} /\ new.findings = card.findings
    BY AttachedIs
  <1>2. \A e : LET new == Detached(card, c, e, r) IN
          /\ new.status = card.status /\ new.related = card.related
          /\ new.evidence = card.evidence \cup {<<"manual_detach", r>>}
          /\ DOMAIN new.findings = DOMAIN card.findings
    BY DEF Detached
  <1>3. \A f, events : LET new == WithFinding(card, f, events) IN
          /\ new.status = card.status /\ new.related = card.related
          /\ new.evidence = card.evidence /\ new.events = card.events
          /\ DOMAIN new.findings = DOMAIN card.findings \cup {f}
    <2>1. ASSUME NEW f, NEW events
          PROVE  LET new == WithFinding(card, f, events) IN
                 /\ new.status = card.status /\ new.related = card.related
                 /\ new.evidence = card.evidence /\ new.events = card.events
                 /\ DOMAIN new.findings = DOMAIN card.findings \cup {f}
      <3> DEFINE book == [g \in DOMAIN card.findings \cup {f} |->
                 IF g = f THEN [events |-> events, historical |-> FALSE, origin |-> NoCase]
                 ELSE card.findings[g]]
      <3>1. DOMAIN book = DOMAIN card.findings \cup {f} OBVIOUS
      <3>2. WithFinding(card, f, events) = [card EXCEPT !.findings = book]
        BY CardIs DEF WithFinding
      <3> HIDE DEF book
      <3> QED BY <3>1, <3>2, CardIs
    <2> QED BY <2>1
  <1>4. \A source \in Card : LET new == MergedTarget(card, d, source, r) IN
          /\ new.status = card.status /\ new.related = card.related \cup {d}
          /\ new.evidence = card.evidence \cup {<<"manual_merge", r>>}
          /\ new.events = card.events \cup source.events
          /\ new.observed = card.observed \cup source.observed
          /\ new.hits = card.hits \cup source.hits
          /\ DOMAIN new.findings = DOMAIN card.findings \cup DOMAIN source.findings
    BY DEF MergedTarget
  <1>5. LET new == MergedSource(card, c) IN
          /\ new.status = "merged" /\ new.related = card.related \cup {c}
          /\ new.evidence = card.evidence /\ new.events = card.events
          /\ new.findings = card.findings
    BY MergedSourceIs
  <1>6. \A events : LET new == SplitSource(card, c, d, events, r) IN
          /\ new.status = card.status /\ new.related = card.related \cup {d}
          /\ new.evidence = card.evidence \cup {<<"manual_split_source", r>>}
          /\ new.events = card.events \ events
          /\ DOMAIN new.findings = DOMAIN card.findings \ Moving(card, events)
    BY DEF SplitSource
  <1>7. \A events : LET new == SplitChild(card, c, events, r) IN
          /\ new.status = "open" /\ new.evidence = {<<"manual_split", r>>}
          /\ new.events = events /\ DOMAIN new.findings = Moving(card, events)
    BY DEF SplitChild
  <1> QED BY <1>1, <1>2, <1>3, <1>4, <1>5, <1>6, <1>7

(* What a correction makes of the one case it has in hand.                   *)
LEMMA SavedOneAlone ==
  ASSUME AloneInv, IInv', NEW t \in Threads, hand[t].pc = "save", NEW new,
         CommandOf(t).kind \notin {"merge", "split"},
         DOMAIN new = {CommandOf(t).case}, Saved(t, new),
         \A card : card = new[CommandOf(t).case] =>
           /\ card.status = hand[t].target.status /\ SplitBy(card) = SplitBy(hand[t].target)
           /\ hand[t].target.evidence \subseteq card.evidence
           /\ hand[t].target.related \subseteq card.related
           /\ CommandOf(t).kind # "finding" =>
                \E rule \in Rules : <<rule, hand[t].req>> \in card.evidence
  PROVE  AloneInv'
  <1> DEFINE cmd == CommandOf(t)
             card == new[cmd.case]
             target == hand[t].target
  <1>1. /\ IInv /\ cmd \in Commands /\ cmd.case \in Cases /\ cmd.case \in Involved(cmd)
        /\ hand[t] # Idle /\ CopiesInv(t)
    BY HandIs, CommandKinds DEF AloneInv, Idle
  <1>2. /\ card.status = target.status /\ SplitBy(card) = SplitBy(target)
        /\ target.evidence \subseteq card.evidence /\ target.related \subseteq card.related
        /\ cmd.kind # "finding" => \E rule \in Rules : <<rule, hand[t].req>> \in card.evidence
    OBVIOUS
  <1>3. CopyOf(cmd.case, target) BY <1>1 DEF CopiesInv
  <1>4. Grown(cmd.case, card)
    <2> HIDE DEF card, cmd, target
    <2> QED BY <1>2, <1>3 DEF Grown, CopyOf
  <1>5. \A c \in DOMAIN new : c \in Involved(cmd) /\ Grown(c, new[c])
    BY <1>1, <1>4
  <1>6. ASSUME NEW q \in Requests, q = hand[t].req, Undisturbed(q) PROVE Marked(q)'
    <2>1. sent' = sent /\ cards' = [c \in Cases |-> IF c \in DOMAIN new THEN new[c] ELSE cards[c]]
      BY DEF Saved
    <2>2. cards'[cmd.case] = card BY <1>1, <2>1
    <2>3. sent'[q] = cmd BY <1>6, <2>1 DEF CommandOf
    <2>4. cmd.kind # "finding" /\ cmd.kind # "split" BY <1>6 DEF Undisturbed, CommandOf
    <2>5. card.status # "none" BY <1>4 DEF Grown
    <2> HIDE DEF card, cmd, target
    <2> QED BY <1>2, <1>6, <2>2, <2>3, <2>4, <2>5 DEF Marked
  <1>7. DOMAIN new \subseteq Cases BY <1>1
  <1> QED BY <1>5, <1>6, <1>7, SavedKeepsAlone

LEMMA AloneSaveAttached ==
  ASSUME AloneInv, IInv', NEW t \in Threads, SaveAttached(t)
  PROVE  AloneInv'
  <1> DEFINE cmd == CommandOf(t)
             target == hand[t].target
             r == hand[t].req
             Changed(e) == Attached(target, e, r)
             new(e) == [c \in {cmd.case} |-> Changed(e)]
  <1>1. hand[t].pc = "save" /\ cmd.kind = "attach" BY DEF SaveAttached
  <1>2. PICK e \in cmd.events : Saved(t, new(e)) BY DEF SaveAttached
  <1>3. target \in Card /\ cmd.case \in Cases /\ r \in Requests BY <1>1, HandIs DEF AloneInv
  <1>4. /\ Changed(e).status = target.status /\ Changed(e).related = target.related
        /\ Changed(e).evidence = target.evidence \cup {<<"manual_attach", r>>}
    BY <1>3, OperationsKeep
  <1>5. DOMAIN new(e) = {cmd.case} /\ new(e)[cmd.case] = Changed(e) OBVIOUS
  <1> HIDE DEF new, Changed, target, r
  <1>6. SplitBy(Changed(e)) = SplitBy(target) BY <1>4 DEF SplitBy
  <1>7. \E rule \in Rules : <<rule, r>> \in Changed(e).evidence BY <1>4 DEF Rules
  <1> QED BY <1>1, <1>2, <1>4, <1>5, <1>6, <1>7, SavedOneAlone DEF target, r

LEMMA AloneSaveDetached ==
  ASSUME AloneInv, IInv', NEW t \in Threads, SaveDetached(t)
  PROVE  AloneInv'
  <1> DEFINE cmd == CommandOf(t)
             target == hand[t].target
             r == hand[t].req
             Changed(e) == Detached(target, cmd.case, e, r)
             new(e) == [c \in {cmd.case} |-> Detached(target, c, e, r)]
  <1>1. hand[t].pc = "save" /\ cmd.kind = "detach" BY DEF SaveDetached
  <1>2. PICK e \in cmd.events : Saved(t, new(e)) BY DEF SaveDetached
  <1>3. target \in Card /\ cmd.case \in Cases /\ r \in Requests BY <1>1, HandIs DEF AloneInv
  <1>4. /\ Changed(e).status = target.status /\ Changed(e).related = target.related
        /\ Changed(e).evidence = target.evidence \cup {<<"manual_detach", r>>}
    BY <1>3, OperationsKeep
  <1>5. DOMAIN new(e) = {cmd.case} /\ new(e)[cmd.case] = Changed(e) OBVIOUS
  <1> HIDE DEF new, Changed, target, r
  <1>6. SplitBy(Changed(e)) = SplitBy(target) BY <1>4 DEF SplitBy
  <1>7. \E rule \in Rules : <<rule, r>> \in Changed(e).evidence BY <1>4 DEF Rules
  <1> QED BY <1>1, <1>2, <1>4, <1>5, <1>6, <1>7, SavedOneAlone DEF target, r

LEMMA AloneSaveFinding ==
  ASSUME AloneInv, IInv', NEW t \in Threads, SaveFinding(t)
  PROVE  AloneInv'
  <1> DEFINE cmd == CommandOf(t)
             target == hand[t].target
             Changed(f) == WithFinding(target, f, cmd.events)
             new(f) == [c \in {cmd.case} |-> Changed(f)]
  <1>1. hand[t].pc = "save" /\ cmd.kind = "finding" BY DEF SaveFinding
  <1>2. PICK f \in Findings : Saved(t, new(f)) BY DEF SaveFinding
  <1>3. target \in Card /\ cmd.case \in Cases /\ hand[t].req \in Requests
    BY <1>1, HandIs DEF AloneInv
  <1>4. /\ Changed(f).status = target.status /\ Changed(f).related = target.related
        /\ Changed(f).evidence = target.evidence
    BY <1>3, OperationsKeep
  <1>5. DOMAIN new(f) = {cmd.case} /\ new(f)[cmd.case] = Changed(f) OBVIOUS
  <1> HIDE DEF new, Changed, target
  <1>6. SplitBy(Changed(f)) = SplitBy(target) BY <1>4 DEF SplitBy
  <1> QED BY <1>1, <1>2, <1>4, <1>5, <1>6, SavedOneAlone DEF target

LEMMA AloneSaveMerged ==
  ASSUME AloneInv, IInv', NEW t \in Threads, SaveMerged(t)
  PROVE  AloneInv'
  <1> DEFINE cmd    == CommandOf(t)
             r      == hand[t].req
             card   == hand[t].target
             from   == hand[t].source
             target == MergedTarget(card, cmd.from, from, r)
             source == MergedSource(from, cmd.case)
             new    == [c \in {cmd.case, cmd.from} |-> IF c = cmd.case THEN target ELSE source]
  <1>1. hand[t].pc = "save" /\ cmd.kind = "merge" /\ Saved(t, new) BY DEF SaveMerged
  <1>2. /\ cmd \in Commands /\ cmd.case \in Cases /\ cmd.from \in Cases /\ r \in Requests
        /\ cmd.case \in Involved(cmd) /\ cmd.from \in Involved(cmd)
        /\ card \in Card /\ from \in Card /\ hand[t] # Idle /\ CopiesInv(t)
    BY <1>1, HandIs, CommandKinds DEF AloneInv, Idle
  <1>3. CopyOf(cmd.case, card) /\ CopyOf(cmd.from, from) /\ cmd.from # cmd.case
    BY <1>1, <1>2 DEF CopiesInv
  <1>4. /\ target.status = card.status /\ card.related \subseteq target.related
        /\ target.evidence = card.evidence \cup {<<"manual_merge", r>>}
        /\ source.status = "merged" /\ from.related \subseteq source.related
        /\ source.evidence = from.evidence
    BY <1>2, OperationsKeep
  <1>5. /\ DOMAIN new = {cmd.case, cmd.from}
        /\ new[cmd.case] = target /\ new[cmd.from] = source
    BY <1>3
  <1>6. sent' = sent /\ cards' = [c \in Cases |-> IF c \in DOMAIN new THEN new[c] ELSE cards[c]]
    BY <1>1 DEF Saved
  <1>7. cards'[cmd.case] = target BY <1>2, <1>5, <1>6
  <1> HIDE DEF new, target, source, card, from, cmd, r
  <1>8. SplitBy(target) = SplitBy(card) /\ SplitBy(source) = SplitBy(from)
    BY <1>4 DEF SplitBy
  <1>9. Grown(cmd.case, target) BY <1>3, <1>4, <1>8 DEF Grown, CopyOf
  <1>10. Grown(cmd.from, source) BY <1>3, <1>4, <1>8 DEF Grown, CopyOf
  <1>11. \A c \in DOMAIN new : c \in Involved(cmd) /\ Grown(c, new[c])
    BY <1>2, <1>5, <1>9, <1>10
  <1>12. ASSUME NEW q \in Requests, q = r PROVE Marked(q)'
    <2>1. sent'[q] = cmd BY <1>6, <1>12 DEF CommandOf, cmd, r
    <2>2. <<"manual_merge", r>> \in target.evidence BY <1>4
    <2>3. target.status # "none" BY <1>9 DEF Grown
    <2> QED BY <1>1, <1>7, <1>12, <2>1, <2>2, <2>3 DEF Marked, Rules
  <1>13. DOMAIN new \subseteq Cases BY <1>2, <1>5
  <1> QED BY <1>1, <1>11, <1>12, <1>13, SavedKeepsAlone DEF cmd, r

LEMMA AloneSaveSplit ==
  ASSUME AloneInv, IInv', NEW t \in Threads, SaveSplit(t)
  PROVE  AloneInv'
  <1> DEFINE cmd       == CommandOf(t)
             r         == hand[t].req
             card      == hand[t].target
             part      == SplitChild(card, cmd.case, cmd.events, r)
             rest(kid) == SplitSource(card, cmd.case, kid, cmd.events, r)
             new(kid)  == [c \in {cmd.case, kid} |-> IF c = kid THEN part ELSE rest(kid)]
  <1>1. hand[t].pc = "save" /\ cmd.kind = "split" BY DEF SaveSplit
  <1>2. PICK kid \in Cases \ {cmd.case} : cards[kid].status = "none" /\ Saved(t, new(kid))
    BY DEF SaveSplit
  <1>3. /\ cmd \in Commands /\ cmd.case \in Cases /\ r \in Requests /\ cmd.case \in Involved(cmd)
        /\ card \in Card /\ hand[t] # Idle /\ CopiesInv(t)
    BY <1>1, HandIs, CommandKinds DEF AloneInv, Idle
  <1>4. CopyOf(cmd.case, card) BY <1>1, <1>3 DEF CopiesInv
  <1>5. /\ rest(kid).status = card.status /\ rest(kid).related = card.related \cup {kid}
        /\ rest(kid).evidence = card.evidence \cup {<<"manual_split_source", r>>}
        /\ part.status = "open" /\ part.evidence = {<<"manual_split", r>>}
    BY <1>3, OperationsKeep
  <1>6. /\ DOMAIN new(kid) = {cmd.case, kid}
        /\ new(kid)[cmd.case] = rest(kid) /\ new(kid)[kid] = part
    BY <1>2
  <1>7. /\ sent' = sent
        /\ cards' = [c \in Cases |-> IF c \in DOMAIN new(kid) THEN new(kid)[c] ELSE cards[c]]
    BY <1>2 DEF Saved
  <1>8. cards'[cmd.case] = rest(kid) /\ cards'[kid] = part BY <1>2, <1>3, <1>6, <1>7
  <1> HIDE DEF new, part, rest, card, cmd, r
  <1>9. SplitBy(rest(kid)) = SplitBy(card) BY <1>5 DEF SplitBy
  <1>10. Grown(cmd.case, rest(kid)) BY <1>4, <1>5, <1>9 DEF Grown, CopyOf
  <1>11. \A c \in DOMAIN new(kid) : \/ cards[c].status = "none" /\ new(kid)[c].status # "none"
                                    \/ c \in Involved(cmd) /\ Grown(c, new(kid)[c])
    BY <1>2, <1>3, <1>5, <1>6, <1>10
  <1>12. ASSUME NEW q \in Requests, q = r PROVE Marked(q)'
    <2>1. sent'[q] = cmd BY <1>7, <1>12 DEF CommandOf, cmd, r
    <2>2. cards'[kid].status # "none" /\ q \in SplitBy(cards'[kid])
      BY <1>5, <1>8, <1>12 DEF SplitBy
    <2>3. kid \in rest(kid).related /\ rest(kid).status # "none" BY <1>5, <1>10 DEF Grown
    <2> QED BY <1>1, <1>8, <1>12, <2>1, <2>2, <2>3 DEF Marked, SplitOff
  <1>13. DOMAIN new(kid) \subseteq Cases BY <1>2, <1>3, <1>6
  <1> QED BY <1>1, <1>2, <1>11, <1>12, <1>13, SavedKeepsAlone DEF cmd, r

LEMMA AloneStep == AloneInv /\ IInv' /\ [Next]_vars => AloneInv'
  <1> SUFFICES ASSUME AloneInv, IInv', [Next]_vars PROVE AloneInv'
    OBVIOUS
  <1>1. CASE Died BY <1>1, AloneDied
  <1>2. ASSUME NEW t \in Threads, Serve(t)
        PROVE  AloneInv'
    <2>1. ASSUME NEW r \in Requests, Send(t, r) PROVE AloneInv' BY <2>1, AloneSend
    <2>2. CASE ReadTarget(t) BY <2>2, AloneReadTarget
    <2>3. CASE ReadSource(t) BY <2>3, AloneReadSource
    <2>4. CASE ReadRelated(t) BY <2>4, AloneReadRelated
    <2>5. CASE SaveAttached(t) BY <2>5, AloneSaveAttached
    <2>6. CASE SaveDetached(t) BY <2>6, AloneSaveDetached
    <2>7. CASE SaveFinding(t) BY <2>7, AloneSaveFinding
    <2>8. CASE SaveMerged(t) BY <2>8, AloneSaveMerged
    <2>9. CASE SaveSplit(t) BY <2>9, AloneSaveSplit
    <2>10. CASE Record(t) BY <2>10, AloneRecord
    <2> QED BY <1>2, <2>1, <2>2, <2>3, <2>4, <2>5, <2>6, <2>7, <2>8, <2>9, <2>10 DEF Serve
  <1>3. CASE UNCHANGED vars
    <2>1. UNCHANGED <<cards, hand, sent, changes, raced>> BY <1>3 DEF vars
    <2>2. \A u \in Threads : CommandOf(u)' = CommandOf(u) BY <2>1 DEF CommandOf
    <2>3. RacedInv' BY <2>1, <2>2 DEF AloneInv, RacedInv
    <2>4. EffectsInv' BY <2>1 DEF AloneInv, EffectsInv, Undisturbed, Marked, SplitOff
    <2>5. ASSUME NEW u \in Threads, hand'[u] # Idle PROVE CopiesInv(u)' /\ RepeatInv(u)'
      <3>1. CopiesInv(u) /\ RepeatInv(u) BY <2>1, <2>5 DEF AloneInv
      <3>2. CopiesInv(u)' BY <2>1, <2>2, <3>1 DEF CopiesInv, CopyOf
      <3>3. RepeatInv(u)' BY <2>1, <3>1 DEF RepeatInv, Undisturbed, SplitOff
      <3> QED BY <3>2, <3>3
    <2>6. \A c \in Cases : cards'[c].status = "none" => cards'[c] = NoCard
      BY <2>1 DEF AloneInv
    <2> QED BY <2>3, <2>4, <2>5, <2>6, AloneParts
  <1> QED BY <1>1, <1>2, <1>3 DEF Next

LEMMA AloneInit == Init => AloneInv
  <1> SUFFICES ASSUME Init PROVE AloneInv
    OBVIOUS
  <1>1. IInv BY InitStep
  <1>2. /\ \A t \in Threads : hand[t] = Idle
        /\ \A r \in Requests : changes[r] = 0
        /\ cards = FirstCards
    BY DEF Init
  <1>3. \A c \in Cases : cards[c].status = "none" => cards[c] = NoCard
    BY <1>2, ManualCorrelationAssumption
  <1>4. EffectsInv BY <1>2 DEF EffectsInv
  <1>5. RacedInv BY <1>2 DEF RacedInv
  <1> QED BY <1>1, <1>2, <1>3, <1>4, <1>5 DEF AloneInv

-----------------------------------------------------------------------------
(* In every state: of cases that one request at a time works on, the copies   *)
(* in hand are current, and what was applied can be found (the inductive      *)
(* invariant).                                                             *)
THEOREM AloneInductive == Spec => []AloneInv
  <1>1. Init => AloneInv BY AloneInit
  <1>2. IInv' /\ AloneInv /\ [Next]_vars => AloneInv' BY AloneStep
  <1> QED BY <1>1, <1>2, Inductive, PTL DEF Spec

(* A correction sent again under its request id, after an answer or after the *)
(* process died, changes the cases at most once, whatever other requests do,  *)
(* as long as none of them works on its cases at the same time.              *)
THEOREM CorrectsOnce == Spec => []OneEffectPerRequest
  <1>1. AloneInv => OneEffectPerRequest
    <2> SUFFICES ASSUME AloneInv PROVE OneEffectPerRequest
      OBVIOUS
    <2>1. \A r \in Requests : Undisturbed(r) => changes[r] <= 1 BY DEF AloneInv, EffectsInv
    <2> QED BY <2>1 DEF OneEffectPerRequest, Undisturbed
  <1> QED BY <1>1, AloneInductive, PTL

-----------------------------------------------------------------------------
(* What one step does to case c (the body of NothingLeftBehind).             *)
LeftWhole(c) ==
  /\ DOMAIN cards[c].findings \subseteq UNION {DOMAIN cards'[d].findings : d \in Cases}
  /\ \/ cards[c].events \subseteq UNION {cards'[d].events : d \in Cases}
     \/ \E t \in Threads : hand[t] # Idle /\ CommandOf(t).kind = "detach"
                           /\ CommandOf(t).case = c /\ hand'[t] # hand[t]
  /\ cards[c].status = "open" /\ cards'[c].status = "merged" =>
        \E d \in cards'[c].related \ {c} : Contains(cards[c], cards'[d])

(* A case that keeps what it has, and its status.                            *)
LEMMA StaysWhole ==
  ASSUME NEW c \in Cases, DOMAIN cards[c].findings \subseteq DOMAIN cards'[c].findings,
         cards[c].events \subseteq cards'[c].events, cards'[c].status = cards[c].status
  PROVE  LeftWhole(c)
  <1>1. DOMAIN cards[c].findings \subseteq UNION {DOMAIN cards'[d].findings : d \in Cases}
    OBVIOUS
  <1>2. cards[c].events \subseteq UNION {cards'[d].events : d \in Cases}
    OBVIOUS
  <1>3. ~(cards[c].status = "open" /\ cards'[c].status = "merged") OBVIOUS
  <1> QED BY <1>1, <1>2, <1>3 DEF LeftWhole

(* Of what a save writes, only the cases it writes are to be looked at.       *)
LEMMA SavedCards ==
  ASSUME AloneInv, NEW t \in Threads, hand[t].pc = "save", NEW new,
         DOMAIN new \subseteq Cases, Saved(t, new),
         \A c \in DOMAIN new : cards'[c] = new[c] /\ c \notin raced => LeftWhole(c)
  PROVE  \A c \in Cases \ raced' : LeftWhole(c)
  <1>1. /\ cards' = [c \in Cases |-> IF c \in DOMAIN new THEN new[c] ELSE cards[c]]
        /\ raced' = raced
    BY DEF Saved
  <1> SUFFICES ASSUME NEW c \in Cases, c \notin raced PROVE LeftWhole(c)
    BY <1>1
  <1>2. CASE c \in DOMAIN new BY <1>1, <1>2
  <1>3. CASE c \notin DOMAIN new
    <2>1. cards'[c] = cards[c] BY <1>1, <1>3
    <2> QED BY <2>1, StaysWhole
  <1> QED BY <1>2, <1>3

LEMMA WholeAttached ==
  ASSUME AloneInv, NEW t \in Threads, SaveAttached(t)
  PROVE  \A c \in Cases \ raced' : LeftWhole(c)
  <1> DEFINE cmd == CommandOf(t)
             target == hand[t].target
             Changed(e) == Attached(target, e, hand[t].req)
             new(e) == [c \in {cmd.case} |-> Changed(e)]
  <1>1. hand[t].pc = "save" BY DEF SaveAttached
  <1>2. PICK e \in cmd.events : Saved(t, new(e)) BY DEF SaveAttached
  <1>3. /\ target \in Card /\ cmd.case \in Cases /\ hand[t].req \in Requests
        /\ hand[t] # Idle /\ CopyOf(cmd.case, target)
    BY <1>1, HandIs DEF AloneInv, Idle, CopiesInv
  <1>4. /\ Changed(e).status = target.status /\ Changed(e).findings = target.findings
        /\ Changed(e).events = target.events \cup {e}
    BY <1>3, OperationsKeep
  <1>5. DOMAIN new(e) = {cmd.case} /\ new(e)[cmd.case] = Changed(e) OBVIOUS
  <1> HIDE DEF new, Changed, target, cmd
  <1>6. ASSUME NEW c \in DOMAIN new(e), cards'[c] = new(e)[c], c \notin raced PROVE LeftWhole(c)
    <2>1. c = cmd.case /\ cards'[c] = Changed(e) /\ target = cards[c] /\ c \in Cases
      BY <1>3, <1>5, <1>6 DEF CopyOf
    <2> QED BY <1>4, <2>1, StaysWhole
  <1> QED BY <1>1, <1>2, <1>3, <1>5, <1>6, SavedCards

LEMMA WholeFinding ==
  ASSUME AloneInv, NEW t \in Threads, SaveFinding(t)
  PROVE  \A c \in Cases \ raced' : LeftWhole(c)
  <1> DEFINE cmd == CommandOf(t)
             target == hand[t].target
             Changed(f) == WithFinding(target, f, cmd.events)
             new(f) == [c \in {cmd.case} |-> Changed(f)]
  <1>1. hand[t].pc = "save" BY DEF SaveFinding
  <1>2. PICK f \in Findings : Saved(t, new(f)) BY DEF SaveFinding
  <1>3. /\ target \in Card /\ cmd.case \in Cases /\ hand[t].req \in Requests
        /\ hand[t] # Idle /\ CopyOf(cmd.case, target)
    BY <1>1, HandIs DEF AloneInv, Idle, CopiesInv
  <1>4. /\ Changed(f).status = target.status /\ Changed(f).events = target.events
        /\ DOMAIN Changed(f).findings = DOMAIN target.findings \cup {f}
    BY <1>3, OperationsKeep
  <1>5. DOMAIN new(f) = {cmd.case} /\ new(f)[cmd.case] = Changed(f) OBVIOUS
  <1> HIDE DEF new, Changed, target, cmd
  <1>6. ASSUME NEW c \in DOMAIN new(f), cards'[c] = new(f)[c], c \notin raced PROVE LeftWhole(c)
    <2>1. c = cmd.case /\ cards'[c] = Changed(f) /\ target = cards[c] /\ c \in Cases
      BY <1>3, <1>5, <1>6 DEF CopyOf
    <2> QED BY <1>4, <2>1, StaysWhole
  <1> QED BY <1>1, <1>2, <1>3, <1>5, <1>6, SavedCards

(* An event that is detached goes nowhere; the findings stay.                *)
LEMMA WholeDetached ==
  ASSUME AloneInv, NEW t \in Threads, SaveDetached(t)
  PROVE  \A c \in Cases \ raced' : LeftWhole(c)
  <1> DEFINE cmd == CommandOf(t)
             target == hand[t].target
             Changed(e) == Detached(target, cmd.case, e, hand[t].req)
             new(e) == [c \in {cmd.case} |-> Detached(target, c, e, hand[t].req)]
  <1>1. hand[t].pc = "save" /\ cmd.kind = "detach" BY DEF SaveDetached
  <1>2. PICK e \in cmd.events : Saved(t, new(e)) BY DEF SaveDetached
  <1>3. /\ target \in Card /\ cmd.case \in Cases /\ hand[t].req \in Requests
        /\ hand[t] # Idle /\ CopyOf(cmd.case, target)
    BY <1>1, HandIs DEF AloneInv, Idle, CopiesInv
  <1>4. /\ Changed(e).status = target.status
        /\ DOMAIN Changed(e).findings = DOMAIN target.findings
    BY <1>3, OperationsKeep
  <1>5. DOMAIN new(e) = {cmd.case} /\ new(e)[cmd.case] = Changed(e) OBVIOUS
  <1>6. hand'[t] # hand[t]
    <2>1. GoOn(t, "record", NoCard, NoCard, DOMAIN new(e)) /\ sent' = sent BY <1>2 DEF Saved
    <2>2. IInv BY DEF AloneInv
    <2> HIDE DEF new
    <2>3. hand'[t].pc = "record" BY <1>1, <2>1, <2>2, GoesOn
    <2> QED BY <1>1, <2>3
  <1> HIDE DEF new, Changed, target, cmd
  <1>7. ASSUME NEW c \in DOMAIN new(e), cards'[c] = new(e)[c], c \notin raced PROVE LeftWhole(c)
    <2>1. c = cmd.case /\ cards'[c] = Changed(e) /\ target = cards[c] /\ c \in Cases
      BY <1>3, <1>5, <1>7 DEF CopyOf
    <2>2. DOMAIN cards[c].findings \subseteq UNION {DOMAIN cards'[d].findings : d \in Cases}
      BY <1>4, <2>1
    <2>3. \E u \in Threads : hand[u] # Idle /\ CommandOf(u).kind = "detach"
                             /\ CommandOf(u).case = c /\ hand'[u] # hand[u]
      BY <1>1, <1>3, <1>6, <2>1 DEF cmd
    <2>4. ~(cards[c].status = "open" /\ cards'[c].status = "merged") BY <1>4, <2>1
    <2> QED BY <2>2, <2>3, <2>4 DEF LeftWhole
  <1> QED BY <1>1, <1>2, <1>3, <1>5, <1>7, SavedCards

(* The target has all that the case merged into it had.                      *)
LEMMA WholeMerged ==
  ASSUME AloneInv, NEW t \in Threads, SaveMerged(t)
  PROVE  \A c \in Cases \ raced' : LeftWhole(c)
  <1> DEFINE cmd    == CommandOf(t)
             r      == hand[t].req
             card   == hand[t].target
             from   == hand[t].source
             target == MergedTarget(card, cmd.from, from, r)
             source == MergedSource(from, cmd.case)
             new    == [c \in {cmd.case, cmd.from} |-> IF c = cmd.case THEN target ELSE source]
  <1>1. hand[t].pc = "save" /\ cmd.kind = "merge" /\ Saved(t, new) BY DEF SaveMerged
  <1>2. /\ cmd.case \in Cases /\ cmd.from \in Cases /\ r \in Requests
        /\ card \in Card /\ from \in Card /\ hand[t] # Idle /\ CopiesInv(t)
    BY <1>1, HandIs DEF AloneInv, Idle
  <1>3. CopyOf(cmd.case, card) /\ CopyOf(cmd.from, from) /\ cmd.from # cmd.case
    BY <1>1, <1>2 DEF CopiesInv
  <1>4. /\ target.status = card.status /\ target.events = card.events \cup from.events
        /\ target.observed = card.observed \cup from.observed
        /\ target.hits = card.hits \cup from.hits
        /\ DOMAIN target.findings = DOMAIN card.findings \cup DOMAIN from.findings
    BY <1>2, OperationsKeep
  <1>5. /\ source.status = "merged" /\ source.related = from.related \cup {cmd.case}
        /\ source.events = from.events /\ source.findings = from.findings
    BY <1>2, OperationsKeep
  <1>6. /\ DOMAIN new = {cmd.case, cmd.from}
        /\ new[cmd.case] = target /\ new[cmd.from] = source
    BY <1>3
  <1>7. cards'[cmd.case] = target BY <1>1, <1>2, <1>6 DEF Saved
  <1> HIDE DEF new, target, source, card, from, cmd, r
  <1>8. ASSUME NEW c \in DOMAIN new, cards'[c] = new[c], c \notin raced PROVE LeftWhole(c)
    <2>1. CASE c = cmd.case
      <3>1. c \in Cases /\ card = cards[c] BY <1>2, <1>3, <1>8, <2>1 DEF CopyOf
      <3> QED BY <1>4, <1>7, <2>1, <3>1, StaysWhole
    <2>2. CASE c = cmd.from
      <3>1. c \in Cases /\ from = cards[c] /\ cards'[c] = source
        BY <1>2, <1>3, <1>6, <1>8, <2>2 DEF CopyOf
      <3>2. DOMAIN cards[c].findings \subseteq UNION {DOMAIN cards'[d].findings : d \in Cases}
        BY <1>5, <3>1
      <3>3. cards[c].events \subseteq UNION {cards'[d].events : d \in Cases}
        BY <1>5, <3>1
      <3>4. Contains(cards[c], cards'[cmd.case]) BY <1>4, <1>7, <3>1 DEF Contains
      <3>5. cmd.case \in cards'[c].related \ {c} BY <1>3, <1>5, <2>2, <3>1
      <3> QED BY <3>2, <3>3, <3>4, <3>5 DEF LeftWhole
    <2> QED BY <1>6, <1>8, <2>1, <2>2
  <1>9. DOMAIN new \subseteq Cases BY <1>2, <1>6
  <1> QED BY <1>1, <1>8, <1>9, SavedCards

(* The rest and the part that was split off share out what the case had.      *)
LEMMA WholeSplit ==
  ASSUME AloneInv, NEW t \in Threads, SaveSplit(t)
  PROVE  \A c \in Cases \ raced' : LeftWhole(c)
  <1> DEFINE cmd       == CommandOf(t)
             r         == hand[t].req
             card      == hand[t].target
             part      == SplitChild(card, cmd.case, cmd.events, r)
             rest(kid) == SplitSource(card, cmd.case, kid, cmd.events, r)
             new(kid)  == [c \in {cmd.case, kid} |-> IF c = kid THEN part ELSE rest(kid)]
  <1>1. hand[t].pc = "save" /\ cmd.kind = "split" BY DEF SaveSplit
  <1>2. PICK kid \in Cases \ {cmd.case} : cards[kid].status = "none" /\ Saved(t, new(kid))
    BY DEF SaveSplit
  <1>3. /\ cmd.case \in Cases /\ r \in Requests /\ card \in Card /\ hand[t] # Idle
        /\ CopyOf(cmd.case, card)
    BY <1>1, HandIs DEF AloneInv, Idle, CopiesInv
  <1>4. /\ rest(kid).status = card.status /\ rest(kid).events = card.events \ cmd.events
        /\ DOMAIN rest(kid).findings = DOMAIN card.findings \ Moving(card, cmd.events)
        /\ part.events = cmd.events /\ DOMAIN part.findings = Moving(card, cmd.events)
    BY <1>3, OperationsKeep
  <1>5. /\ DOMAIN new(kid) = {cmd.case, kid}
        /\ new(kid)[cmd.case] = rest(kid) /\ new(kid)[kid] = part
    BY <1>2
  <1>6. cards'[cmd.case] = rest(kid) /\ cards'[kid] = part
    BY <1>2, <1>3, <1>5 DEF Saved
  <1> HIDE DEF new, part, rest, card, cmd, r
  <1>7. ASSUME NEW c \in DOMAIN new(kid), cards'[c] = new(kid)[c], c \notin raced PROVE LeftWhole(c)
    <2>1. CASE c = cmd.case
      <3>1. c \in Cases /\ card = cards[c] BY <1>3, <1>7, <2>1 DEF CopyOf
      <3>2. cards[c].events \subseteq cards'[c].events \cup cards'[kid].events
        BY <1>4, <1>6, <2>1, <3>1
      <3>3. DOMAIN cards[c].findings \subseteq DOMAIN cards'[c].findings \cup DOMAIN cards'[kid].findings
        BY <1>4, <1>6, <2>1, <3>1
      <3>4. cards'[c].status = cards[c].status BY <1>4, <1>6, <2>1, <3>1
      <3>5. ~(cards[c].status = "open" /\ cards'[c].status = "merged") BY <3>4
      <3>6. cards[c].events \subseteq UNION {cards'[d].events : d \in Cases} BY <1>2, <3>1, <3>2
      <3>7. DOMAIN cards[c].findings \subseteq UNION {DOMAIN cards'[d].findings : d \in Cases}
        BY <1>2, <3>1, <3>3
      <3> QED BY <3>5, <3>6, <3>7 DEF LeftWhole
    <2>2. CASE c = kid
      <3>1. cards[c] = NoCard BY <1>2, <2>2 DEF AloneInv
      <3>2. cards[c].events = {} /\ cards[c].status = "none" BY <3>1 DEF NoCard
      <3>3. DOMAIN cards[c].findings = {}
        <4>1. cards[c].findings = <<>> BY <3>1 DEF NoCard
        <4>2. \A s : s = <<>> => DOMAIN s = {} OBVIOUS
        <4> QED BY <4>1, <4>2
      <3> QED BY <3>2, <3>3 DEF LeftWhole
    <2> QED BY <1>5, <1>7, <2>1, <2>2
  <1>8. DOMAIN new(kid) \subseteq Cases BY <1>2, <1>3, <1>5
  <1> QED BY <1>1, <1>2, <1>7, <1>8, SavedCards

(* A case that one request at a time works on loses nothing in a step that is *)
(* not a detachment from it, and what was merged away is all in its target.   *)
THEOREM NothingIsLost == Spec => NothingLeftBehind
  <1>1. ASSUME AloneInv, [Next]_vars PROVE \A c \in Cases \ raced' : LeftWhole(c)
    <2>1. ASSUME cards' = cards PROVE \A c \in Cases : LeftWhole(c)
      BY <2>1, StaysWhole
    <2>2. CASE UNCHANGED vars BY <2>1, <2>2 DEF vars
    <2>3. CASE Died BY <2>1, <2>3 DEF Died
    <2>4. ASSUME NEW t \in Threads, Serve(t) PROVE \A c \in Cases \ raced' : LeftWhole(c)
      <3>1. CASE SaveAttached(t) BY <3>1, <1>1, WholeAttached
      <3>2. CASE SaveDetached(t) BY <3>2, <1>1, WholeDetached
      <3>3. CASE SaveFinding(t) BY <3>3, <1>1, WholeFinding
      <3>4. CASE SaveMerged(t) BY <3>4, <1>1, WholeMerged
      <3>5. CASE SaveSplit(t) BY <3>5, <1>1, WholeSplit
      <3>6. CASE (\E r \in Requests : Send(t, r)) \/ ReadTarget(t) \/ ReadSource(t)
                 \/ ReadRelated(t) \/ Record(t)
        <4>1. cards' = cards
          BY <3>6 DEF Send, ReadTarget, ReadSource, ReadRelated, Record
        <4> QED BY <4>1, <2>1
      <3> QED BY <2>4, <3>1, <3>2, <3>3, <3>4, <3>5, <3>6 DEF Serve
    <2> QED BY <1>1, <2>2, <2>3, <2>4 DEF Next
  <1>2. AloneInv /\ [Next]_vars =>
          [\A c \in Cases \ raced' :
             /\ DOMAIN cards[c].findings \subseteq UNION {DOMAIN cards'[d].findings : d \in Cases}
             /\ \/ cards[c].events \subseteq UNION {cards'[d].events : d \in Cases}
                \/ \E t \in Threads : hand[t] # Idle /\ CommandOf(t).kind = "detach"
                                      /\ CommandOf(t).case = c /\ hand'[t] # hand[t]
             /\ cards[c].status = "open" /\ cards'[c].status = "merged" =>
                   \E d \in cards'[c].related \ {c} : Contains(cards[c], cards'[d])]_vars
    BY <1>1 DEF LeftWhole
  <1> QED BY <1>2, AloneInductive, PTL DEF Spec, NothingLeftBehind
=============================================================================
