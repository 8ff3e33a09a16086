-------------------------- MODULE ManualCorrelation --------------------------
(***************************************************************************)
(* Analysts correct what belongs to a case (ManualCorrelationUseCase):      *)
(* attach and detach an event, merge a case into another, split events off   *)
(* into a new case; and they write findings about events                    *)
(* (CaseFindingsUseCase.add_finding).  A request reads its cases, changes    *)
(* the copies it has read, saves all of them at once (CaseStore has what     *)
(* that takes), and then tells the ledger of operations.  No lock spans a    *)
(* request.  A client that got no answer sends the same command again under  *)
(* the same request id, possibly while the first one is still worked on.     *)
(*                                                                         *)
(* Of a card: the events, those that observations and hit records name, the  *)
(* findings as a function of their ids, and the correlation evidence, which   *)
(* says by what rule which request has changed the card.                     *)
(***************************************************************************)
EXTENDS Integers, FiniteSets, Functions

CONSTANTS Cases, Events, Findings, Requests, Threads,
          NoCase,     \* no case; an empty origin_case_id
          Known,      \* the events that the event store knows
          FirstCards, \* FirstCards[c]: the card of c to begin with
          WrittenIn,  \* WrittenIn[f]: where finding f was written before, or NoCase
          Commands,   \* the commands that requests may carry
          MaxSends,   \* bound: commands sent, the repeated ones included
          MaxDeaths   \* bound: deaths of the API process

VARIABLES cards,    \* cards[c]: the card in the store
          hand,     \* hand[t]: what thread t is doing
          sent,     \* sent[r]: the command of request r
          written,  \* written[f]: the case in which finding f was written
          ledger,   \* lines of the ledger of operations: <<request, case>>
          changes,  \* changes[r]: how often request r has been saved
          answered, \* requests that were answered with success
          raced,    \* cases that two requests had in hand at the same time
          sends, deaths

vars == <<cards, hand, sent, written, ledger, changes, answered, raced, sends, deaths>>

Statuses == {"none", "open", "merged"}

Rules == {"manual_attach", "manual_detach", "manual_merge", "manual_split",
          "manual_split_source"}

Finding == [events : SUBSET Events, historical : BOOLEAN, origin : Cases \cup {NoCase}]

Card == [status : Statuses, events : SUBSET Known, observed : SUBSET Events,
         hits : SUBSET Events,
         findings : UNION {[S -> Finding] : S \in SUBSET Findings},
         evidence : SUBSET (Rules \X Requests), related : SUBSET Cases]

Command == [kind : {"attach", "detach", "finding", "merge", "split"},
            case : Cases, from : Cases, events : SUBSET Events]

NoCard == [status |-> "none", events |-> {}, observed |-> {}, hits |-> {},
           findings |-> <<>>, evidence |-> {}, related |-> {}]

NoCommand == [kind |-> "none"]

(* What holds of one card: evidence that still stands is about events of the *)
(* case, and a finding names the case it was written in unless it is there.  *)
EvidenceFits(card) ==
  /\ card.observed \subseteq card.events /\ card.hits \subseteq card.events
  /\ \A f \in DOMAIN card.findings :
       card.findings[f].historical \/ card.findings[f].events \subseteq card.events

OriginFits(c, card, where) ==
  \A f \in DOMAIN card.findings :
     LET finding == card.findings[f] IN
     /\ where[f] # NoCase
     /\ finding.origin = where[f] \/ (finding.origin = NoCase /\ c = where[f])
     /\ finding.historical => finding.origin # NoCase

ASSUME ManualCorrelationAssumption ==
  /\ NoCase \notin Cases
  /\ Known \subseteq Events
  /\ FirstCards \in [Cases -> Card] /\ WrittenIn \in [Findings -> Cases \cup {NoCase}]
  /\ \A c \in Cases :
       /\ EvidenceFits(FirstCards[c]) /\ OriginFits(c, FirstCards[c], WrittenIn)
       /\ FirstCards[c].status = "none" => FirstCards[c] = NoCard
  /\ Commands \subseteq Command
  /\ MaxSends \in Nat /\ MaxDeaths \in Nat

(* pc "target": the case of the command is read next; "source": the case to   *)
(* merge; "child": the related cases left to look at; "save"; "record": the   *)
(* lines left for the ledger.                                              *)
Idle == [pc |-> "idle"]
Busy == [pc : {"target", "source", "child", "save", "record"}, req : Requests,
         target : Card, source : Card, left : SUBSET Cases]

(* Every variable keeps its type; a case holds events that the store knows.   *)
TypeOK ==
  /\ cards \in [Cases -> Card]
  /\ hand \in [Threads -> {Idle} \cup Busy]
  /\ sent \in [Requests -> Commands \cup {NoCommand}]
  /\ \A t \in Threads : hand[t] # Idle => sent[hand[t].req] \in Commands
  /\ written \in [Findings -> Cases \cup {NoCase}]
  /\ ledger \subseteq Requests \X Cases
  /\ changes \in [Requests -> Nat]
  /\ answered \subseteq Requests
  /\ raced \subseteq Cases
  /\ sends \in 0 .. MaxSends /\ deaths \in 0 .. MaxDeaths

-----------------------------------------------------------------------------
(* What the operations make of the cards they have read.                    *)

(* origin_case_id = origin_case_id or case_id                                *)
Originated(finding, c) ==
  [events |-> finding.events, historical |-> finding.historical,
   origin |-> IF finding.origin = NoCase THEN c ELSE finding.origin]

(* _mark_historical *)
Historical(finding, c) ==
  [events |-> finding.events, historical |-> TRUE, origin |-> Originated(finding, c).origin]

Attached(card, e, r) ==
  [card EXCEPT !.events = @ \cup {e}, !.evidence = @ \cup {<<"manual_attach", r>>}]

(* The reference to a detached event is dropped; a finding that loses its    *)
(* last one becomes historical.                                            *)
WithoutEvent(finding, c, e) ==
  LET left == [finding EXCEPT !.events = @ \ {e}]
  IN  IF finding.events = {e} THEN Historical(left, c) ELSE left

Detached(card, c, e, r) ==
  [status |-> card.status, events |-> card.events \ {e}, observed |-> card.observed \ {e},
   hits |-> card.hits \cap (card.events \ {e}),
   findings |-> [f \in DOMAIN card.findings |-> WithoutEvent(card.findings[f], c, e)],
   evidence |-> card.evidence \cup {<<"manual_detach", r>>}, related |-> card.related]

WithFinding(card, f, events) ==
  [card EXCEPT !.findings = [g \in DOMAIN @ \cup {f} |->
     IF g = f THEN [events |-> events, historical |-> FALSE, origin |-> NoCase] ELSE @[g]]]

(* Mutated form: findings stay behind. *)
MergedTargetBare(card, c, source, r) ==
  [status |-> card.status, events |-> card.events \cup source.events,
   observed |-> card.observed \cup source.observed, hits |-> card.hits \cup source.hits,
   findings |-> card.findings,
   evidence |-> card.evidence \cup {<<"manual_merge", r>>}, related |-> card.related \cup {c}]

(* Mutated form: copied findings do not name the case they come from. *)
MergedTargetNameless(card, c, source, r) ==
  [status |-> card.status, events |-> card.events \cup source.events,
   observed |-> card.observed \cup source.observed, hits |-> card.hits \cup source.hits,
   findings |-> [f \in DOMAIN card.findings \cup DOMAIN source.findings |->
                   IF f \in DOMAIN card.findings THEN card.findings[f] ELSE source.findings[f]],
   evidence |-> card.evidence \cup {<<"manual_merge", r>>}, related |-> card.related \cup {c}]

(* The target takes over what case c has, and copies of the findings that it *)
(* does not have yet.                                                      *)
MergedTarget(card, c, source, r) ==
  [status |-> card.status, events |-> card.events \cup source.events,
   observed |-> card.observed \cup source.observed, hits |-> card.hits \cup source.hits,
   findings |-> [f \in DOMAIN card.findings \cup DOMAIN source.findings |->
                   IF f \in DOMAIN card.findings THEN card.findings[f]
                   ELSE Originated(source.findings[f], c)],
   evidence |-> card.evidence \cup {<<"manual_merge", r>>}, related |-> card.related \cup {c}]

MergedSource(source, c) ==
  [source EXCEPT !.status = "merged", !.related = @ \cup {c}]

(* A finding goes with its events if all of them go.                         *)
Moves(finding, events) == finding.events # {} /\ finding.events \subseteq events

Moving(card, events) == {f \in DOMAIN card.findings : Moves(card.findings[f], events)}

(* The new case begins now: of the card it was split off it takes the events *)
(* selected and the evidence that goes with them.                           *)
SplitChild(card, c, events, r) ==
  [status |-> "open", events |-> events, observed |-> card.observed \cap events,
   hits |-> card.hits \cap events,
   findings |-> [f \in Moving(card, events) |-> Originated(card.findings[f], c)],
   evidence |-> {<<"manual_split", r>>}, related |-> {c}]

(* Mutated form: a finding whose events part is not marked. *)
SplitSourceUnmarked(card, c, child, events, r) ==
  [status |-> card.status, events |-> card.events \ events,
   observed |-> card.observed \ events, hits |-> card.hits \cap (card.events \ events),
   findings |-> Restrict(card.findings, DOMAIN card.findings \ Moving(card, events)),
   evidence |-> card.evidence \cup {<<"manual_split_source", r>>},
   related |-> card.related \cup {child}]

(* A finding whose events part stays, as a historical one.                   *)
SplitSource(card, c, child, events, r) ==
  [status |-> card.status, events |-> card.events \ events,
   observed |-> card.observed \ events, hits |-> card.hits \cap (card.events \ events),
   findings |-> [f \in DOMAIN card.findings \ Moving(card, events) |->
                   IF card.findings[f].events \cap events # {}
                   THEN Historical(card.findings[f], c) ELSE card.findings[f]],
   evidence |-> card.evidence \cup {<<"manual_split_source", r>>},
   related |-> card.related \cup {child}]

-----------------------------------------------------------------------------
(* A request.                                                              *)

GoOn(t, pc, target, source, left) ==
  hand' = [hand EXCEPT ![t] = [pc |-> pc, req |-> hand[t].req, target |-> target,
                               source |-> source, left |-> left]]

Answer(t) ==
  /\ hand' = [hand EXCEPT ![t] = Idle]
  /\ answered' = answered \cup {hand[t].req}

Refuse(t) == hand' = [hand EXCEPT ![t] = Idle] /\ UNCHANGED answered

CommandOf(t) == sent[hand[t].req]

(* The cases that a command names.                                          *)
Involved(cmd) ==
  IF cmd = NoCommand THEN {}
  ELSE {cmd.case} \cup (IF cmd.kind = "merge" THEN {cmd.from} ELSE {})

(* A command is sent for the first time, or again.                          *)
Send(t, r) ==
  /\ hand[t] = Idle /\ sends < MaxSends
  /\ \E cmd \in Commands :
       /\ sent[r] \in {NoCommand, cmd}
       /\ sent' = [sent EXCEPT ![r] = cmd]
       /\ raced' = raced \cup {c \in Involved(cmd) :
             \E u \in Threads : hand[u] # Idle /\ c \in Involved(sent[hand[u].req])}
  /\ hand' = [hand EXCEPT ![t] = [pc |-> "target", req |-> r, target |-> NoCard,
                                  source |-> NoCard, left |-> {}]]
  /\ sends' = sends + 1
  /\ UNCHANGED <<cards, written, ledger, changes, answered, deaths>>

(* Mutated form: the event is attached whether or not anybody knows it. *)
KnownUnchecked(e) == TRUE

(* _require_known_event *)
IsKnown(e) == e \in Known

(* What stands against the command once the case it names has been read.     *)
Invalid(cmd, card) ==
  \/ card.status = "none"
  \/ cmd.kind = "attach" /\ \E e \in cmd.events : ~IsKnown(e)
  \/ cmd.kind = "detach" /\ ~(cmd.events \subseteq card.events)
  \/ cmd.kind = "finding" /\ ~(cmd.events \subseteq card.events)

(* Nothing is left to do: the request was applied to the case, or the event   *)
(* is attached already.                                                    *)
Settled(cmd, r, card) ==
  /\ card.status # "none"
  /\ \/ cmd.kind \in {"attach", "detach", "merge"} /\ \E rule \in Rules : <<rule, r>> \in card.evidence
     \/ cmd.kind = "attach" /\ cmd.events \subseteq card.events

ReadTarget(t) ==
  LET cmd  == CommandOf(t)
      card == cards[cmd.case]
  IN
  /\ hand[t].pc = "target"
  /\ IF Settled(cmd, hand[t].req, card) THEN Answer(t)
     ELSE IF Invalid(cmd, card) THEN Refuse(t)
     ELSE /\ GoOn(t, CASE cmd.kind = "merge" -> "source"
                       [] cmd.kind = "split" -> "child"
                       [] OTHER -> "save", card, NoCard, card.related)
          /\ UNCHANGED answered
  /\ UNCHANGED <<cards, sent, written, ledger, changes, raced, sends, deaths>>

ReadSource(t) ==
  LET source == cards[CommandOf(t).from]
  IN
  /\ hand[t].pc = "source"
  /\ IF source.status = "none" THEN Refuse(t)
     ELSE IF CommandOf(t).from = CommandOf(t).case THEN Answer(t)
     ELSE GoOn(t, "save", hand[t].target, source, {}) /\ UNCHANGED answered
  /\ UNCHANGED <<cards, sent, written, ledger, changes, raced, sends, deaths>>

(* Mutated form: the related cases are not looked at. *)
ReadRelatedBlind(t) ==
  /\ hand[t].pc = "child"
  /\ IF CommandOf(t).events \subseteq hand[t].target.events
     THEN GoOn(t, "save", hand[t].target, NoCard, {}) /\ UNCHANGED answered
     ELSE Refuse(t)
  /\ UNCHANGED <<cards, sent, written, ledger, changes, raced, sends, deaths>>

(* _existing_split_child reads the related cases; if none was split off by    *)
(* this request, the events selected must be those of the case.              *)
ReadRelated(t) ==
  LET h == hand[t] IN
  /\ h.pc = "child"
  /\ \/ \E c \in h.left :
          IF <<"manual_split", h.req>> \in cards[c].evidence THEN Answer(t)
          ELSE GoOn(t, "child", h.target, NoCard, h.left \ {c}) /\ UNCHANGED answered
     \/ /\ h.left = {}
        /\ IF CommandOf(t).events # {} /\ CommandOf(t).events \subseteq h.target.events
           THEN GoOn(t, "save", h.target, NoCard, {}) /\ UNCHANGED answered
           ELSE Refuse(t)
  /\ UNCHANGED <<cards, sent, written, ledger, changes, raced, sends, deaths>>

(* The cards the request has changed are saved together.                    *)
Saved(t, new) ==
  /\ cards' = [c \in Cases |-> IF c \in DOMAIN new THEN new[c] ELSE cards[c]]
  /\ changes' = [changes EXCEPT ![hand[t].req] = @ + 1]
  /\ GoOn(t, "record", NoCard, NoCard, DOMAIN new)
  /\ UNCHANGED <<sent, ledger, answered, raced, sends, deaths>>

SaveAttached(t) ==
  /\ hand[t].pc = "save" /\ CommandOf(t).kind = "attach"
  /\ \E e \in CommandOf(t).events :
       Saved(t, [c \in {CommandOf(t).case} |-> Attached(hand[t].target, e, hand[t].req)])
  /\ UNCHANGED written

SaveDetached(t) ==
  /\ hand[t].pc = "save" /\ CommandOf(t).kind = "detach"
  /\ \E e \in CommandOf(t).events :
       Saved(t, [c \in {CommandOf(t).case} |-> Detached(hand[t].target, c, e, hand[t].req)])
  /\ UNCHANGED written

(* A finding gets an id of its own; add_finding does not look at request ids. *)
SaveFinding(t) ==
  /\ hand[t].pc = "save" /\ CommandOf(t).kind = "finding"
  /\ \E f \in Findings :
       /\ written[f] = NoCase
       /\ written' = [written EXCEPT ![f] = CommandOf(t).case]
       /\ Saved(t, [c \in {CommandOf(t).case} |->
                      WithFinding(hand[t].target, f, CommandOf(t).events)])

SaveMerged(t) ==
  LET cmd == CommandOf(t) IN
  /\ hand[t].pc = "save" /\ cmd.kind = "merge"
  /\ Saved(t, [c \in {cmd.case, cmd.from} |->
                 IF c = cmd.case
                 THEN MergedTarget(hand[t].target, cmd.from, hand[t].source, hand[t].req)
                 ELSE MergedSource(hand[t].source, cmd.case)])
  /\ UNCHANGED written

(* The new case gets an id that no case has.                                *)
SaveSplit(t) ==
  LET cmd == CommandOf(t) IN
  /\ hand[t].pc = "save" /\ cmd.kind = "split"
  /\ \E child \in Cases \ {cmd.case} :
       /\ cards[child].status = "none"
       /\ Saved(t, [c \in {cmd.case, child} |->
             IF c = child THEN SplitChild(hand[t].target, cmd.case, cmd.events, hand[t].req)
             ELSE SplitSource(hand[t].target, cmd.case, child, cmd.events, hand[t].req)])
  /\ UNCHANGED written

(* record_operation_event, one line for each case, and then the answer.  The *)
(* code has an order of the two cases of a merge or a split (the source      *)
(* first), which no property depends on.                                   *)
Record(t) ==
  LET h == hand[t] IN
  /\ h.pc = "record"
  /\ \E c \in h.left :
       /\ ledger' = ledger \cup {<<h.req, c>>}
       /\ IF h.left = {c} THEN Answer(t)
          ELSE GoOn(t, "record", NoCard, NoCard, h.left \ {c}) /\ UNCHANGED answered
  /\ UNCHANGED <<cards, sent, written, changes, raced, sends, deaths>>

(* The API process dies between two statements.                             *)
Died ==
  /\ deaths < MaxDeaths /\ deaths' = deaths + 1
  /\ \E t \in Threads : hand[t] # Idle
  /\ hand' = [t \in Threads |-> Idle]
  /\ UNCHANGED <<cards, sent, written, ledger, changes, answered, raced, sends>>

Init ==
  /\ cards = FirstCards
  /\ hand = [t \in Threads |-> Idle]
  /\ sent = [r \in Requests |-> NoCommand]
  /\ written = WrittenIn
  /\ ledger = {}
  /\ changes = [r \in Requests |-> 0]
  /\ answered = {} /\ raced = {}
  /\ sends = 0 /\ deaths = 0

Serve(t) ==
  \/ \E r \in Requests : Send(t, r)
  \/ ReadTarget(t) \/ ReadSource(t) \/ ReadRelated(t)
  \/ SaveAttached(t) \/ SaveDetached(t) \/ SaveFinding(t) \/ SaveMerged(t) \/ SaveSplit(t)
  \/ Record(t)

Next == Died \/ \E t \in Threads : Serve(t)

Spec == Init /\ [][Next]_vars

-----------------------------------------------------------------------------
(* Properties.                                                             *)

(* Observations, hit records and findings that are not marked historical are  *)
(* about events of the case they are in (contract of the module, 1 and 2):    *)
(* whatever is corrected in what order, by how many requests at once.        *)
EvidenceBelongs == \A c \in Cases : EvidenceFits(cards[c])

(* A finding can be traced to the case it was written in, through any number  *)
(* of merges and splits; a historical one says so itself.                    *)
OriginIsTrue == \A c \in Cases : OriginFits(c, cards[c], written)

(* Why both hold: they hold of the copies in the hands of threads as well.    *)
HandFits(t) ==
  LET h   == hand[t]
      cmd == CommandOf(t)
  IN  /\ EvidenceFits(h.target) /\ OriginFits(cmd.case, h.target, written)
      /\ EvidenceFits(h.source) /\ OriginFits(cmd.from, h.source, written)
      /\ h.pc = "source" => cmd.kind = "merge"
      /\ h.pc = "child" => cmd.kind = "split"
      /\ h.pc = "save" =>
           /\ cmd.kind = "attach" => cmd.events \subseteq Known
           /\ cmd.kind \in {"finding", "split"} => cmd.events \subseteq h.target.events

IInv ==
  /\ TypeOK /\ EvidenceBelongs /\ OriginIsTrue
  /\ \A t \in Threads : hand[t] # Idle => HandFits(t)

Contains(d, c) ==
  /\ d.events \subseteq c.events /\ d.observed \subseteq c.observed
  /\ d.hits \subseteq c.hits /\ DOMAIN d.findings \subseteq DOMAIN c.findings

(* Detaching is the only way out: a step takes an event from a case, or a     *)
(* finding, only to leave it in another, and a case that is merged away names *)
(* one that has all it had.  This is of cases that one request at a time      *)
(* works on.                                                               *)
NothingLeftBehind ==
  [][\A c \in Cases \ raced' :
       /\ DOMAIN cards[c].findings \subseteq UNION {DOMAIN cards'[d].findings : d \in Cases}
       /\ \/ cards[c].events \subseteq UNION {cards'[d].events : d \in Cases}
          \/ \E t \in Threads : hand[t] # Idle /\ CommandOf(t).kind = "detach"
                                /\ CommandOf(t).case = c /\ hand'[t] # hand[t]
       /\ cards[c].status = "open" /\ cards'[c].status = "merged" =>
             \E d \in cards'[c].related \ {c} : Contains(cards[c], cards'[d])]_vars

(* A correction sent again under its request id changes nothing more         *)
(* (contract, 5), as long as it is not sent again while it is worked on, and   *)
(* whatever other requests and a death of the process do in between.          *)
OneEffectPerRequest ==
  \A r \in Requests :
     sent[r] # NoCommand /\ sent[r].kind # "finding" /\ Involved(sent[r]) \cap raced = {}
        => changes[r] <= 1

(***************************************************************************)
(* Why OneEffectPerRequest and NothingLeftBehind hold of cases that one       *)
(* request at a time works on: the inductive invariant.                     *)
(***************************************************************************)
(* A case that two requests have in hand has been raced.                     *)
RacedInv ==
  \A t, u \in Threads : t # u /\ hand[t] # Idle /\ hand[u] # Idle =>
     Involved(CommandOf(t)) \cap Involved(CommandOf(u)) \subseteq raced

(* The request that split the case off; it never changes.                    *)
SplitBy(card) == {r \in Requests : <<"manual_split", r>> \in card.evidence}

(* A copy of case c is current, unless c has been raced.                     *)
CopyOf(c, card) ==
  /\ cards[c].status # "none" /\ card.status # "none"
  /\ SplitBy(card) = SplitBy(cards[c])
  /\ c \notin raced => card = cards[c]

CopiesInv(t) ==
  LET h   == hand[t]
      cmd == CommandOf(t)
  IN  /\ h.pc \in {"source", "child", "save"} => CopyOf(cmd.case, h.target)
      /\ h.pc = "save" /\ cmd.kind = "merge" => CopyOf(cmd.from, h.source) /\ cmd.from # cmd.case

(* Request r is a correction whose cases no other request has worked on.     *)
Undisturbed(r) ==
  sent[r] # NoCommand /\ sent[r].kind # "finding" /\ Involved(sent[r]) \cap raced = {}

SplitOff(r, c) == cards[c].status # "none" /\ r \in SplitBy(cards[c])

(* By what a repetition of the request finds that there is nothing to do.    *)
Marked(r) ==
  LET card == cards[sent[r].case] IN
  /\ card.status # "none"
  /\ IF sent[r].kind = "split" THEN \E c \in card.related : SplitOff(r, c)
     ELSE \E rule \in Rules : <<rule, r>> \in card.evidence

EffectsInv ==
  \A r \in Requests :
     /\ sent[r] = NoCommand => changes[r] = 0
     /\ Undisturbed(r) => changes[r] <= 1 /\ (changes[r] = 1 => Marked(r))

(* A request that is about to be saved has not been saved before; one that is *)
(* still looking for the case it split off has that one before it.           *)
RepeatInv(t) ==
  LET h == hand[t] IN
  Undisturbed(h.req) =>
    /\ h.pc \in {"source", "save"} => changes[h.req] = 0
    /\ h.pc = "child" /\ changes[h.req] = 1 => \E c \in h.left : SplitOff(h.req, c)

AloneInv ==
  /\ IInv /\ RacedInv /\ EffectsInv
  /\ \A c \in Cases : cards[c].status = "none" => cards[c] = NoCard
  /\ \A t \in Threads : hand[t] # Idle => CopiesInv(t) /\ RepeatInv(t)

(* The same, whenever it is sent again: split is idempotent under its request *)
(* id (docs/pt_techlab_2026_sprint_plan.md).                                 *)
SplitIsIdempotent ==
  \A r \in Requests : Cardinality({c \in Cases : <<"manual_split", r>> \in cards[c].evidence}) <= 1

(* What was answered with success is in the ledger of operations.            *)
AnsweredIsRecorded ==
  \A r \in answered : changes[r] > 0 => <<r, sent[r].case>> \in ledger

(* Every event of a case stays in a case of the queue unless it is detached.  *)
EventsStayOpen ==
  [][\A e \in Events :
       (\E c \in Cases : cards[c].status = "open" /\ e \in cards[c].events) =>
          \/ \E c \in Cases : cards'[c].status = "open" /\ e \in cards'[c].events
          \/ \E t \in Threads : hand[t] # Idle /\ CommandOf(t).kind = "detach"]_vars
=============================================================================
