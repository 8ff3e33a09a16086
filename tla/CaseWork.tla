------------------------------ MODULE CaseWork ------------------------------
(* The work of the analysts on the cards: decisions, work permits, formal    *)
(* verdicts, editions of the final description and their approval, attempts  *)
(* of remediation and the forensic bundle that leaves its mark in the log.   *)
(* Every handler runs on a thread of the pool of the API: it reads the whole *)
(* card, changes its copy and writes the whole card back, without a lock in  *)
(* between, and some of them write a line of the operation ledger after it.  *)
(* The last writer wins.  CaseStore has the transaction of one save in       *)
(* detail; here it is one step.                                              *)
EXTENDS CaseAnalysis

CONSTANTS
  Cases,        \* case ids
  Threads,      \* threads of the pool that serve requests
  Commands,     \* what an analyst may ask for: records with kind and case
  Facts,        \* [Cases -> the facts that the work does not change]
  Earlier,      \* [Cases -> set of cards]: what earlier days may have left
  MaxRequests,  \* bound: requests accepted
  MaxDeaths     \* bound: deaths of the process

CommandKinds == {"decision", "permit", "verdict", "summary", "approve", "remediation",
                 "recheck", "bundle"}

ASSUME CaseWorkAssumption ==
  /\ MaxRequests \in Nat /\ MaxDeaths \in Nat
  /\ Commands # {} /\ \A cmd \in Commands : cmd.case \in Cases /\ cmd.kind \in CommandKinds

VARIABLES
  cards,     \* [Cases -> card]: the table of cases
  baseline,  \* the cases whose (asset, operation) is marked as expected
  ledger,    \* [Cases -> Seq]: lines of the ledger about a case
  flight,    \* [Threads -> the request a thread serves]
  asked,     \* requests accepted so far
  deaths,    \* deaths of the process so far
  stale      \* history: the cases in which a save met another card than it had read

deskVars == <<cards, baseline, ledger, flight, asked, deaths, stale>>

Statuses == {"NEW", "TRIAGE", "CONFIRMED", "FALSE_POSITIVE", "EXPECTED_BEHAVIOR"}

NewCard == [status |-> "NEW", decisions |-> <<>>, permits |-> <<>>, records |-> <<>>,
            editions |-> <<>>, attempts |-> <<>>, audit |-> <<>>]

(* Where a thread is with its request; base is the card it has read, text    *)
(* what its analyst had read of the edition to approve, ready the outcome of *)
(* the checklist that a recheck or a bundle asks for.                        *)
Free == [at |-> "free"]
At(cmd, at, base, text, ready) ==
  [at |-> at, cmd |-> cmd, base |-> base, text |-> text, ready |-> ready]
Serving == {t \in Threads : flight[t].at # "free"}

(* ---- what a handler makes of its copy ----------------------------------- *)
Logged(card, what, actor) ==
  [card EXCEPT !.audit = Append(@, [what |-> what, actor |-> actor])]

CanTransition(from, to) ==
  \/ from = "NEW" /\ to \in Statuses \ {"NEW"}
  \/ from = "TRIAGE" /\ to \in Statuses \ {"NEW", "TRIAGE"}
  \/ from = "EXPECTED_BEHAVIOR" /\ to = "TRIAGE"

SubmitDecision(facts, card, to) ==
  LET decided == Logged([card EXCEPT !.status = to,
                                     !.decisions = Append(@, [from |-> card.status, to |-> to])],
                        "decision", TRUE)
  IN IF to = "EXPECTED_BEHAVIOR" /\ facts.asset # Blank
     THEN Logged(decided, "baseline", FALSE) ELSE decided

(* Mutated form: both verdicts are read off the card that has the permit.    *)
AttachPermitLate(facts, card, permit) ==
  LET attached == [card EXCEPT !.permits = Append(@, PermitVerdict(facts, permit))]
      recorded == [attached EXCEPT !.records =
                     Append(@, [prev |-> ForensicVerdict(attached),
                                next |-> ForensicVerdict(attached), source |-> "permit"])]
  IN Logged(Logged(recorded, "permit", TRUE), "verdict", TRUE)

(* The formal verdict before is taken before the permit joins the card, the  *)
(* one after it when the permit is in but its record is not.                 *)
AttachPermit(facts, card, permit) ==
  LET attached == [card EXCEPT !.permits = Append(@, PermitVerdict(facts, permit))]
      recorded == [attached EXCEPT !.records =
                     Append(@, [prev |-> ForensicVerdict(card), next |-> ForensicVerdict(attached),
                                source |-> "permit"])]
  IN Logged(Logged(recorded, "permit", TRUE), "verdict", TRUE)

ConfirmVerdict(card, verdict) ==
  Logged(Logged([card EXCEPT !.records = Append(@, [prev |-> ForensicVerdict(card), next |-> verdict,
                                                    source |-> "operator"])],
                "verdict", TRUE), "confirmation", TRUE)

(* The same text with the same confidence makes no new edition.              *)
SameAsLast(card, text) ==
  card.editions # <<>> /\ card.editions[Len(card.editions)].text = text

SaveSummary(card, text) ==
  Logged([card EXCEPT !.editions = Append(@, [version |-> Len(@) + 1, text |-> text,
                                              approved |-> FALSE])], "edition", TRUE)

(* Mutated form: the newest edition is approved, whatever number was asked.  *)
ApproveNewest(card, version) ==
  Logged([card EXCEPT !.editions[Len(card.editions)].approved = TRUE], "approval", TRUE)

ApproveSummary(card, version) ==
  LET i == CHOOSE i \in DOMAIN card.editions : card.editions[i].version = version
  IN Logged([card EXCEPT !.editions[i].approved = TRUE], "approval", TRUE)

RecordAttempt(facts, card, cmd) ==
  Logged([card EXCEPT !.attempts = Append(@, [kind |-> cmd.remedy, status |-> cmd.status,
                                              before |-> ReadinessOk(facts, card),
                                              after |-> ReadinessOk(facts, card)])],
         "remediation", TRUE)

(* The recheck closes the attempt it names, if it names one (0 is none), by  *)
(* the checklist it was given.                                               *)
Rechecked(attempt, ready) ==
  [attempt EXCEPT !.after = ready,
                  !.status = IF @ \notin {"recorded", "started"} THEN @
                             ELSE IF ready THEN "completed" ELSE "failed"]

RecheckReadiness(card, i, ready) ==
  Logged(IF i = 0 THEN card ELSE [card EXCEPT !.attempts[i] = Rechecked(@, ready)],
         "recheck", TRUE)

(* ---- the requests -------------------------------------------------------- *)
(* What the handler checks on the card it has read; a refused request leaves *)
(* no trace at all.                                                          *)
Accepts(cmd, card) ==
  CASE cmd.kind = "decision" -> CanTransition(card.status, cmd.to)
    [] cmd.kind = "permit" -> cmd.permit.number # Blank
    [] cmd.kind = "verdict" -> cmd.verdict \in Triad
    [] cmd.kind = "summary" -> cmd.text # Blank /\ ~SameAsLast(card, cmd.text)
    [] cmd.kind = "approve" -> \E i \in DOMAIN card.editions :
                                 /\ card.editions[i].version = cmd.version
                                 /\ ~card.editions[i].approved
    [] cmd.kind = "recheck" -> cmd.attempt \in 0..Len(card.attempts)
    [] cmd.kind \in {"remediation", "bundle"} -> TRUE

Worked(cmd, card, ready) ==
  LET facts == Facts[cmd.case]
  IN CASE cmd.kind = "decision" -> SubmitDecision(facts, card, cmd.to)
       [] cmd.kind = "permit" -> AttachPermit(facts, card, cmd.permit)
       [] cmd.kind = "verdict" -> ConfirmVerdict(card, cmd.verdict)
       [] cmd.kind = "summary" -> SaveSummary(card, cmd.text)
       [] cmd.kind = "approve" -> ApproveSummary(card, cmd.version)
       [] cmd.kind = "remediation" -> RecordAttempt(facts, card, cmd)
       [] cmd.kind = "recheck" -> RecheckReadiness(card, cmd.attempt, ready)
       [] cmd.kind = "bundle" -> Logged(card, "bundle", TRUE)

(* An analyst opens the page of the case and reads the edition that is going *)
(* to be approved by its number.                                             *)
Look(t, cmd) ==
  /\ flight[t].at = "free" /\ cmd.kind = "approve" /\ asked < MaxRequests
  /\ \E i \in DOMAIN cards[cmd.case].editions :
       /\ cards[cmd.case].editions[i].version = cmd.version
       /\ flight' = [flight EXCEPT ![t] = At(cmd, "looked", NewCard,
                                            cards[cmd.case].editions[i].text, FALSE)]
  /\ asked' = asked + 1
  /\ UNCHANGED <<cards, baseline, ledger, deaths, stale>>

Read(t, cmd) ==
  /\ flight[t].at = "free" /\ cmd.kind # "approve" /\ asked < MaxRequests
  /\ Accepts(cmd, cards[cmd.case])
  /\ flight' = [flight EXCEPT ![t] = At(cmd, "read", cards[cmd.case], Blank, FALSE)]
  /\ asked' = asked + 1
  /\ UNCHANGED <<cards, baseline, ledger, deaths, stale>>

(* The approval arrives: the card is read again, and may refuse the number.  *)
ReadAgain(t) ==
  /\ flight[t].at = "looked"
  /\ LET f == flight[t]
     IN flight' = [flight EXCEPT ![t] = IF Accepts(f.cmd, cards[f.cmd.case])
                                        THEN At(f.cmd, "read", cards[f.cmd.case], f.text, FALSE)
                                        ELSE Free]
  /\ UNCHANGED <<cards, baseline, ledger, asked, deaths, stale>>

(* A recheck and a bundle ask for the checklist, which reads the card for    *)
(* itself.                                                                   *)
AskChecklist(t) ==
  /\ flight[t].at = "read" /\ flight[t].cmd.kind \in {"recheck", "bundle"}
  /\ LET c == flight[t].cmd.case
     IN flight' = [flight EXCEPT ![t] = At(flight[t].cmd, "ready", flight[t].base, Blank,
                                          Checklist(Facts[c], cards[c]).ready)]
  /\ UNCHANGED <<cards, baseline, ledger, asked, deaths, stale>>

(* The store of expected behaviour commits on its own, before the card.      *)
MarkExpected(t) ==
  /\ flight[t].at = "read" /\ flight[t].cmd.kind = "decision"
  /\ flight[t].cmd.to = "EXPECTED_BEHAVIOR" /\ Facts[flight[t].cmd.case].asset # Blank
  /\ baseline' = baseline \cup
       (IF Facts[flight[t].cmd.case].op = Blank THEN {} ELSE {flight[t].cmd.case})
  /\ flight' = [flight EXCEPT ![t].at = "marked"]
  /\ UNCHANGED <<cards, ledger, asked, deaths, stale>>

ReadyToSave(f) ==
  \/ f.at \in {"ready", "marked"}
  \/ f.at = "read" /\ f.cmd.kind \notin {"recheck", "bundle", "decision"}
  \/ f.at = "read" /\ f.cmd.kind = "decision"
     /\ (f.cmd.to # "EXPECTED_BEHAVIOR" \/ Facts[f.cmd.case].asset = Blank)

(* What goes to the ledger: the lines beyond as many as the stored log has.  *)
NewLines(kept, mine) == SubSeq(mine.audit, Len(kept.audit) + 1, Len(mine.audit))

Noted == {"decision", "permit", "verdict", "summary", "approve"}

(* The whole card goes back, every column of it, whatever is stored now.     *)
Save(t) ==
  /\ ReadyToSave(flight[t])
  /\ LET f    == flight[t]
         c    == f.cmd.case
         mine == Worked(f.cmd, f.base, f.ready)
     IN /\ cards' = [cards EXCEPT ![c] = mine]
        /\ ledger' = [ledger EXCEPT ![c] =
             @ \o [i \in DOMAIN NewLines(cards[c], mine) |->
                      [what |-> NewLines(cards[c], mine)[i].what, op |-> FALSE]]]
        /\ stale' = IF cards[c] = f.base THEN stale ELSE stale \cup {c}
        /\ flight' = [flight EXCEPT ![t] = IF f.cmd.kind \in Noted
                                           THEN At(f.cmd, "saved", mine, Blank, FALSE) ELSE Free]
  /\ UNCHANGED <<baseline, asked, deaths>>

(* record_operation_event, in a transaction of its own.                      *)
Note(t) ==
  /\ flight[t].at = "saved"
  /\ LET f == flight[t]
     IN ledger' = [ledger EXCEPT ![f.cmd.case] = Append(@, [what |-> f.cmd.kind, op |-> TRUE])]
  /\ flight' = [flight EXCEPT ![t] = Free]
  /\ UNCHANGED <<cards, baseline, asked, deaths, stale>>

(* The process dies and is started again: only the files remain.             *)
Die ==
  /\ deaths < MaxDeaths /\ Serving # {}
  /\ flight' = [t \in Threads |-> Free]
  /\ deaths' = deaths + 1
  /\ UNCHANGED <<cards, baseline, ledger, asked, stale>>

(* The ledger that belongs to a card whose requests have all ended.          *)
LedgerOf(card) ==
  LET ops(what, n) == [i \in 1..n |-> [what |-> what, op |-> TRUE]]
  IN [i \in DOMAIN card.audit |-> [what |-> card.audit[i].what, op |-> FALSE]]
     \o ops("decision", Len(card.decisions)) \o ops("permit", Len(card.permits))
     \o ops("summary", Len(card.editions))

DeskInit ==
  /\ cards \in {f \in [Cases -> UNION {Earlier[c] : c \in Cases}] :
                \A c \in Cases : f[c] \in Earlier[c]}
  /\ baseline = {c \in Cases : \E i \in DOMAIN cards[c].audit : cards[c].audit[i].what = "baseline"}
  /\ ledger = [c \in Cases |-> LedgerOf(cards[c])]
  /\ flight = [t \in Threads |-> Free]
  /\ asked = 0 /\ deaths = 0 /\ stale = {}

DeskNext ==
  \/ \E t \in Threads, cmd \in Commands : Look(t, cmd) \/ Read(t, cmd)
  \/ \E t \in Threads : ReadAgain(t) \/ AskChecklist(t) \/ MarkExpected(t) \/ Save(t) \/ Note(t)
  \/ Die

DeskSpec == DeskInit /\ [][DeskNext]_deskVars

-----------------------------------------------------------------------------
DeskTypeOK ==
  /\ \A c \in Cases : cards[c].status \in Statuses
  /\ baseline \subseteq Cases /\ stale \subseteq Cases
  /\ asked \in 0..MaxRequests /\ deaths \in 0..MaxDeaths
  /\ \A t \in Threads : flight[t].at \in {"free", "looked", "read", "ready", "marked", "saved"}

LinesAbout(lines, what) == Cardinality({i \in DOMAIN lines : lines[i].what = what})

(* The history of the status: every decision starts where the one before it  *)
(* ended, by a transition that is allowed, and the last one is the status.   *)
DecisionsChain(card) ==
  /\ card.status = IF card.decisions = <<>> THEN "NEW" ELSE card.decisions[Len(card.decisions)].to
  /\ \A i \in DOMAIN card.decisions :
       /\ CanTransition(card.decisions[i].from, card.decisions[i].to)
       /\ card.decisions[i].from = IF i = 1 THEN "NEW" ELSE card.decisions[i - 1].to

(* The history of the formal verdict: a record starts from the verdict that  *)
(* was in force, which is what the record before it says, except after a     *)
(* permit that was attached to a confirmed verdict (see RecordTellsVerdict). *)
VerdictsChain(card) ==
  \A i \in DOMAIN card.records :
    LET over == i > 2 /\ card.records[i - 1].source = "permit"
                /\ card.records[i - 2].source = "operator"
    IN over \/ card.records[i].prev = (IF i = 1 THEN "UNDET" ELSE card.records[i - 1].next)

(* The editions are numbered without a gap, no permit is without its record, *)
(* and the log has a line for each of them.                                  *)
TellsItsStory(card) ==
  /\ DecisionsChain(card) /\ VerdictsChain(card)
  /\ \A i \in DOMAIN card.editions : card.editions[i].version = i
  /\ LinesAbout(card.audit, "decision") = Len(card.decisions)
  /\ LinesAbout(card.audit, "edition") = Len(card.editions)
  /\ LinesAbout(card.audit, "permit") = Len(card.permits)
  /\ LinesAbout(card.audit, "verdict") = Len(card.records)
  /\ LinesAbout(card.audit, "approval")
       = Cardinality({i \in DOMAIN card.editions : card.editions[i].approved})

(* Every card tells a story that can have happened, whichever saves have     *)
(* overwritten which: decisions and verdicts chain up, the editions are      *)
(* numbered without a gap, no permit is without its record, and the log has  *)
(* a line for each of them (docs: the log of a case is append-only).         *)
CardTellsItsStory == \A c \in Cases : TellsItsStory(cards[c])

(* An edition becomes approved only by somebody who has read that very text: *)
(* approval names the number the page showed.  The code keeps this as long   *)
(* as no two saves of the case overlap (see NeverApprovedBlindly).           *)
ApprovedWasRead ==
  [][\A c \in Cases : \A i \in DOMAIN cards'[c].editions :
       /\ cards'[c].editions[i].approved
       /\ ~(i \in DOMAIN cards[c].editions /\ cards[c].editions[i].approved)
       => \/ c \in stale'
          \/ \E t \in Threads : /\ flight[t].at = "read" /\ flight[t].cmd.kind = "approve"
                               /\ flight[t].text = cards'[c].editions[i].text]_deskVars

(* The readers of a card agree: something is to be fetched exactly when the  *)
(* verdict is undetermined, and then it is never well founded; the three     *)
(* computations of readiness give one answer, and the report over all cases  *)
(* counts no case ready that lacks its permit or its bundle; brief, draft    *)
(* and current edition show what the card says.                              *)
CardReadersAgree ==
  /\ \A c \in Cases :
       LET card  == cards[c]
           found == VerdictConfidence(Facts[c], card)
           brief == DecisionBrief(Facts[c], card)
           codes == MissingCodes(Facts[c], card)
           draft == SummaryTemplate(Facts[c], card, 0, 1)
       IN /\ (found.missing # {}) <=> (found.verdict = "UNDET")
          /\ found.grade = "high" => found.missing = {}
          /\ codes = {} <=> ReadinessOk(Facts[c], card)
          /\ codes = {} <=> Checklist(Facts[c], card).ready
          /\ brief.last.to = brief.status /\ brief.verdict = found.verdict
          /\ draft.decision = card.status
          /\ "no_document" \in draft.gaps <=> "manual_permit" \in codes
          /\ (\E i \in DOMAIN card.editions : card.editions[i].approved)
               => card.editions[Current(card)].approved
  /\ LET report == ComplianceReport(Facts, cards)
     IN report.ready <= report.bundled /\ report.ready <= report.total - report.unpermitted

(* Work leaves its traces outside the card: expected behaviour is marked     *)
(* before a card says so, even if the process dies in between; and as long   *)
(* as no saves overlapped and nothing died, the ledger has every line of the *)
(* log in its order and, once the request has ended, the operation too; an   *)
(* attempt that a recheck found ready belongs to a case that is ready.       *)
WorkLeavesTraces ==
  \A c \in Cases :
    LET card   == cards[c]
        lines  == SelectSeq(ledger[c], LAMBDA l : ~l.op)
        ops(k) == LinesAbout(SelectSeq(ledger[c], LAMBDA l : l.op), k)
    IN /\ LinesAbout(card.audit, "baseline") > 0 /\ Facts[c].op # Blank => c \in baseline
       /\ c \notin stale =>
            /\ [i \in DOMAIN lines |-> lines[i].what] = [i \in DOMAIN card.audit |-> card.audit[i].what]
            /\ \A i \in DOMAIN card.attempts : card.attempts[i].after => ReadinessOk(Facts[c], card)
       /\ c \notin stale /\ deaths = 0 /\ (\A t \in Threads : flight[t].at # "saved") =>
            /\ ops("decision") = Len(card.decisions) /\ ops("permit") = Len(card.permits)
            /\ ops("summary") = Len(card.editions)

(* Stated by the docstring of approve ("утвердить вслепую чужую правку       *)
(* нельзя"), and not kept: two saves that overlap give two texts one number. *)
NeverApprovedBlindly ==
  [][\A t \in Threads : ReadyToSave(flight[t]) /\ flight[t].cmd.kind = "approve" /\ Save(t)
       => flight[t].base.editions[flight[t].cmd.version].text = flight[t].text]_deskVars

(* What a reader of the records would take them to say, and not kept: the    *)
(* record of a permit attached to a confirmed verdict names the confirmed    *)
(* verdict as the next one, while the permit's verdict is the one in force.  *)
RecordTellsVerdict ==
  \A c \in Cases : cards[c].records # <<>> =>
    cards[c].records[Len(cards[c].records)].next = ForensicVerdict(cards[c])

-----------------------------------------------------------------------------
(* Why CardTellsItsStory and ApprovedWasRead hold: the inductive invariant.  *)

IsList(s) == s \in Seq({s[i] : i \in DOMAIN s})

IsCard(card) ==
  /\ DOMAIN card = DOMAIN NewCard
  /\ \A f \in DOMAIN NewCard \ {"status"} : IsList(card[f])
  /\ \A i \in DOMAIN card.editions :
       DOMAIN card.editions[i] = {"version", "text", "approved"} /\ card.editions[i].approved \in BOOLEAN

(* The newest record says which verdict is in force, unless it is that of a  *)
(* permit attached to a confirmed verdict.                                   *)
LastWord(card) ==
  LET n == Len(card.records)
  IN IF n = 0 THEN card.permits = <<>>
     ELSE /\ card.records[n].source \in {"permit", "operator"}
          /\ card.records[n].source = "permit" =>
               /\ card.permits # <<>>
               /\ \/ n > 1 /\ card.records[n - 1].source = "operator"
                  \/ card.records[n].next = card.permits[Len(card.permits)].verdict

CardIsTold(card) == IsCard(card) /\ LastWord(card) /\ TellsItsStory(card)

(* What earlier days have left is the work of the same handlers.             *)
ASSUME EarlierAssumption == \A c \in Cases : \A card \in Earlier[c] : CardIsTold(card)

(* Whoever has a card in hand has read one that tells its story, and it      *)
(* accepts the request.                                                      *)
FlightIsTold(f) ==
  /\ DOMAIN f = {"at", "cmd", "base", "text", "ready"} /\ f.cmd \in Commands
  /\ f.at \in {"looked", "read", "ready", "marked", "saved"}
  /\ f.at = "looked" => f.cmd.kind = "approve"
  /\ f.at \in {"ready", "marked"} => f.cmd.kind # "approve"
  /\ f.at \in {"read", "ready", "marked"} => CardIsTold(f.base) /\ Accepts(f.cmd, f.base)

FlightsTold == \A t \in Threads : flight[t] # Free => FlightIsTold(flight[t])

(* As long as no saves of the case overlapped, the edition that is being     *)
(* approved still has the text that the analyst has read.                    *)
TextIsRead(f) ==
  f.at \in {"looked", "read"} /\ f.cmd.kind = "approve" /\ f.cmd.case \notin stale =>
    /\ f.cmd.version \in DOMAIN cards[f.cmd.case].editions
    /\ cards[f.cmd.case].editions[f.cmd.version].text = f.text

TextsRead == \A t \in Threads : TextIsRead(flight[t])

DeskInv ==
  /\ DOMAIN cards = Cases /\ DOMAIN flight = Threads
  /\ \A c \in Cases : CardIsTold(cards[c])
  /\ FlightsTold /\ TextsRead
=============================================================================
