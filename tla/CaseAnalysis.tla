---------------------------- MODULE CaseAnalysis ----------------------------
(* What the API reads off one card: the verdict on a work permit, the formal *)
(* verdict and how well it is founded, the readiness of the evidence, the    *)
(* draft of the final description, the decision brief and the effort. All of *)
(* it is computed from the card alone, on every request, and nothing of it   *)
(* is stored; scores are percents.                                           *)
(*                                                                           *)
(* A card: status; decisions, permits, records (of the formal verdict),      *)
(* editions (of the description), attempts (of remediation): sequences in    *)
(* the order they were appended; audit: one record per line of the log.      *)
(* The facts of a case that its work does not change are a record of their   *)
(* own: asset, op, operator, moment, risky (class HIGH or CRITICAL or score  *)
(* at least 0.75), dq (score), partial, gaps (dq_reasons given), hits, trust *)
(* (of its observations), links (kind of evidence of each of its events).    *)
EXTENDS Integers, Sequences, FiniteSets

Blank == 0      \* a field of the permit that was left empty
Garbled == -1   \* a moment that cannot be parsed

CONSTANT ActionClass(_)  \* the class of an operation; of Blank too

Triad == {"LEG", "ILLEG", "UNDET"}

(* start <= moment <= end, both ends parsed: otherwise it is not a window.   *)
WindowContains(moment, from, to) ==
  /\ {from, to} \cap {Blank, Garbled} = {}
  /\ from <= moment /\ moment <= to

(* The class of the action is never empty when the permit arrives here: the  *)
(* handler fills it in from the operation of the permit or of the case.      *)
PermitVerdict(facts, permit) ==
  LET class   == IF permit.class # Blank THEN permit.class
                 ELSE ActionClass(IF permit.op # Blank THEN permit.op ELSE facts.op)
      differs == {f \in {"asset", "op", "class", "executor"} :
                    CASE f = "asset" -> permit.asset \notin {Blank, facts.asset}
                      [] f = "op" -> permit.op \notin {Blank, facts.op}
                      [] f = "class" -> class \notin {Blank, ActionClass(facts.op)}
                      [] f = "executor" -> Blank \notin {permit.executor, facts.operator}
                                           /\ permit.executor # facts.operator}
      unmet   == {u \in {"executor", "approver", "window", "status", "restrictions"} :
                    CASE u = "executor" -> permit.executor = Blank
                      [] u = "approver" -> ~permit.approved
                      [] u = "window" -> ~WindowContains(facts.moment, permit.from, permit.to)
                      [] u = "status" -> ~permit.valid
                      [] u = "restrictions" -> permit.restricted}
      unbound == permit.asset = Blank /\ permit.op = Blank /\ class = Blank
  IN [number |-> permit.number, unmet |-> IF unbound \/ differs # {} THEN {} ELSE unmet,
      verdict |-> IF unbound THEN "UNDET"
                  ELSE IF differs # {} THEN "ILLEG"
                  ELSE IF unmet = {} THEN "LEG" ELSE "UNDET",
      score |-> IF unbound THEN 50
                ELSE IF differs # {} THEN 65
                ELSE IF unmet = {} THEN 95 ELSE 70]

(* The last word: the operator's, when the newest record is a confirmation,  *)
(* else the newest permit's.                                                 *)
Confirmed(card) == card.records # <<>> /\ card.records[Len(card.records)].source = "operator"

ForensicVerdict(card) ==
  IF Confirmed(card) THEN card.records[Len(card.records)].next
  ELSE IF card.permits = <<>> THEN "UNDET"
  ELSE card.permits[Len(card.permits)].verdict

(* Mutated form: nothing to fetch when no condition of the permit failed.     *)
MissingContextBare(card) ==
  IF card.permits = <<>> THEN {"no_document"} ELSE card.permits[Len(card.permits)].unmet

(* What is to be fetched: the unmet conditions of the newest permit, or that *)
(* it is not bound to the case, or that there is no document at all.         *)
MissingContext(card) ==
  LET unmet == card.permits[Len(card.permits)].unmet
  IN IF card.permits = <<>> THEN {"no_document"}
     ELSE IF unmet = {} THEN {"not_bound"} ELSE unmet

SmallestOf(S) == CHOOSE x \in S : \A y \in S : x <= y

WeightOfLink == [rule |-> 100, reasoned |-> 90, bare |-> 60, none |-> 0]

(* The four components, each 0..100. The weakest source decides the trust;   *)
(* an event counts by the best evidence of its link.                         *)
Components(facts, card, triad) ==
  LET Share(kind) == Cardinality({e \in DOMAIN facts.links : facts.links[e] = kind})
                     * WeightOfLink[kind]
  IN [context |-> IF triad \in {"LEG", "ILLEG"} THEN 100
                  ELSE IF card.permits # <<>> THEN 50 ELSE 0,
      quality |-> facts.dq,
      trust |-> IF facts.trust = {} THEN 0 ELSE SmallestOf(facts.trust),
      correlation |-> IF DOMAIN facts.links = {} THEN 0
                      ELSE (Share("rule") + Share("reasoned") + Share("bare"))
                           \div Cardinality(DOMAIN facts.links)]

Grade(score, hasMissing) ==
  IF score >= 7500 THEN IF hasMissing THEN "medium" ELSE "high"
  ELSE IF score >= 5000 THEN "medium" ELSE "low"

VerdictConfidence(facts, card) ==
  LET triad   == ForensicVerdict(card)
      missing == IF triad = "UNDET" THEN MissingContext(card) ELSE {}
      part    == Components(facts, card, triad)
      score   == 40 * part.context + 25 * part.quality + 20 * part.trust + 15 * part.correlation
  IN [verdict |-> triad, score |-> score, missing |-> missing,
      grade |-> Grade(score, missing # {})]

(* ---- readiness of the evidence: computed in three places of the code ---- *)
Bundled(card) == \E i \in DOMAIN card.audit : card.audit[i].what = "bundle"

(* The codes of the readiness report that the case lacks.                    *)
MissingCodes(facts, card) ==
  {c \in {"complete_observability", "invariant_evidence", "hitl_decision", "manual_permit",
          "forensic_bundle_audit"} :
     CASE c = "complete_observability" -> facts.partial
       [] c = "invariant_evidence" -> facts.hits = 0
       [] c = "hitl_decision" -> facts.risky /\ card.decisions = <<>>
       [] c = "manual_permit" -> card.permits = <<>>
       [] c = "forensic_bundle_audit" -> ~Bundled(card)}

(* _readiness_ok of the remediation attempts: early returns, in their order. *)
ReadinessOk(facts, card) ==
  /\ ~facts.partial /\ facts.hits > 0
  /\ ~(facts.risky /\ card.decisions = <<>>)
  /\ card.permits # <<>>
  /\ Bundled(card)

(* The remedy of each item of the checklist that is not fulfilled, and what  *)
(* became of the latest attempt at it.                                       *)
RemedyOf == [complete_observability |-> "ingest_telemetry",
             invariant_evidence |-> "rerun_assessment",
             hitl_decision |-> "submit_decision",
             manual_permit |-> "attach_manual_permit",
             forensic_bundle_audit |-> "generate_forensic_bundle"]

Checklist(facts, card) ==
  LET ok == [c \in DOMAIN RemedyOf |->
               CASE c = "complete_observability" -> ~facts.partial
                 [] c = "invariant_evidence" -> facts.hits > 0
                 [] c = "hitl_decision" -> ~facts.risky \/ card.decisions # <<>>
                 [] c = "manual_permit" -> card.permits # <<>>
                 [] c = "forensic_bundle_audit" -> Bundled(card)]
      tried(c) == {i \in DOMAIN card.attempts : card.attempts[i].kind = RemedyOf[c]}
      last(c)  == CHOOSE i \in tried(c) : \A j \in tried(c) : j <= i
  IN [ready |-> \A c \in DOMAIN ok : ok[c],
      items |-> [c \in DOMAIN ok |->
                   [ok |-> ok[c],
                    attempt |-> IF ok[c] \/ tried(c) = {} THEN "none"
                                ELSE card.attempts[last(c)].status]]]

(* ---- drafts and summaries ----------------------------------------------- *)
(* The gaps named in the draft of the description, and the sections of the   *)
(* draft that come out empty; actions and events are how many the package    *)
(* of measures recommends and how many the event store still has.            *)
SummaryTemplate(facts, card, actions, events) ==
  LET gaps == {g \in {"quality", "no_document", "no_events"} :
                 CASE g = "quality" -> facts.partial \/ facts.gaps
                   [] g = "no_document" -> card.permits = <<>>
                   [] g = "no_events" -> events = 0}
  IN [gaps |-> gaps,
      empty |-> (IF actions = 0 THEN {"response"} ELSE {})
                \cup (IF gaps = {} THEN {"open_questions"} ELSE {}),
      decision |-> IF card.decisions = <<>> THEN card.status
                   ELSE card.decisions[Len(card.decisions)].to]

(* The edition the product shows: the last approved one, else the last.      *)
Current(card) ==
  LET approved == {i \in DOMAIN card.editions : card.editions[i].approved}
  IN IF approved # {} THEN CHOOSE i \in approved : \A j \in approved : j <= i
     ELSE Len(card.editions)

DecisionBrief(facts, card) ==
  LET confidence == VerdictConfidence(facts, card)
  IN [verdict |-> confidence.verdict, missing |-> confidence.missing, grade |-> confidence.grade,
      status |-> card.status,
      last |-> IF card.decisions = <<>> THEN [from |-> "NEW", to |-> "NEW"]
               ELSE card.decisions[Len(card.decisions)],
      documents |-> Len(card.permits), bundled |-> Bundled(card),
      measures |-> [i \in DOMAIN card.attempts |-> card.attempts[i].kind]]

(* The manual actions of the analyst: the lines of the log that name a       *)
(* person; and what the same case costs by hand.                             *)
TaktActions(card) == Cardinality({i \in DOMAIN card.audit : card.audit[i].actor})

ManualActions(sources, entities, events) ==
  sources + entities * sources + entities * (IF sources > 1 THEN sources - 1 ELSE 0) + events + 1

(* ---- the reports over all cases ----------------------------------------- *)
ComplianceReport(facts, all) ==
  LET C == DOMAIN all
  IN [total |-> Cardinality(C),
      open |-> Cardinality({c \in C : all[c].status \in {"NEW", "TRIAGE"}}),
      partial |-> Cardinality({c \in C : facts[c].partial}),
      undecided |-> Cardinality({c \in C : facts[c].risky /\ all[c].decisions = <<>>}),
      bundled |-> Cardinality({c \in C : Bundled(all[c])}),
      unpermitted |-> Cardinality({c \in C : all[c].permits = <<>>}),
      ready |-> Cardinality({c \in C : MissingCodes(facts[c], all[c]) = {}})]
=============================================================================
