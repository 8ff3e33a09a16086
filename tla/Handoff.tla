------------------------------ MODULE Handoff --------------------------------
(* What of a case leaves the system: the passport as a PDF, whose hash is    *)
(* kept on the card; the card for GosSOPKA; and the forwarding to a SIEM,    *)
(* with its list of permitted destinations, the address pinned for all the   *)
(* attempts, and retries over a network that loses posts and answers.        *)
(*                                                                           *)
(* A card is one of CaseAnalysis with findings and artifacts (sequences) and *)
(* seal: the hash and the moment of the last passport.  A line of its log    *)
(* about a passport carries the hash.  A destination: scheme, userinfo, host *)
(* (its labels from the top level down), port and path (its segments).       *)
EXTENDS ForensicBundle, Functions, TLC

CONSTANTS
  Couriers,      \* threads that serve requests
  Dossier,       \* the facts of the case
  HitRules,      \* set: the rules that have hit
  NewCase,       \* the card at the start
  Tasks,         \* set of "finding", "artifact", "decision", "edition", "approval"
  Limit,         \* record: how many findings, decisions and lines are shown, and tail
  Destinations,  \* set of destinations that requests name
  Setups,        \* set of configurations: profile, bypass, rules
  Resolutions,   \* set of Seq of addresses: what the name service may answer
  Inside,        \* set of addresses that are private, loopback or the like
  Retries,       \* siem_webhook.retries
  Slots,         \* 8 in the code: forwards of the asynchronous kind at a time
  MaxAsks,       \* bound: requests
  MaxTicks,      \* bound: seconds
  MaxFalls       \* bound: deaths of the process

Unsealed == [sha |-> <<>>, at |-> 0]

PaperFields == {"status", "decisions", "permits", "records", "attempts", "editions", "findings",
                "artifacts", "audit", "seal"}

ASSUME HandoffAssumption ==
  /\ Retries \in Int /\ Slots \in Nat \ {0} /\ {MaxAsks, MaxTicks, MaxFalls} \subseteq Nat
  /\ Tasks \subseteq {"finding", "artifact", "decision", "edition", "approval"}
  /\ DOMAIN NewCase = PaperFields /\ NewCase.seal = Unsealed
  /\ \A addresses \in Resolutions : addresses \in Seq(Range(addresses))
  /\ NewCase.audit \in Seq(Range(NewCase.audit)) /\ \A line \in Range(NewCase.audit) : line.what # "pdf"

VARIABLES
  setup,     \* profile, bypass and rules: the configuration
  onFile,    \* the saved card
  now,       \* seconds
  courier,   \* [Couriers -> where the thread is with its request]
  receiver,  \* Seq: what the SIEM has accepted
  asks, falls,
  handed,    \* history: set of passports handed out, with the card they show
  answered,  \* history: set of forwards answered
  raced      \* history: a save overwrote what another had saved since its read

handoffVars == <<setup, onFile, now, courier, receiver, asks, falls, handed, answered, raced>>

LastOf(items, n) == SubSeq(items, IF Len(items) > n THEN Len(items) - n + 1 ELSE 1, Len(items))
FirstOf(items, n) == SubSeq(items, 1, IF Len(items) > n THEN n ELSE Len(items))

(* ---- the passport -------------------------------------------------------- *)
VisibleLog(c) == SelectSeq(c.audit, LAMBDA line : line.what # "pdf")

Section(items, limit) == [total |-> Len(items), shown |-> FirstOf(items, limit)]

SummarySection(c) ==
  LET approved == SelectSeq(c.editions, LAMBDA e : e.approved)
  IN IF c.editions = <<>> THEN [version |-> 0, approved |-> FALSE]
     ELSE LET e == IF approved # <<>> THEN approved[Len(approved)] ELSE c.editions[Len(c.editions)]
          IN [version |-> e.version, approved |-> e.approved]

(* The card as a passport shows it: without its earlier passports.           *)
Shown(c) == [c EXCEPT !.seal = Unsealed, !.audit = VisibleLog(c)]

OpenQuestions(c) ==
  {q \in {"quality", "decision", "document", "findings"} :
     CASE q = "quality" -> Dossier.partial \/ Dossier.gaps
       [] q = "decision" -> c.decisions = <<>>
       [] q = "document" -> c.permits = <<>>
       [] q = "findings" -> c.findings = <<>>}

Draw(shown, at) ==
  [at |-> at, status |-> shown.status, dq |-> Dossier.dq, summary |-> SummarySection(shown),
   findings |-> Section(shown.findings, Limit.findings),
   artifacts |-> Section(shown.artifacts, Limit.artifacts),
   decisions |-> Section(shown.decisions, Limit.decisions), questions |-> OpenQuestions(shown),
   log |-> LastOf(shown.audit, Limit.log),
   cut |-> IF Len(shown.audit) > Limit.log THEN Len(shown.audit) ELSE 0]

RenderCasePdf(c, at) == Draw(Shown(c), at)

(* A card that has been exported keeps the moment of its first passport.     *)
PdfGeneratedAt(c) == IF c.seal = Unsealed THEN now ELSE c.seal.at

RenderDecisionBrief(c) == [at |-> PdfGeneratedAt(c), brief |-> DecisionBrief(Dossier, c)]

Sealed(c, doc) ==
  LET seal == [sha |-> Sha(doc), at |-> doc.at]
  IN IF c.seal = seal THEN c
     ELSE [c EXCEPT !.seal = seal,
                    !.audit = Append(@, [what |-> "pdf", actor |-> FALSE, sha |-> Sha(doc)])]

(* ---- the cards for other systems ----------------------------------------- *)
IncidentCategory(hits) ==
  IF hits \cap {"c2_external_dns", "lateral_movement", "brute_force"} # {} THEN "attack_signs"
  ELSE IF hits \cap {"runtime_config_change", "log_wiping", "illegal_function_code"} # {}
  THEN "unauthorized_change"
  ELSE IF hits \cap {"physical_invariant_breach", "conflict_logic", "blind_command"} # {}
  THEN "process_disruption" ELSE "to_be_triaged"

(* What the card says of the signature: a guess from the settings alone,     *)
(* where BuildSignature knows what the external service has answered.        *)
SignatureStatusDefault(signer) ==
  IF signer.external # "none"
  THEN IF signer.strict THEN "external_gost2012_detached" ELSE "external_qualified_detached"
  ELSE IF signer.secret /\ ~signer.strict THEN "hmac_sha256_mvp" ELSE "unsigned_mvp"

GossopkaPermits(c) == [i \in DOMAIN c.permits |-> [number |-> c.permits[i].number,
                                                  verdict |-> c.permits[i].verdict]]

GossopkaCard(c, signer) ==
  LET permits == GossopkaPermits(c)
  IN [status |-> c.status, verdict |-> ForensicVerdict(c), category |-> IncidentCategory(HitRules),
      class |-> ActionClass(Dossier.op), signature |-> SignatureStatusDefault(signer),
      permits |-> permits,
      latest |-> IF permits = <<>> THEN "none" ELSE permits[Len(permits)].verdict,
      attempts |-> c.attempts, decisions |-> c.decisions, tail |-> LastOf(c.audit, Limit.log)]

OfficialCard(c, signer) == [profile |-> "interop"] @@ GossopkaCard(c, signer)

SiemPayload(c) ==
  [status |-> c.status, dq |-> Dossier.dq, hits |-> HitRules, tail |-> LastOf(c.audit, Limit.tail),
   evidence |-> c.seal]

(* ---- the destination ----------------------------------------------------- *)
DefaultPort(scheme) == IF scheme = "https" THEN 443 ELSE 80
EffectivePort(d) == IF d.port = 0 THEN DefaultPort(d.scheme) ELSE d.port
StartsWith(s, prefix) == Len(prefix) <= Len(s) /\ SubSeq(s, 1, Len(prefix)) = prefix

(* A rule without a port means the default one; a host covers its            *)
(* subdomains; a path covers what is below it, segment by segment.           *)
RuleMatches(rule, d) ==
  /\ rule.scheme = d.scheme /\ StartsWith(d.host, rule.host)
  /\ EffectivePort(d) = EffectivePort(rule)
  /\ rule.path = <<"">> \/ StartsWith(d.path, rule.path)

Loopback == {<<"localhost">>, <<"127.0.0.1">>}

DestinationAllowed(d) ==
  /\ d.scheme \in {"http", "https"} /\ ~d.userinfo /\ d.host # <<>>
  /\ setup.profile = "prod" => d.scheme = "https"
  /\ IF setup.rules = {}
     THEN /\ d.host \in Loopback
          /\ setup.profile = "prod" => EffectivePort(d) = DefaultPort(d.scheme)
     ELSE \E rule \in setup.rules : RuleMatches(rule, d)

(* Every address the name stands for is looked at, not only the first.       *)
EgressAllowed(addresses) ==
  \/ setup.bypass \/ setup.profile # "prod"
  \/ \A i \in DOMAIN addresses : addresses[i] \notin Inside

Attempts == IF Retries > 1 THEN Retries ELSE 1

GivesUp(attempt) == attempt >= Attempts

(* ---- steps --------------------------------------------------------------- *)
Spare == [at |-> "spare"]
Posting == {t \in Couriers : courier[t].at \in {"resolving", "posting"} /\ courier[t].async}

Asked == asks < MaxAsks /\ asks' = asks + 1

TimePasses ==
  /\ now < MaxTicks /\ now' = now + 1
  /\ UNCHANGED <<setup, onFile, courier, receiver, asks, falls, handed, answered, raced>>

(* An analyst's request: the card is read, changed and saved whole.          *)
TakeUp(t, task) ==
  /\ courier[t].at = "spare" /\ Asked
  /\ task = "approval" => onFile.editions # <<>>
  /\ courier' = [courier EXCEPT ![t] = [at |-> "working", base |-> onFile, task |-> task]]
  /\ UNCHANGED <<setup, onFile, now, receiver, falls, handed, answered, raced>>

WorkDone(c, task) ==
  LET noted == [c EXCEPT !.audit = Append(@, [what |-> task, actor |-> TRUE])]
  IN IF task = "finding" THEN [noted EXCEPT !.findings = Append(@, Len(@) + 1)]
     ELSE IF task = "artifact" THEN [noted EXCEPT !.artifacts = Append(@, Len(@) + 1)]
     ELSE IF task = "decision"
     THEN [noted EXCEPT !.decisions = Append(@, [from |-> c.status, to |-> "TRIAGE"]), !.status = "TRIAGE"]
     ELSE IF task = "edition"
     THEN [noted EXCEPT !.editions = Append(@, [version |-> Len(@) + 1, approved |-> FALSE])]
     ELSE [noted EXCEPT !.editions[Len(c.editions)].approved = TRUE]

Keeps(t, new) ==
  /\ onFile' = new
  /\ raced' = (raced \/ onFile # courier[t].base)
  /\ courier' = [courier EXCEPT ![t] = Spare]

HandIn(t) ==
  /\ courier[t].at = "working"
  /\ Keeps(t, WorkDone(courier[t].base, courier[t].task))
  /\ UNCHANGED <<setup, now, receiver, asks, falls, handed, answered>>

(* A passport is asked for; the card is read and drawn ...                   *)
DrawPassport(t) ==
  /\ courier[t].at = "spare" /\ Asked
  /\ courier' = [courier EXCEPT ![t] = [at |-> "drawing", base |-> onFile,
                                        doc |-> RenderCasePdf(onFile, PdfGeneratedAt(onFile))]]
  /\ UNCHANGED <<setup, onFile, now, receiver, falls, handed, answered, raced>>

(* A passport handed out, with the card it shows but for earlier passports.  *)
Passport(doc, c) == [doc |-> doc, of |-> Shown(c)]

(* ... and saved with the hash, unless that is the one it has, and answered. *)
HandOut(t) ==
  /\ courier[t].at = "drawing"
  /\ LET base == courier[t].base
         doc  == courier[t].doc
     IN /\ IF Sealed(base, doc) = base
           THEN courier' = [courier EXCEPT ![t] = Spare] /\ UNCHANGED <<onFile, raced>>
           ELSE Keeps(t, Sealed(base, doc))
        /\ handed' = handed \cup {Passport(doc, base)}
  /\ UNCHANGED <<setup, now, receiver, asks, falls, answered>>

(* A forward begins: the card is read before the destination is looked at,   *)
(* and before the asynchronous kind waits for one of its slots.              *)
BeginForward(t, d, async) ==
  /\ courier[t].at = "spare" /\ Asked
  /\ IF DestinationAllowed(d)
     THEN /\ courier' = [courier EXCEPT ![t] =
                           [at |-> IF async THEN "waiting" ELSE "resolving", async |-> async,
                            to |-> d, base |-> onFile, number |-> asks', attempt |-> 1, pinned |-> 0]]
          /\ UNCHANGED answered
     ELSE /\ answered' = answered \cup {[number |-> asks', code |-> 400, attempts |-> 0, of |-> onFile]}
          /\ UNCHANGED courier
  /\ UNCHANGED <<setup, onFile, now, receiver, falls, handed, raced>>

EnterSlot(t) ==
  /\ courier[t].at = "waiting" /\ Cardinality(Posting) < Slots
  /\ courier' = [courier EXCEPT ![t].at = "resolving"]
  /\ UNCHANGED <<setup, onFile, now, receiver, asks, falls, handed, answered, raced>>

Answers(t, code, attempts) ==
  /\ answered' = answered \cup {[number |-> courier[t].number, code |-> code,
                                 attempts |-> attempts, of |-> courier[t].base]}
  /\ courier' = [courier EXCEPT ![t] = Spare]

(* The name is looked up once, and the first address is that of all posts.   *)
Resolve(t, addresses) ==
  /\ courier[t].at = "resolving"
  /\ courier[t].to.host \in Loopback => addresses # <<>> /\ addresses[1] \in Inside
  /\ IF addresses # <<>> /\ EgressAllowed(addresses)
     THEN /\ courier' = [courier EXCEPT ![t].at = "posting", ![t].pinned = addresses[1]]
          /\ UNCHANGED answered
     ELSE Answers(t, 400, 0)
  /\ UNCHANGED <<setup, onFile, now, receiver, asks, falls, handed, raced>>

(* One attempt: it is accepted and acknowledged; accepted without the answer *)
(* coming back; or not accepted.  Every trouble counts alike, and the last   *)
(* attempt's is answered with 502.                                           *)
PostOnce(t, accepted, acknowledged) ==
  /\ courier[t].at = "posting" /\ (acknowledged => accepted)
  /\ receiver' = IF accepted
                 THEN Append(receiver, [number |-> courier[t].number, at |-> courier[t].pinned,
                                        payload |-> SiemPayload(courier[t].base)])
                 ELSE receiver
  /\ IF acknowledged THEN Answers(t, 200, courier[t].attempt)
     ELSE IF GivesUp(courier[t].attempt) THEN Answers(t, 502, courier[t].attempt)
     ELSE /\ courier' = [courier EXCEPT ![t].attempt = @ + 1]
          /\ UNCHANGED answered
  /\ UNCHANGED <<setup, onFile, now, asks, falls, handed, raced>>

(* The process dies with everything it was serving.                          *)
Fall ==
  /\ falls < MaxFalls /\ falls' = falls + 1
  /\ courier' = [t \in Couriers |-> Spare]
  /\ UNCHANGED <<setup, onFile, now, receiver, asks, handed, answered, raced>>

HandoffInit ==
  /\ setup \in Setups
  /\ \/ onFile = NewCase /\ handed = {}
     \/ LET doc == RenderCasePdf(NewCase, 0)
        IN onFile = Sealed(NewCase, doc) /\ handed = {Passport(doc, NewCase)}
  /\ now = 1 /\ courier = [t \in Couriers |-> Spare]
  /\ receiver = <<>> /\ asks = 0 /\ falls = 0
  /\ answered = {} /\ raced = FALSE

HandoffNext ==
  \/ TimePasses \/ Fall
  \/ \E t \in Couriers :
       \/ \E task \in Tasks : TakeUp(t, task)
       \/ HandIn(t) \/ DrawPassport(t) \/ HandOut(t)
       \/ \E d \in Destinations, async \in BOOLEAN : BeginForward(t, d, async)
       \/ EnterSlot(t)
       \/ \E addresses \in Resolutions : Resolve(t, addresses)
       \/ \E accepted, acknowledged \in BOOLEAN : PostOnce(t, accepted, acknowledged)

HandoffSpec == HandoffInit /\ [][HandoffNext]_handoffVars

-----------------------------------------------------------------------------
CourierFits(r, numbers) ==
  \/ r = Spare
  \/ r.at = "working" /\ r = [at |-> "working", base |-> r.base, task |-> r.task] /\ r.task \in Tasks
  \/ r.at = "drawing" /\ r = [at |-> "drawing", base |-> r.base, doc |-> r.doc]
  \/ /\ r.at \in {"waiting", "resolving", "posting"} /\ r.async \in BOOLEAN
     /\ r = [at |-> r.at, async |-> r.async, to |-> r.to, base |-> r.base, number |-> r.number,
              attempt |-> r.attempt, pinned |-> r.pinned]
     /\ r.number \in numbers /\ r.attempt \in 1..Attempts

HandoffTypeOK ==
  /\ DOMAIN courier = Couriers /\ \A t \in Couriers : CourierFits(courier[t], 1..asks)
  /\ asks \in 0..MaxAsks /\ falls \in 0..MaxFalls /\ raced \in BOOLEAN

(* The lines of a log about passports, and the seal that is the last one's.  *)
PassportLines(c) == {i \in DOMAIN c.audit : c.audit[i].what = "pdf"}

SealIsLast(c) ==
  IF PassportLines(c) = {} THEN c.seal = Unsealed
  ELSE \E i \in PassportLines(c) : /\ \A j \in PassportLines(c) : j <= i
                                   /\ c.audit[i].sha = c.seal.sha

(* A passport can be told from its hash: as long as no two saves raced,    *)
(* every passport handed out is in the log of the card, the seal is that of  *)
(* the last one there, and the same state of the case gives the same         *)
(* passport, byte by byte (the acceptance list of sprint 5: "PDF, скачанный  *)
(* дважды, имеет одинаковый SHA-256 при неизменных данных").                 *)
PassportsAccounted ==
  ~raced =>
    /\ \A p \in handed : \E i \in PassportLines(onFile) : onFile.audit[i].sha = Sha(p.doc)
    /\ SealIsLast(onFile)
    /\ \A p, q \in handed : p.of = q.of => p.doc = q.doc

(* What the receiver has of a request, and what an answer says of it.        *)
Copies(posted, n) == {i \in DOMAIN posted : posted[i].number = n}

AnswerIsTrue(posted, a) ==
  /\ a.code = 200 => Copies(posted, a.number) # {}
  /\ a.code = 400 => Copies(posted, a.number) = {}
  /\ a.code = 502 => a.attempts = Attempts
  /\ \A i \in Copies(posted, a.number) : posted[i].payload = SiemPayload(a.of)
  /\ Cardinality(Copies(posted, a.number)) <= a.attempts

Guarded == setup.profile = "prod" /\ ~setup.bypass

(* A forward that is answered has happened as the answer says: on 200 the    *)
(* receiver has the card as it was read, on 400 nothing has left, on 502 no  *)
(* attempt was left; copies of a request are equal, come from one address    *)
(* and are no more than its attempts; evidence sent with them is of a        *)
(* passport handed out.  No more forwards are under way than have slots; and *)
(* in the profile prod, with no list of destinations, none ever is.          *)
ForwardsToldTrue ==
  /\ \A a \in answered : AnswerIsTrue(receiver, a)
  /\ \A i, j \in DOMAIN receiver : receiver[i].number = receiver[j].number => receiver[i] = receiver[j]
  /\ \A i \in DOMAIN receiver : receiver[i].payload.evidence # Unsealed =>
       \E p \in handed : Sha(p.doc) = receiver[i].payload.evidence.sha
  /\ Cardinality(Posting) <= Slots
  /\ Guarded => /\ \A i \in DOMAIN receiver : receiver[i].at \notin Inside
                /\ setup.rules = {} => receiver = <<>>

(* Inductive, for the passports.  Every thread holds a card as it was on     *)
(* file; the first passport sets the moment that all later ones bear; and a  *)
(* seal is of a passport that was handed out.                                *)
IsPaper(c) == DOMAIN c = PaperFields /\ c.audit \in Seq(Range(c.audit))

Precedes(b, c) ==
  /\ Len(b.audit) <= Len(c.audit) /\ \A i \in DOMAIN b.audit : b.audit[i] = c.audit[i]
  /\ b.seal # Unsealed => c.seal # Unsealed /\ c.seal.at = b.seal.at

SealWasHanded(c, passports) == c.seal # Unsealed => \E p \in passports : Sha(p.doc) = c.seal.sha

Reading == {t \in Couriers : courier[t].at # "spare"}
Drawing == {t \in Couriers : courier[t].at = "drawing"}
Forwarding == {t \in Couriers : courier[t].at \in {"waiting", "resolving", "posting"}}

CardsInHand ==
  /\ IsPaper(onFile) /\ SealWasHanded(onFile, handed)
  /\ \A t \in Reading :
       /\ IsPaper(courier[t].base) /\ SealWasHanded(courier[t].base, handed)
       /\ ~raced => Precedes(courier[t].base, onFile) /\ SealIsLast(courier[t].base)

DrawnAsRead ==
  \A t \in Drawing : LET base == courier[t].base  doc == courier[t].doc
                     IN /\ doc = RenderCasePdf(base, doc.at)
                        /\ base.seal # Unsealed => doc.at = base.seal.at

OneMoment ==
  /\ \A p \in handed : p = [doc |-> Draw(p.of, p.doc.at), of |-> p.of]
  /\ ~raced => \A p \in handed : onFile.seal # Unsealed /\ p.doc.at = onFile.seal.at

PassportInv ==
  /\ HandoffTypeOK /\ CardsInHand /\ DrawnAsRead /\ OneMoment /\ PassportsAccounted

(* Inductive, for the forwards: a request under way has a number of its own, *)
(* and the receiver has no more copies of it than it has made attempts.      *)
OnItsWay(t) ==
  LET f == courier[t]
  IN /\ \A u \in Forwarding : courier[u].number = f.number => u = t
     /\ \A a \in answered : a.number # f.number
     /\ Cardinality(Copies(receiver, f.number)) < f.attempt
     /\ \A i \in Copies(receiver, f.number) :
          receiver[i] = [number |-> f.number, at |-> f.pinned, payload |-> SiemPayload(f.base)]
     /\ f.at # "posting" => Copies(receiver, f.number) = {}
     /\ Guarded /\ setup.rules = {} => f.to.host \in Loopback
     /\ Guarded /\ f.at = "posting" => f.pinned \notin Inside /\ f.to.host \notin Loopback

ForwardInv ==
  /\ PassportInv /\ ForwardsToldTrue /\ IsFiniteSet(Posting)
  /\ receiver \in Seq(Range(receiver)) /\ \A i \in DOMAIN receiver : receiver[i].number \in 1..asks
  /\ \A a \in answered : a.number \in 1..asks
  /\ \A t \in Forwarding : OnItsWay(t)

(* The papers agree with the product and with one another: the passport      *)
(* presents the edition that is current, asks for what the readiness report  *)
(* misses, and drops lines only where it says so; passport, brief, bundle    *)
(* and the card for GosSOPKA name one verdict; and that card tells of the    *)
(* signature what the bundle would get, unless the external service fails.   *)
PapersAgree ==
  LET passport == RenderCasePdf(onFile, PdfGeneratedAt(onFile))
      brief    == RenderDecisionBrief(onFile).brief
      missing  == MissingCodes(Dossier, onFile)
  IN /\ passport.summary.version
          = (IF onFile.editions = <<>> THEN 0 ELSE onFile.editions[Current(onFile)].version)
     /\ "hitl_decision" \in missing => "decision" \in passport.questions
     /\ "manual_permit" \in missing <=> "document" \in passport.questions
     /\ passport.cut = 0 => Len(passport.log) = Len(VisibleLog(onFile))
     /\ \A signer \in [strict : BOOLEAN, external : {"none", "gost", "other"}, secret : BOOLEAN] :
          LET paper == OfficialCard(onFile, signer)
              told  == BuildSignature(signer, Sha(<<"root">>)).status
          IN /\ {paper.verdict, brief.verdict, CasePayload(Dossier, onFile).verdict}
                   = {ForensicVerdict(onFile)}
             /\ told # "refused" => paper.signature = told

(* Not kept when the external service does not answer and a secret or        *)
(* nothing signs instead: the card for GosSOPKA goes on telling of a         *)
(* qualified signature, since it looks at the settings only.                 *)
SignatureToldTrue ==
  \A signer \in [strict : {FALSE}, external : {"failed"}, secret : BOOLEAN] :
    GossopkaCard(onFile, signer).signature = BuildSignature(signer, Sha(<<"root">>)).status
=============================================================================
