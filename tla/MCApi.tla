------------------------------- MODULE MCApi --------------------------------
(* Parts of the API that share no state, checked in one run: turn, chosen at *)
(* the start, names the one that steps, so that their states add up instead  *)
(* of multiplying.  Each part by itself is the specification of its module.  *)
EXTENDS CaseWork, AuditEngagements, Handoff, RiskStream, IngestFront, RateLimit, Settings, CaseQueue,
        IncidentCard, MCDatasetLoad, TLC

CONSTANTS k1, t1, t2, n1, p1, nokey, key1
VARIABLE turn

apiVars == <<turn, deskVars, engagementVars, streamVars, frontVars, limitVars, settingsVars,
             queueVars, incidentVars, handoffVars, loadVars>>

(* ---- the desk ------------------------------------------------------------ *)
Class(op) == CASE op = 11 -> 31 [] op = 12 -> 32 [] OTHER -> 33

FactsData == k1 :>
  [asset |-> 1, op |-> 11, operator |-> 21, moment |-> 5, risky |-> TRUE, dq |-> 90,
   partial |-> FALSE, gaps |-> FALSE, hits |-> 1, trust |-> {80, 100},
   links |-> <<"rule", "reasoned">>]

Permit(number, op, complete) ==
  [number |-> number, asset |-> 1, op |-> op, class |-> Blank, executor |-> 21,
   approved |-> complete, from |-> 4, to |-> 6, valid |-> TRUE, restricted |-> FALSE]

Lines(whats) == [i \in DOMAIN whats |-> [what |-> whats[i], actor |-> TRUE]]
Legitimate == [number |-> 1, unmet |-> {}, verdict |-> "LEG", score |-> 95]

(* A case in triage with a permit and a bundle; and one without a permit,    *)
(* with a verdict that an analyst has confirmed and a description that was    *)
(* approved and then written anew.                                           *)
Permitted ==
  [NewCard EXCEPT !.status = "TRIAGE", !.decisions = <<[from |-> "NEW", to |-> "TRIAGE"]>>,
                  !.permits = <<Legitimate>>,
                  !.records = <<[prev |-> "UNDET", next |-> "LEG", source |-> "permit"]>>,
                  !.audit = Lines(<<"decision", "permit", "verdict", "bundle">>)]

Vouched ==
  [NewCard EXCEPT !.records = <<[prev |-> "UNDET", next |-> "LEG", source |-> "operator"]>>,
                  !.editions = <<[version |-> 1, text |-> 1, approved |-> TRUE],
                                 [version |-> 2, text |-> 2, approved |-> FALSE]>>,
                  !.audit = Lines(<<"verdict", "confirmation", "edition", "approval", "edition">>)]

EarlierData == k1 :> {Permitted, Vouched}

Decision(to) == [kind |-> "decision", case |-> k1, to |-> to]
Attach(permit) == [kind |-> "permit", case |-> k1, permit |-> permit]
Describe(text) == [kind |-> "summary", case |-> k1, text |-> text]

CommandsData ==
  {Decision("TRIAGE"), Decision("EXPECTED_BEHAVIOR"),
   Attach(Permit(2, 12, FALSE)),
   [kind |-> "verdict", case |-> k1, verdict |-> "UNDET"],
   Describe(1), Describe(2),
   [kind |-> "approve", case |-> k1, version |-> 1],
   [kind |-> "approve", case |-> k1, version |-> 2],
   [kind |-> "recheck", case |-> k1, attempt |-> 1],
   [kind |-> "remediation", case |-> k1, remedy |-> "submit_decision", status |-> "started"],
   [kind |-> "bundle", case |-> k1]}

(* ---- the bundle ---------------------------------------------------------- *)
Signers == [strict : BOOLEAN, external : {"none", "gost", "other"}, secret : BOOLEAN,
            verifier : BOOLEAN]

Unsigned == [strict |-> FALSE, external |-> "none", secret |-> FALSE, verifier |-> FALSE]

(* A bundle that a request builds can be accounted for, file by file, and so *)
(* can its signature, whoever signs; it presents the edition of the          *)
(* description that the product shows as current.                            *)
BundleVerifies ==
  \A t \in Threads : flight[t].at = "ready" /\ flight[t].cmd.kind = "bundle" =>
    LET base    == flight[t].base
        summary == InvestigationSummaryPayload(base)
        files   == EvidenceFiles(FactsData[k1], base, <<7>>, Reports(FactsData, cards, k1), <<>>)
    IN /\ Accountable(BuildCaseBundle(files, Unsigned), Unsigned)
       /\ \A signer \in Signers : SignatureBinds(signer, Sha(<<"root">>))
       /\ summary.presented = IF base.editions = <<>> THEN 0
                              ELSE base.editions[Current(base)].version
       /\ summary.state = "approved" => base.editions[Current(base)].approved

(* ---- events on their way ------------------------------------------------- *)
Words(op) ==
  CASE op = "AUTH_FAIL" -> {"FAIL"} [] op = "READ" -> {"READ"} [] op = "WRITE_COIL" -> {"WRITE"}
    [] op = "CRASH" -> {"CRASH"} [] op = "ADMIN_LOGIN" -> {"ACCESS", "ADMIN"} [] OTHER -> {}

Plain ==
  [at |-> 10, asset |-> 1, op |-> "READ", protocol |-> "MODBUS", source |-> "ot", size |-> 10,
   value |-> 5, code |-> Absent, type |-> Absent, ip |-> Absent, mac |-> Absent, evil |-> FALSE,
   declared |-> {}, flags |-> {}, has |-> {}, aliases |-> <<>>, segment |-> 0, peer |-> FALSE,
   phase |-> "WORK_SHIFT"]

(* Two polls, a write, a failed login, a login from outside at night, which  *)
(* other detectors have spoken of, and a crash.                              *)
ReadingsData ==
  {Plain, [Plain EXCEPT !.at = 120],
   [Plain EXCEPT !.at = 60, !.op = "WRITE_COIL", !.value = 900, !.protocol = "SSH"],
   [Plain EXCEPT !.at = 160, !.op = "AUTH_FAIL"],
   [Plain EXCEPT !.at = 270, !.op = "ADMIN_LOGIN", !.ip = 7, !.phase = "NIGHT", !.source = "edr",
                 !.evil = TRUE, !.flags = {"lateral_movement", "hitl_dissonance"}],
   [Plain EXCEPT !.at = 390, !.op = "CRASH", !.aliases = <<0, 45>>, !.segment = 2, !.peer = TRUE]}

ContextData ==
  [maxGap |-> 120, staleWindow |-> 90, trust |-> [ot |-> 10000, edr |-> 2000],
   polling |-> <<1000, 1000, 4670, 21800>>, tickets |-> {},
   noop |-> {"jump_server_bypass", "polling_period_doubling_suspect"},
   jump |-> 3, edges |-> {}, plcs |-> {1}, codes |-> {}, disallowed |-> {45}, baseline |-> 0,
   driftPercent |-> 45, failWindow |-> 2, failThreshold |-> 2, tiers |-> [MODBUS |-> 1, SSH |-> 4],
   airgap |-> {}, maxRate |-> 10, trustedIps |-> {8}, lab |-> {}, fewest |-> 2,
   window |-> [r \in Range(Rules) |-> IF r = "blind_command" THEN 1
                                      ELSE IF r = "brute_force" THEN 3 ELSE 2],
   inputs |-> [r \in Range(Rules) |-> {}],
   weights |-> [rhythm |-> 22, graph |-> 22, context |-> 18, user |-> 18, data_quality |-> 20],
   entropyCap |-> 250000000, eps |-> 1000, epsCap |-> 100000,
   thresholds |-> [critical |-> 8500, high |-> 6500, medium |-> 4000],
   segments |-> {2}, expected |-> {<<1, "READ">>}]

Sent(id, who, hour, hit) == [id |-> id, who |-> who, hour |-> hour, hit |-> hit]
BodiesData == {<<Sent(1, <<"h">>, 1, TRUE)>>,
               <<Sent(2, <<"h", "u">>, 2, TRUE), Sent(3, <<"h">>, 1, FALSE)>>}

(* ---- the settings -------------------------------------------------------- *)
ShippedData == [weights |-> <<220, 220, 180, 180, 200>>, thresholds |-> <<850, 650, 400>>]

(* Two sets, the text of the first is the longer one, and two that are       *)
(* refused: for their thresholds and for their sum.                          *)
ProposalsData ==
  {[weights |-> <<225, 215, 180, 180, 200>>, thresholds |-> <<900, 700, 400>>],
   [weights |-> <<200, 200, 200, 200, 200>>, thresholds |-> <<800, 650, 400>>],
   [weights |-> <<200, 200, 200, 200, 200>>, thresholds |-> <<600, 650, 400>>],
   [weights |-> <<300, 200, 200, 200, 200>>, thresholds |-> <<850, 650, 400>>]}

(* ---- the queue ----------------------------------------------------------- *)
Row0 == [id |-> 1, created |-> 100, status |-> "NEW", score |-> 50, class |-> "MEDIUM", asset |-> 1,
         op |-> 11, source |-> "ot", events |-> {1}, related |-> {}, hits |-> {"h1"}, dq |-> 90,
         partial |-> FALSE, words |-> {"login"}, decisions |-> <<>>, permits |-> <<>>,
         records |-> <<>>, editions |-> <<>>, attempts |-> <<>>, findings |-> <<>>, raw |-> {}]
(* Three cases of the stream, two of them of one second and score; the       *)
(* incident assembled from two of them; and a half that was split off, after  *)
(* which analysts have given both halves all the events.                     *)
StoredData ==
  <<[Row0 EXCEPT !.permits = <<[number |-> 1, unmet |-> {"window"}, verdict |-> "UNDET", score |-> 70]>>,
                 !.records = <<[prev |-> "UNDET", next |-> "UNDET", source |-> "permit"],
                               [prev |-> "UNDET", next |-> "LEG", source |-> "operator"]>>,
                 !.findings = <<[text |-> 1, origin |-> 9]>>],
    [Row0 EXCEPT !.id = 2, !.created = 104, !.events = {2, 3}, !.asset = 2, !.raw = {7}, !.related = {5}],
    [Row0 EXCEPT !.id = 4, !.created = 150, !.events = {1, 2, 5}, !.related = {1, 2}, !.score = 70, !.class = "HIGH"],
    [Row0 EXCEPT !.id = 5, !.created = 120, !.events = {2, 3}, !.related = {2}, !.partial = TRUE, !.op = 12]>>
StandbyData == <<[Row0 EXCEPT !.id = 2, !.status = "FALSE_POSITIVE", !.events = {2}]>>
NewcomersData == {[Row0 EXCEPT !.id = 6, !.created = 208, !.events = {6}, !.score = 80, !.class = "HIGH"],
                  [Row0 EXCEPT !.id = 7, !.created = 95, !.events = {1, 2, 3, 5}, !.related = {4, 5}, !.hits = {}]}
Query(sort, desc, by) == [equal |-> <<>>, classes |-> {}, least |-> <<>>, most |-> <<>>, needle |-> <<>>,
                        sort |-> sort, desc |-> desc, by |-> by]
QueriesData ==
  {Query("score", TRUE, "asset"), Query("title", TRUE, "asset"),
   [Query("created", FALSE, "operation") EXCEPT !.equal = [status |-> "NEW", partial |-> FALSE]],
   [Query("events", TRUE, "operation") EXCEPT !.classes = {"HIGH"}, !.least = [events |-> 2]],
   [Query("id", FALSE, "asset") EXCEPT !.needle = [hits |-> "h1"], !.most = [created |-> 150]]}

(* ---- incidents from an analyst's seeds ----------------------------------- *)
Ev(id, at) == [id |-> id, at |-> at, source |-> "edr", spawn |-> FALSE, host |-> None, user |-> None,
               proc |-> None, parent |-> None, src |-> None, dst |-> None, arts |-> {}]
(* A process that starts on a host and connects to an address, twice, and a  *)
(* flow that names the address only; the first and the last of them are sent *)
(* again, with a later and an earlier date; what the host does besides.       *)
Launch == [Ev(1, 10) EXCEPT !.host = "ws", !.user = "kim", !.proc = "p1", !.parent = "p0", !.spawn = TRUE,
                            !.arts = {<<"hash", "x">>}]
Connection(id, at) == [Ev(id, at) EXCEPT !.host = "ws", !.src = "in", !.dst = "out", !.source = "nad"]
OutFlow(at) == [Connection(3, at) EXCEPT !.host = None, !.dst = "c2", !.src = "out"]
FeedData == {Launch, [Launch EXCEPT !.at = 40], OutFlow(5),
             [Ev(5, 30) EXCEPT !.host = "ws", !.user = "ann", !.proc = "p2"]}
FeedFirstData == {Launch, Connection(2, 20), Connection(4, 40), OutFlow(30)}
Hit(rule, event) == [rule |-> rule, event |-> event]
PipelineData ==
  {[id |-> "a", events |-> {1, 5}, hits |-> {Hit("r1", 1), Hit("r2", 5)}, score |-> 60, class |-> "MEDIUM"],
   [id |-> "b", events |-> {3}, hits |-> {Hit("r3", 3)}, score |-> 30, class |-> "LOW"]}
RequestsData ==
  {[id |-> "i1", seeds |-> {<<"address", "out">>, <<"artifact", "x", "hash">>}, hosts |-> {"ws"}, padding |-> 5],
   [id |-> "i1", seeds |-> {<<"user", "kim">>}, hosts |-> {}, padding |-> 0]}
Union(rules) == 25 * Cardinality(rules)
Classified(score) == IF score >= 70 THEN "HIGH" ELSE IF score >= 40 THEN "MEDIUM" ELSE "LOW"

(* ---- what leaves the system ---------------------------------------------- *)
DossierData == FactsData[k1]
FreshData == [status |-> "NEW", decisions |-> <<>>, permits |-> <<>>, records |-> <<>>, attempts |-> <<>>,
              editions |-> <<[version |-> 1, approved |-> FALSE]>>, findings |-> <<>>,
              artifacts |-> <<>>, audit |-> <<[what |-> "created", actor |-> FALSE]>>, seal |-> Unsealed]
LimitData == [findings |-> 1, artifacts |-> 1, decisions |-> 1, log |-> 2, tail |-> 2]
Dest(host, port, path) ==
  [scheme |-> "https", userinfo |-> FALSE, host |-> host, port |-> port, path |-> path]
DestinationsData == {Dest(<<"localhost">>, 0, <<"">>), Dest(<<"corp", "siem">>, 0, <<"hook", "a">>)}
Setup(profile, bypass, rules) == [profile |-> profile, bypass |-> bypass, rules |-> rules]
ListedData == {Dest(<<"corp">>, 443, <<"hook">>)}
SetupsData == {Setup("dev", FALSE, {}), Setup("prod", FALSE, {}), Setup("prod", FALSE, ListedData),
               Setup("prod", TRUE, ListedData)}
(* No address, an inner one, an outer one, and one of each.                  *)
ResolutionsData == {<<>>, <<1>>, <<2>>, <<2, 1>>}

-----------------------------------------------------------------------------
ApiInit ==
  /\ turn \in {"desk", "engagement", "stream", "front", "limit", "settings", "queue", "incident",
              "handoff", "load"}
  /\ DeskInit /\ EngagementInit /\ StreamInit /\ FrontInit /\ LimitInit /\ SettingsInit
  /\ QueueInit /\ IncidentInit /\ HandoffInit /\ LoadInit
  /\ turn # "desk" => cards = [c \in Cases |-> Permitted]
  /\ turn # "handoff" => setup = (CHOOSE s \in Setups : TRUE) /\ onFile = NewCase
  /\ turn # "load" => picked = CHOOSE f \in DOMAIN Exports : TRUE

ApiNext ==
  \/ /\ turn = "desk" /\ DeskNext
     /\ UNCHANGED <<turn, engagementVars, streamVars, frontVars, limitVars, settingsVars,
                    queueVars, incidentVars, handoffVars, loadVars>>
  \/ /\ turn = "engagement" /\ EngagementNext
     /\ UNCHANGED <<turn, deskVars, streamVars, frontVars, limitVars, settingsVars,
                    queueVars, incidentVars, handoffVars, loadVars>>
  \/ /\ turn = "stream" /\ StreamNext
     /\ UNCHANGED <<turn, deskVars, engagementVars, frontVars, limitVars, settingsVars,
                    queueVars, incidentVars, handoffVars, loadVars>>
  \/ /\ turn = "front" /\ FrontNext
     /\ UNCHANGED <<turn, deskVars, engagementVars, streamVars, limitVars, settingsVars,
                    queueVars, incidentVars, handoffVars, loadVars>>
  \/ /\ turn = "limit" /\ LimitNext
     /\ UNCHANGED <<turn, deskVars, engagementVars, streamVars, frontVars, settingsVars,
                    queueVars, incidentVars, handoffVars, loadVars>>
  \/ /\ turn = "settings" /\ SettingsNext
     /\ UNCHANGED <<turn, deskVars, engagementVars, streamVars, frontVars, limitVars,
                    queueVars, incidentVars, handoffVars, loadVars>>
  \/ /\ turn = "queue" /\ QueueNext
     /\ UNCHANGED <<turn, deskVars, engagementVars, streamVars, frontVars, limitVars,
                    settingsVars, incidentVars, handoffVars, loadVars>>
  \/ /\ turn = "incident" /\ IncidentNext
     /\ UNCHANGED <<turn, deskVars, engagementVars, streamVars, frontVars, limitVars,
                    settingsVars, queueVars, handoffVars, loadVars>>
  \/ /\ turn = "handoff" /\ HandoffNext
     /\ UNCHANGED <<turn, deskVars, engagementVars, streamVars, frontVars, limitVars,
                    settingsVars, queueVars, incidentVars, loadVars>>
  \/ /\ turn = "load" /\ LoadNext
     /\ UNCHANGED <<turn, deskVars, engagementVars, streamVars, frontVars, limitVars,
                    settingsVars, queueVars, incidentVars, handoffVars>>

ApiSpec == ApiInit /\ [][ApiNext]_apiVars

Symmetry == Permutations({t1, t2})

InPart(p, property) == turn = p => property

(* Each part keeps its variables in their ranges, and the parts with proofs  *)
(* (ApiPartsProofs, ApiProofs) the inductive invariants that these rest on.  *)
ApiTypeOK ==
  /\ InPart("desk", DeskInv /\ DeskTypeOK)
  /\ InPart("engagement", /\ \E i \in 1..(Len(Stages) + 1) : engagement \in RowsAt(i)
                          /\ EngagementTypeOK)
  /\ InPart("stream", StreamInv /\ StreamTypeOK) /\ InPart("front", KeysInv /\ HitsInv /\ RangesInv)
  /\ InPart("limit", LimitInv) /\ InPart("settings", SettingsInv /\ SettingsTypeOK)
  /\ InPart("queue", QueueInv) /\ InPart("incident", IncidentInv)
  /\ InPart("handoff", ForwardInv) /\ InPart("load", LoaderStands /\ LoadTypeOK)

(* The cards, the engagement and an assembled incident tell stories that can *)
(* have happened, and account for everything they hold, the card also for    *)
(* the passports that were handed out.                                       *)
EveryRecordTellsItsStory ==
  /\ InPart("desk", CardTellsItsStory)
  /\ InPart("engagement", EngagementTellsItsStory)
  /\ InPart("incident", IncidentHoldsTogether)
  /\ InPart("handoff", PassportsAccounted)

(* Readers of the same records do not contradict one another: those of a     *)
(* card and the ledger beside it, the list of cases with its pages, groups   *)
(* and coverage, its dump and the copy made from that, the registry and the  *)
(* events it counts, what is read off an incident, the papers that leave the *)
(* system, the events of an export, which say what its records said, without *)
(* their secrets and with phases that name their origin, and the score of an *)
(* assessment and the rules that have hit.                                   *)
ReadersAgree ==
  /\ InPart("desk", CardReadersAgree /\ WorkLeavesTraces)
  /\ InPart("queue", ListTellsTable /\ WorkIsNotHidden /\ CopyKeepsCase)
  /\ InPart("front", RegistryAddsUp)
  /\ InPart("incident", IncidentReadersAgree)
  /\ InPart("handoff", PapersAgree)
  /\ InPart("load", EventsTellTheirRecords)
  /\ InPart("stream", HitsAreHeard)

(* Nothing gets lost: a search of events and a dump of cases, read page by   *)
(* page, have everything that was there, a forward has happened as it is     *)
(* answered, and a load accounts for its lines and for the signals it has    *)
(* cleared.                                                                  *)
NothingGetsLost ==
  /\ InPart("incident", CoreMissesNothing)
  /\ InPart("queue", ExportMissesNothing)
  /\ InPart("handoff", ForwardsToldTrue)
  /\ InPart("load", LoadAccounts)

(* What is read from another system becomes the events it tells of: once,    *)
(* however often the file is loaded, and apart where the source tells them   *)
(* apart.                                                                    *)
LoadedOnce == InPart("load", LoadingTwiceIsOnce /\ SourcesStayApart)

(* What the API counts adds up with what has happened: the hits that wait    *)
(* for an assembly with those no assembly has seen, the limiter's table with *)
(* the requests.                                                             *)
CountersAddUp ==
  /\ InPart("front", FewHitsWait)
  /\ InPart("limit", LimitHolds)

(* An assessment stands: the order of delivery has no part in it.            *)
AssessmentStands == InPart("stream", DeliveryDoesNotMatter)
=============================================================================
