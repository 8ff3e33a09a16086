--------------------------- MODULE RiskAssessment ---------------------------
(* How one event is assessed: the quality of the data around it, the rules   *)
(* of the catalogue that fire on it, the five vectors, the score and its     *)
(* class, and what the explanation recommends.  Pure: an event, the window   *)
(* of events that arrived before it, and the settings of the rules.          *)
(*                                                                           *)
(* Shares (scores, weights, trust) are ten-thousandths, moments seconds; a   *)
(* field of an event that is not given is Absent.  An event: id, at, asset,  *)
(* op, protocol, source, size, value, code, type, ip, mac, evil (its domain  *)
(* looks like a command server), declared (rules whose source_operations     *)
(* name its operation), flags (what another detector has found), has (fields *)
(* of its payload), aliases, segment, peer, phase (of the day and week).     *)
EXTENDS Integers, Sequences, FiniteSets, Functions

CONSTANT WordsIn(_)  \* the words that an operation contains: of each kind that
                     \* the rules look for, FAIL (or DENIED), WRITE (TRIP, COIL),
                     \* READ (POLL), REQUEST (QUERY), REPLY, CRASH, ACCESS, ADMIN...

Absent == 0
Full == 10000
Least(S) == CHOOSE x \in S : \A y \in S : x <= y
Greatest(S) == CHOOSE x \in S : \A y \in S : y <= x
Clamp(x) == Greatest({0, Least({Full, x})})
Total(f) == FoldFunction(LAMBDA x, y : x + y, 0, f)

(* In the order of observation; events of one moment keep their order.       *)
Canonical(events) ==
  LET rank(j) == Cardinality({k \in DOMAIN events :
                   events[k].at < events[j].at \/ (events[k].at = events[j].at /\ k <= j)})
  IN [i \in DOMAIN events |-> events[CHOOSE j \in DOMAIN events : rank(j) = i]]

(* Mutated form: one event more than was asked for.                           *)
NewestAndOne(n, events) == SubSeq(events, Greatest({1, Len(events) - n}), Len(events))

Newest(n, events) == SubSeq(events, Len(events) - Least({n, Len(events)}) + 1, Len(events))

(* ---- before the assessment ----------------------------------------------- *)
Enriched(event, segments) ==
  IF event.segment \in segments /\ event.peer
  THEN [event EXCEPT !.flags = @ \cup {"new_node_airgap"}] ELSE event

(* The type of the telegram: the canonical field, else the first alias that  *)
(* is a number.                                                              *)
Hinted(event) ==
  LET found == {i \in DOMAIN event.aliases : event.aliases[i] # Absent}
  IN IF event.type # Absent \/ found = {} THEN event
     ELSE [event EXCEPT !.type = event.aliases[Least(found)]]

(* ---- quality of the data ------------------------------------------------- *)
Snapshot(score, reasons) == [score |-> score, partial |-> score < 5000, reasons |-> reasons]

SequenceGaps(events, ctx) ==
  LET seq == Canonical(events)
      delta == [i \in 1..Len(seq) - 1 |-> seq[i + 1].at - seq[i].at]
      wide == {i \in DOMAIN delta : delta[i] > ctx.maxGap}
      penalty == [i \in wide |-> Least({2000, ((delta[i] - ctx.maxGap) * 500) \div ctx.maxGap})]
  IN Snapshot(Greatest({0, Full - Total(penalty)}), IF wide = {} THEN {} ELSE {"telemetry_gap"})

StaleTelemetry(events, ctx) ==
  LET seq == Canonical(events)
      sig(e) == <<e.value, e.op, e.size>>
      frozen == {i \in 1..Len(seq) - 1 : /\ seq[i + 1].at - seq[i].at >= ctx.staleWindow
                                         /\ sig(seq[i + 1]) = sig(seq[i])}
  IN Snapshot(Clamp(Full - 1500 * Cardinality(frozen)), IF frozen = {} THEN {} ELSE {"stale_data"})

SourceReputation(source, ctx) ==
  LET trust == Clamp(ctx.trust[source])
  IN Snapshot(trust, IF trust >= 8500 THEN {} ELSE {"source_reputation_drift"})

(* The weakest of the three decides.                                         *)
FullPipeline(events, source, ctx) ==
  LET all == {SequenceGaps(events, ctx), StaleTelemetry(events, ctx), SourceReputation(source, ctx)}
  IN Snapshot(Least({s.score : s \in all}), UNION {s.reasons : s \in all})

(* ---- engines ------------------------------------------------------------- *)
Abs(x) == IF x < 0 THEN -x ELSE x

(* The series of polling intervals: jitter that grows, and whether the last  *)
(* two differences stand as 4.669 to 1, within 0.35.                         *)
PollingChaos(intervals) ==
  LET seq  == SelectSeq(intervals, LAMBDA x : x > 0)
      gaps == [i \in 1..Len(seq) - 1 |-> Abs(seq[i + 1] - seq[i])]
      n    == Len(gaps)
      grows == gaps[n] > gaps[1]
      ratio == IF gaps[n - 1] = 0 THEN 0 ELSE (1000 * gaps[n]) \div gaps[n - 1]
  IN IF Len(seq) < 4 \/ gaps[n] = 0 THEN [doubling |-> FALSE, jitter |-> FALSE]
     ELSE [doubling |-> grows /\ Abs(ratio - 4669) < 350, jitter |-> grows]

InMaintenance(event, ctx) ==
  event.asset # Absent /\ \E t \in ctx.tickets : /\ t.asset = event.asset
                                                 /\ t.from <= event.at /\ event.at <= t.to

Dissonant(event, ctx) ==
  event.op \in {"ADMIN_LOGIN", "WRITE_COIL", "REMOTE_SESSION"} /\ ~InMaintenance(event, ctx)

ContextScore(event, ctx) ==
  IF InMaintenance(event, ctx) THEN 8500 ELSE IF Dissonant(event, ctx) THEN 3500 ELSE 5500

JumpServerBypass(ctx) ==
  ctx.jump # Absent /\ \E e \in ctx.edges : e.dst \in ctx.plcs /\ e.src # ctx.jump

(* ---- the rules ----------------------------------------------------------- *)
(* In the order of their names, which is the order they are asked in.        *)
Rules == <<"blind_command", "brute_force", "c2_external_dns", "conflict_logic",
           "context_dissonance", "cyclic_service_crash", "expert_dissonance",
           "illegal_function_code", "jump_server_bypass", "lateral_movement", "log_wiping",
           "new_node_airgap", "out_of_shift_access", "payload_length_drift",
           "physical_invariant_breach", "polling_jitter", "polling_period_doubling_suspect",
           "protocol_escalation", "reconnaissance", "request_reply_dissonance",
           "runtime_config_change", "source_reputation_drift", "stale_data", "telemetry_gap",
           "trust_index_drop", "untrusted_ip_admin">>

(* What a detector before this product has already said: by the operation    *)
(* that the catalogue declares, by a flag, or by a word of the operation.    *)
Told(rule, event) ==
  LET words == WordsIn(event.op)
  IN CASE rule \in {"c2_external_dns", "lateral_movement", "out_of_shift_access"} ->
            rule \in event.declared \cup (event.flags \cap {"lateral_movement"})
       [] rule = "reconnaissance" -> rule \in event.declared \/ "SCAN" \in words
       [] rule = "conflict_logic" ->
            "CONFLICT" \in words \/ event.flags \cap {"conflict_logic", "control_conflict"} # {}
       [] rule = "expert_dissonance" -> event.flags \cap {"expert_dissonance", "hitl_dissonance"} # {}
       [] rule \in {"new_node_airgap", "physical_invariant_breach", "trust_index_drop",
                    "request_reply_dissonance", "cyclic_service_crash", "untrusted_ip_admin",
                    "polling_jitter"} -> rule \in event.flags
       [] rule = "log_wiping" -> "WIPE" \in words
       [] rule = "runtime_config_change" -> "CONFIG" \in words
       [] OTHER -> FALSE

OfAsset(events, asset) == SelectSeq(events, LAMBDA e : e.asset = asset)
Counting(events, words) == Cardinality({i \in DOMAIN events : WordsIn(events[i].op) \cap words # {}})

(* What a rule finds for itself.  recent is its window: events in the order  *)
(* of observation, the last of which need not be older than the event.       *)
(* First the traffic: codes, sizes, logins, protocols.                       *)
SeenInTraffic(rule, event, recent, ctx) ==
  LET words  == WordsIn(event.op)
      same   == OfAsset(recent, event.asset)
      before == same[Len(same)]
  IN CASE rule = "illegal_function_code" ->
            \/ \E allowed \in ctx.codes : event.code \notin allowed \cup {Absent}
            \/ event.type \in ctx.disallowed \ {Absent}
       [] rule = "payload_length_drift" ->
            ctx.baseline > 0 /\ 100 * Abs(event.size - ctx.baseline) >= ctx.driftPercent * ctx.baseline
       [] rule = "brute_force" ->
            Counting(Append(Newest(ctx.failWindow, recent), event), {"FAIL"}) >= ctx.failThreshold
       [] rule = "protocol_escalation" ->
            /\ event.asset # Absent /\ same # <<>>
            /\ {event.protocol, before.protocol} \subseteq DOMAIN ctx.tiers
            /\ ctx.tiers[event.protocol] > ctx.tiers[before.protocol] + 1
       [] rule = "c2_external_dns" -> event.evil
       [] rule = "blind_command" ->
            /\ "WRITE" \in words /\ event.asset # Absent
            /\ ~(same # <<>> /\ WordsIn(before.op) \cap {"READ"} # {})
       [] rule = "new_node_airgap" ->
            ctx.airgap # {} /\ ~({event.ip, event.mac} \ {Absent} \subseteq ctx.airgap)
       [] OTHER -> FALSE

(* The process and its stations: events of the same asset, when it is known. *)
SeenInProcess(rule, event, recent, ctx) ==
  LET words == WordsIn(event.op)
      near  == IF event.asset # Absent THEN OfAsset(recent, event.asset) ELSE recent
      prev  == near[Len(near)]
  IN CASE rule = "physical_invariant_breach" ->
            /\ event.value # Absent /\ near # <<>>
            /\ prev.value # Absent /\ event.at > prev.at
            /\ Abs(event.value - prev.value) > ctx.maxRate * (event.at - prev.at)
       [] rule = "trust_index_drop" -> ctx.trust[event.source] < 3000
       [] rule = "request_reply_dissonance" ->
            "REPLY" \in words /\ Counting(near, {"REQUEST", "READ"}) = 0
       [] rule = "cyclic_service_crash" ->
            "CRASH" \in words /\ Counting(near, {"CRASH"}) + 1 >= 3
       [] rule = "untrusted_ip_admin" ->
            "ACCESS" \in words /\ event.ip # Absent /\ ctx.trustedIps # {} /\ event.ip \notin ctx.trustedIps
       [] OTHER -> FALSE

(* What the engines say of the window, of the maintenance and of the edges.  *)
SeenByEngines(rule, event, recent, ctx) ==
  CASE rule = "stale_data" -> StaleTelemetry(Append(recent, event), ctx).reasons # {}
    [] rule = "telemetry_gap" -> SequenceGaps(Append(recent, event), ctx).reasons # {}
    [] rule = "source_reputation_drift" -> SourceReputation(event.source, ctx).reasons # {}
    [] rule = "context_dissonance" -> Dissonant(event, ctx)
    [] rule = "out_of_shift_access" -> "ADMIN" \in WordsIn(event.op) /\ event.phase # "WORK_SHIFT"
    [] rule = "jump_server_bypass" -> JumpServerBypass(ctx)
    [] rule = "polling_period_doubling_suspect" -> PollingChaos(ctx.polling).doubling
    [] OTHER -> FALSE

Detected(rule, event, recent, ctx) ==
  \/ SeenInTraffic(rule, event, recent, ctx)
  \/ SeenInProcess(rule, event, recent, ctx)
  \/ SeenByEngines(rule, event, recent, ctx)

(* Mutated form: the window of a rule is cut from the order of arrival.      *)
FiresArrived(rule, event, recent, ctx) ==
  /\ rule \notin ctx.noop /\ ctx.inputs[rule] \subseteq event.has
  /\ Told(rule, event) \/ Detected(rule, event, Newest(ctx.window[rule], recent), ctx)

(* A rule of the catalogue may be bound to builtin:noop; else it looks at    *)
(* its window, cut from the order of observation.                            *)
Fires(rule, event, recent, ctx) ==
  /\ rule \notin ctx.noop /\ ctx.inputs[rule] \subseteq event.has
  /\ Told(rule, event) \/ Detected(rule, event, Newest(ctx.window[rule], Canonical(recent)), ctx)

Firing(event, recent, ctx) == {r \in Range(Rules) : Fires(r, event, recent, ctx)}
InOrder(rules) == SelectSeq(Rules, LAMBDA r : r \in rules)
OutOfLab(hits, lab) == SelectSeq(hits, LAMBDA r : r \notin lab)

(* The hits, each once; growing jitter of the polling comes before all.      *)
Hits(event, recent, ctx) ==
  LET chaos == PollingChaos(ctx.polling)
      first == IF chaos.jitter /\ ~chaos.doubling THEN <<"polling_jitter">> ELSE <<>>
  IN OutOfLab(first \o InOrder(Firing(event, recent, ctx) \ Range(first)), ctx.lab)

(* ---- the score ----------------------------------------------------------- *)
Boost(hits, rules, by) == IF hits \cap rules # {} THEN by ELSE 0

RiskVectors(hits, rhythm, context, quality) ==
  [rhythm |-> Greatest({rhythm,
       Boost(hits, {"illegal_function_code", "payload_length_drift", "polling_jitter",
                    "polling_period_doubling_suspect", "c2_external_dns", "reconnaissance",
                    "brute_force"}, 5500),
       Boost(hits, {"physical_invariant_breach", "cyclic_service_crash", "conflict_logic"}, 6500),
       Boost(hits, {"request_reply_dissonance"}, 6000)}),
   graph |-> Greatest({1000, Boost(hits, {"jump_server_bypass"}, 8000),
       Boost(hits, {"log_wiping", "runtime_config_change", "c2_external_dns"}, 9000),
       Boost(hits, {"new_node_airgap", "reconnaissance", "lateral_movement"}, 7000)}),
   context |-> Greatest({context,
       Boost(hits, {"expert_dissonance", "out_of_shift_access", "context_dissonance"}, 6000)}),
   user |-> Greatest({1000, Boost(hits, {"out_of_shift_access"}, 7000),
       Boost(hits, {"brute_force", "protocol_escalation", "blind_command", "untrusted_ip_admin"}, 7500),
       Boost(hits, {"trust_index_drop"}, 5500)}),
   data_quality |-> quality]

(* The spread of the vectors, against the cap of the settings; both in       *)
(* squares of ten-thousandths.                                               *)
EntropyTrust(vectors, cap) ==
  LET square   == [v \in DOMAIN vectors |-> (vectors[v] * vectors[v]) \div 25]
      variance == 5 * Total(square) - (Total(vectors) \div 5) * (Total(vectors) \div 5)
  IN IF variance <= cap THEN Full ELSE Clamp((cap \div Greatest({1, variance \div 100})) * 100)

CombineRisk(vectors, ctx) ==
  LET weighted == Total([v \in DOMAIN vectors |-> ctx.weights[v] * vectors[v]]) \div 100
      trust    == EntropyTrust(vectors, ctx.entropyCap)
      burst    == IF ctx.epsCap <= 0 THEN 0 ELSE Clamp((Full * ctx.eps) \div (ctx.eps + ctx.epsCap))
      score    == Clamp((((weighted * (Full + burst)) \div Full) * trust) \div Full)
  IN [score |-> score,
      class |-> IF score >= ctx.thresholds.critical THEN "CRITICAL"
                ELSE IF score >= ctx.thresholds.high THEN "HIGH"
                ELSE IF score >= ctx.thresholds.medium THEN "MEDIUM" ELSE "LOW"]

Classes == <<"LOW", "MEDIUM", "HIGH", "CRITICAL">>
RankOf(class) == CHOOSE i \in DOMAIN Classes : Classes[i] = class
WorstClass(a, b) == IF RankOf(a) >= RankOf(b) THEN a ELSE b

(* The first hit with a recommendation of its own, and the first two with a  *)
(* counterfactual.                                                           *)
Explained(hits) ==
  LET advised == SelectSeq(hits, LAMBDA r : r \notin {"illegal_function_code", "payload_length_drift",
                                                      "request_reply_dissonance"})
      known   == SelectSeq(hits, LAMBDA r : r \notin {"illegal_function_code", "payload_length_drift"})
  IN [recommendation |-> IF advised = <<>> THEN "triage" ELSE advised[1],
      counterfactual |-> SubSeq(known, 1, Least({2, Len(known)}))]

(* What an analyst has marked as expected caps what speaks of people.        *)
Tolerated(vectors, expected) ==
  IF expected THEN [vectors EXCEPT !.user = Least({@, 800}), !.context = Least({@, 1200})]
  ELSE vectors

(* How many events before it an event is assessed with.                      *)
RecentCount(ctx) == Greatest({ctx.fewest, ctx.failWindow} \cup Range(ctx.window))

Judgement(event, hits, quality, ctx) ==
  LET chaos   == PollingChaos(ctx.polling)
      base    == IF chaos.doubling THEN 7500 ELSE IF chaos.jitter THEN 4200 ELSE 1500
      vectors == RiskVectors(Range(hits), base, Full - ContextScore(event, ctx), Full - quality.score)
      expected == event.asset # Absent /\ <<event.asset, event.op>> \in ctx.expected
      tolerated == Tolerated(vectors, expected)
      risk    == CombineRisk(tolerated, ctx)
  IN [hits |-> hits, quality |-> quality, vectors |-> tolerated, score |-> risk.score,
      class |-> risk.class, text |-> Explained(hits)]

Assess(arrived, recent, ctx) ==
  LET event == Hinted(Enriched(arrived, ctx.segments))
  IN Judgement(event, Hits(event, recent, ctx),
               FullPipeline(Append(recent, event), event.source, ctx), ctx)
=============================================================================
