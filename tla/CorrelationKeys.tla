--------------------------- MODULE CorrelationKeys ---------------------------
(***************************************************************************)
(* The keys by which an event finds the case it belongs to                 *)
(* (domain/engines/alert_fatigue.py): correlation keys, one or two for each *)
(* rule whose fields the event has, and the burst key of its asset and      *)
(* operation.  Time is counted in whole seconds.                           *)
(*                                                                         *)
(* An event is [at, source, asset, operation, entity], where entity maps    *)
(* the fields the event has to their values (an artifact field to the       *)
(* sorted tuple of the values of that kind).  A rule of the configuration   *)
(* is [name, fields, bucket, priority, window, sources]: bucket 0 stands    *)
(* for bucket_sec: null, KnownSources for a row without sources.            *)
(***************************************************************************)
EXTENDS Integers, FiniteSets, SequencesExt

CONSTANTS ConfigRules,   \* the rows of correlation.keys, in their order
          KnownFields,   \* entity fields, and artifact: with a known type
          KnownSources,  \* values of EventSource
          BurstBucket,   \* alert_fatigue.bucket_sec
          Bucketed,      \* alert_fatigue.mode is not "legacy"
          Generalized    \* correlation.mode is not "legacy"

ASSUME CorrelationKeysAssumption ==
  /\ BurstBucket \in Int
  /\ Bucketed \in BOOLEAN /\ Generalized \in BOOLEAN

(* A row that cannot be used as written is dropped, never widened.          *)
UsableRule(row) ==
  /\ row.fields # {} /\ row.fields \subseteq KnownFields
  /\ row.bucket >= 0
  /\ row.window \in {"calendar", "sliding"}
  /\ row.sources # {} /\ row.sources \subseteq KnownSources

(* The usable rows in the order of priority, then of declaration.           *)
RulesFromConfig ==
  LET usable == {i \in DOMAIN ConfigRules : UsableRule(ConfigRules[i])}
      Before(i, j) == \/ ConfigRules[i].priority < ConfigRules[j].priority
                      \/ ConfigRules[i].priority = ConfigRules[j].priority /\ i < j
  IN  [n \in 1 .. Cardinality(usable) |->
         ConfigRules[CHOOSE i \in usable :
                       Cardinality({j \in usable : Before(j, i)}) = n - 1]]

AppliesTo(rule, event) ==
  /\ event.source \in rule.sources
  /\ rule.fields \subseteq DOMAIN event.entity

(* A digest of rule name, values and bucket stands for itself.              *)
CorrelationKey(rule, event, bucket) ==
  [rule |-> rule.name, values |-> [f \in rule.fields |-> event.entity[f]], bucket |-> bucket]

Bucket(rule, event) == event.at \div rule.bucket

(* Mutated form: the window that slides gives the current bucket only. *)
RuleKeysCalendar(rule, event) ==
  IF ~AppliesTo(rule, event) THEN <<>>
  ELSE IF rule.bucket = 0 THEN <<CorrelationKey(rule, event, <<>>)>>
  ELSE <<CorrelationKey(rule, event, <<Bucket(rule, event)>>)>>

(* A rule without a bucket gives one key for all time; a window that slides *)
(* gives the current bucket and the one before it, so that neighbouring     *)
(* buckets meet.                                                            *)
RuleKeys(rule, event) ==
  IF ~AppliesTo(rule, event) THEN <<>>
  ELSE IF rule.bucket = 0 THEN <<CorrelationKey(rule, event, <<>>)>>
  ELSE LET now == Bucket(rule, event)
       IN  IF rule.window = "sliding"
           THEN <<CorrelationKey(rule, event, <<now>>), CorrelationKey(rule, event, <<now - 1>>)>>
           ELSE <<CorrelationKey(rule, event, <<now>>)>>

(* correlation_fingerprints behind _correlation_candidates.                 *)
Fingerprints(event) ==
  IF ~Generalized THEN <<>>
  ELSE LET rules == RulesFromConfig
       IN  FlattenSeq([i \in 1 .. Len(rules) |-> RuleKeys(rules[i], event)])

(* compute_burst_fingerprint: asset and operation within a calendar bucket; *)
(* the legacy key splits by source as well and knows no time.               *)
BurstKey(event) ==
  LET size   == IF BurstBucket < 1 THEN 300 ELSE BurstBucket
      fields == {"asset", "operation"} \cup (IF Bucketed THEN {} ELSE {"source"})
  IN  [rule   |-> "burst",
       values |-> [f \in fields |-> event[f]],
       bucket |-> IF Bucketed THEN <<event.at \div size>> ELSE <<>>]
=============================================================================
