----------------------------- MODULE RiskStream -----------------------------
(* Events arrive in any order, some of them again, and each is assessed with *)
(* the events that arrived before it (IngestAssessmentFacade.                *)
(* assess_normalized_event): the window keeps the order of arrival, which    *)
(* depends on networks and batches and says nothing about what happened.     *)
EXTENDS RiskAssessment

CONSTANTS
  Readings,     \* events that may arrive; no two of them were observed at once
  Context,     \* the settings of the rules and of the score; no tickets of
               \* maintenance: this caller has none to hand over
  WindowMax,    \* events the store keeps for the window
  MaxReadings   \* bound: arrivals

ASSUME RiskStreamAssumption ==
  /\ WindowMax \in Nat /\ MaxReadings \in Nat /\ Context.tickets = {}
  /\ RecentCount(Context) \in Nat /\ Context.maxGap \in Nat \ {0}
  /\ Context.weights \in [{"rhythm", "graph", "context", "user", "data_quality"} -> Int]
  /\ Context.entropyCap \in Int /\ Context.eps \in Nat /\ Context.epsCap \in Int
  /\ \A e \in Readings : /\ {"at", "source"} \subseteq DOMAIN e
                         /\ e.at \in Int /\ Context.trust[e.source] \in Int
  /\ \A e, f \in Readings : e.at = f.at => e = f

VARIABLES
  feed,    \* the window, in the order of arrival
  judged,  \* the last assessment, with the event and what it was assessed with
  fed      \* arrivals so far

streamVars == <<feed, judged, fed>>

Unjudged == [event |-> Absent]

Ingest(e) ==
  /\ fed < MaxReadings
  /\ LET recent == Newest(RecentCount(Context), feed)
     IN judged' = [event |-> e, recent |-> recent, result |-> Assess(e, recent, Context)]
  /\ feed' = Newest(WindowMax, Append(feed, e))
  /\ fed' = fed + 1

StreamInit == feed = <<>> /\ judged = Unjudged /\ fed = 0
StreamNext == \E e \in Readings : Ingest(e)

StreamSpec == StreamInit /\ [][StreamNext]_streamVars

-----------------------------------------------------------------------------
StreamTypeOK ==
  /\ Len(feed) <= WindowMax /\ Range(feed) \subseteq Readings
  /\ fed \in 0..MaxReadings
  /\ judged # Unjudged => /\ judged.result.score \in 0..Full
                          /\ \A v \in DOMAIN judged.result.vectors : judged.result.vectors[v] \in 0..Full

(* The last assessment is that of a reading, made with a list of readings.    *)
JudgedAsFed ==
  judged # Unjudged =>
    /\ judged.event \in Readings /\ judged.recent \in Seq(Readings)
    /\ judged = [event |-> judged.event, recent |-> judged.recent,
                 result |-> Assess(judged.event, judged.recent, Context)]

StreamInv ==
  /\ feed \in Seq(Readings) /\ Len(feed) <= WindowMax
  /\ fed \in 0..MaxReadings /\ JudgedAsFed

Orders(n) == {p \in [1..n -> 1..n] : Range(p) = 1..n}

SameJudgement(one, other) == one.hits = other.hits /\ one.score = other.score

(* The assessment is about what was observed, and not about its delivery: no *)
(* order in which the same events had arrived gives another score or other   *)
(* hits.                                                                     *)
DeliveryDoesNotMatter ==
  judged # Unjudged =>
    \A p \in Orders(Len(judged.recent)) :
      SameJudgement(Assess(judged.event, [i \in DOMAIN p |-> judged.recent[p[i]]], Context),
                    judged.result)

(* What the rules say of the data shows in its measured quality, when the    *)
(* event is not older than its window; and no other hit is mute: it raises a *)
(* vector, and never makes the score or the class smaller.                   *)
HitsAreHeard ==
  judged # Unjudged =>
    LET result == judged.result
        hits   == Range(result.hits)
        about  == {"telemetry_gap", "stale_data", "source_reputation_drift"}
        unhurt == CombineRisk([result.vectors EXCEPT !.graph = 1000, !.user = Least({@, 1000})],
                              Context)
    IN /\ (\A i \in DOMAIN judged.recent : judged.recent[i].at <= judged.event.at)
            => /\ hits \cap about \subseteq result.quality.reasons
               /\ result.quality.reasons # {} => result.quality.score < Full
       /\ \A r \in hits \ about : RiskVectors({r}, 0, 0, 0) # RiskVectors({}, 0, 0, 0)
       /\ result.score >= unhurt.score /\ result.class = WorstClass(result.class, unhurt.class)

(* Stated by _canonical of data_quality.py ("разрыв - свойство данных, а не  *)
(* порядка подачи"), and not kept for an event that is older than its        *)
(* window: the rule sees the event beside the newest ones only, and finds a  *)
(* gap that older events of the same window fill.                            *)
GapIsInTheData ==
  judged # Unjudged /\ "telemetry_gap" \in Range(judged.result.hits)
    => "telemetry_gap" \in judged.result.quality.reasons
=============================================================================
