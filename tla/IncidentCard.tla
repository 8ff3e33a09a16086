---------------------------- MODULE IncidentCard ----------------------------
(* An incident assembled at an analyst's request from the entities that tell *)
(* it apart: the search walks page by page through an event store that goes  *)
(* on receiving events, the core is expanded to hosts the analyst names, and *)
(* the card explains every event it holds.  And what the product then reads  *)
(* off a card and its events: the attack chain, the graph, the package of    *)
(* recommendations and the scenario for later regression tests.              *)
(*                                                                           *)
(* An event: id, at, source, spawn (its operation starts a process) and the  *)
(* entities host, user, proc, parent, src, dst, with None for an entity the  *)
(* event does not name; arts is a set of <<type, value>>.  A seed is a tuple *)
(* of its kind and value, and, of an artifact, the type of the artifact.     *)
EXTENDS CaseAnalysis, Functions, TLC

None == "none"

CONSTANTS
  Feed,         \* set of events that may be received, the same id twice if re-sent
  FeedFirst,    \* the events already stored at the start
  Pipeline,     \* set of cases the stream has made: id, events, hits, score, class
  Requests,     \* set of requests to assemble: id, seeds, hosts, padding
  UnionScore(_),\* the risk model applied to a set of rules that have hit
  ClassOf(_),   \* the class of a score under the thresholds in force
  EventPage,    \* events per page of the search
  MaxPages,     \* pages the search reads of one criterion
  Recent,       \* events of the history a scenario takes along
  MaxFeed,      \* bound: events received
  MaxPivots,    \* bound: requests to assemble
  MaxMoves      \* bound: steps of the analysts on the cards

IsEvent(e) == e.id \in Int /\ e.at \in Int

ASSUME IncidentCardAssumption ==
  /\ {EventPage, MaxPages} \subseteq Nat \ {0} /\ {Recent, MaxFeed, MaxPivots, MaxMoves} \subseteq Nat
  /\ IsFiniteSet(FeedFirst) /\ \A e \in FeedFirst \cup Feed : IsEvent(e)
  /\ IsFiniteSet(Pipeline) /\ \A c \in Pipeline : c.score \in Nat
  /\ \A rules \in SUBSET {h.rule : h \in UNION {c.hits : c \in Pipeline}} : UnionScore(rules) \in Nat

VARIABLES
  stored,     \* function from ids to events: the event store
  pivot,      \* the request in progress
  incidents,  \* function from ids to assembled cards
  received, pivots, moves,  \* how often each bounded step has been taken
  due,        \* history: ids of the events the search in progress must find
  floor       \* history: [incident -> the worst score among its parts]

incidentVars == <<stored, pivot, incidents, received, pivots, moves, due, floor>>

Before(e, f) == e.at < f.at \/ (e.at = f.at /\ e.id < f.id)
Ordered(S) == LET place(e) == Cardinality({f \in S : Before(f, e)}) + 1
              IN [k \in 1..Cardinality(S) |-> CHOOSE e \in S : place(e) = k]
EventsByIds(ids) == Ordered({stored[i] : i \in ids \cap DOMAIN stored})
LargestAmong(S) == CHOOSE x \in S : \A y \in S : y <= x

(* A map with one entry written, over an older one of that key.              *)
Filed(map, key, entry) == [k \in DOMAIN map \cup {key} |-> IF k = key THEN entry ELSE map[k]]

(* ---- the search ---------------------------------------------------------- *)
EntityKeys(e) ==
  {<<f, e[f]>> : f \in {f \in {"host", "user", "src", "dst"} : e[f] # None}} \cup e.arts

PivotKeys(seed) ==
  CASE seed[1] = "address" -> {<<"src", seed[2]>>, <<"dst", seed[2]>>}
    [] seed[1] = "artifact" -> {<<seed[3], seed[2]>>}
    [] OTHER -> {seed}

(* What the store selects: a seed by its key, a host within a window.        *)
Selects(criteria, e) ==
  /\ PivotKeys(criteria.seed) \cap EntityKeys(e) # {}
  /\ criteria.from <= e.at /\ e.at <= criteria.to

Always == [from |-> -99, to |-> 9999]
SeedCriteria(seed) == [seed |-> seed, from |-> Always.from, to |-> Always.to]

(* A page of the search, by ids: the newest first, ids break ties.           *)
Newer(e, f) == e.at > f.at \/ (e.at = f.at /\ e.id < f.id)
Matching(events, criteria) == {i \in DOMAIN events : Selects(criteria, events[i])}
Place(events, criteria, i) == Cardinality({j \in Matching(events, criteria) : Newer(events[j], events[i])})

PageOf(events, criteria, offset, limit) ==
  {i \in Matching(events, criteria) : /\ offset <= Place(events, criteria, i)
                                      /\ Place(events, criteria, i) < offset + limit}

SearchEvents(criteria, offset, limit) ==
  [page |-> PageOf(stored, criteria, offset, limit), total |-> Cardinality(Matching(stored, criteria))]

AssembleByPivot(events, seeds) ==
  Ordered({e \in events : EntityKeys(e) \cap UNION {PivotKeys(s) : s \in seeds} # {}})

Window(core, padding) ==
  [from |-> SmallestOf({e.at : e \in Range(core)}) - padding,
   to |-> LargestAmong({e.at : e \in Range(core)}) + padding]

ExpandToHosts(events, core, hosts, padding) ==
  LET w == Window(core, padding)
      ids == {e.id : e \in Range(core)}
  IN Ordered(Range(core) \cup {e \in events : /\ e.id \notin ids /\ e.host \in hosts
                                              /\ w.from <= e.at /\ e.at <= w.to})

(* ---- the card ------------------------------------------------------------ *)
Contributing(ids) == {c \in Pipeline : c.events \cap ids # {}}

(* Why an event is in the incident: the seeds it matched, or its host.       *)
Evidence(assembled, core, seeds) ==
  [i \in DOMAIN assembled |->
     LET e == assembled[i]
     IN IF e \in Range(core)
        THEN [event |-> e.id, rule |-> "pivot",
              fields |-> {s \in seeds : PivotKeys(s) \cap EntityKeys(e) # {}}]
        ELSE [event |-> e.id, rule |-> "host-expansion",
              fields |-> IF e.host = None THEN {} ELSE {<<"host", e.host>>}]]

(* Hits of the contributing cases whose event is in the incident.            *)
HitRecords(contributing, ids) ==
  {h \in UNION {c.hits : c \in contributing} : h.event \in ids}

Observations(assembled) ==
  [s \in {e.source : e \in Range(assembled)} |-> {e.id : e \in {f \in Range(assembled) : f.source = s}}]

ClassRank == [UNKNOWN |-> 0, LOW |-> 1, MEDIUM |-> 2, HIGH |-> 3, CRITICAL |-> 4]
WorstRiskClass(a, b) == IF ClassRank[a] >= ClassRank[b] THEN a ELSE b

(* The model applied to the union of the hits, but never below the heaviest  *)
(* of the contributing cases.                                                *)
IncidentRisk(rules, contributing) ==
  LET top == CHOOSE c \in contributing : \A d \in contributing : d.score <= c.score
  IN IF contributing = {} THEN [score |-> 0, class |-> "UNKNOWN"]
     ELSE [score |-> LargestAmong({UnionScore(rules), top.score}),
           class |-> WorstRiskClass(ClassOf(UnionScore(rules)), top.class)]

PrimaryAsset(assembled) ==
  LET named == SelectSeq(assembled, LAMBDA e : e.host # None)
  IN IF named = <<>> THEN None ELSE named[1].host

BuildCase(req, core, assembled) ==
  LET ids   == {e.id : e \in Range(assembled)}
      parts == Contributing(ids)
      risk  == IncidentRisk({h.rule : h \in UNION {c.hits : c \in parts}}, parts)
  IN [id |-> req.id, status |-> "TRIAGE", seeds |-> req.seeds, events |-> ids,
      score |-> risk.score, class |-> risk.class, asset |-> PrimaryAsset(assembled),
      created |-> LargestAmong({e.at : e \in Range(assembled)}),
      related |-> {c.id : c \in parts}, hits |-> HitRecords(parts, ids),
      evidence |-> Evidence(assembled, core, req.seeds), observations |-> Observations(assembled),
      artifacts |-> {[type |-> s[1], value |-> s[2], host |-> None, origin |-> "pivot-seed"] :
                       s \in req.seeds},
      permits |-> <<>>, records |-> <<>>, packages |-> 0]

(* ---- read off a card ----------------------------------------------------- *)
EdgesOf(e) ==
  (IF e.proc = None THEN <<>>
   ELSE IF e.spawn THEN <<<<"process_spawn", e.parent, e.proc>>>>
   ELSE <<<<"process_observed", e.host, e.proc>>>>)
  \o (IF None \in {e.src, e.dst} THEN <<>> ELSE <<<<"network_move", e.src, e.dst>>>>)

(* The steps in the order in which their edges were first seen.              *)
Steps(ordered) ==
  LET first(edge) == SmallestOf({i \in DOMAIN ordered : edge \in Range(EdgesOf(ordered[i]))})
      new[n \in 0..Len(ordered)] == IF n = 0 THEN <<>> ELSE new[n - 1] \o
        SelectSeq(EdgesOf(ordered[n]), LAMBDA edge : first(edge) = n)
  IN [k \in DOMAIN new[Len(ordered)] |->
        LET edge == new[Len(ordered)][k]
            seen == SelectSeq(ordered, LAMBDA e : edge \in Range(EdgesOf(e)))
        IN [edge |-> edge, at |-> seen[1].at, events |-> [i \in DOMAIN seen |-> seen[i].id]]]

(* The entry point is a hypothesis: a process without its parent in the      *)
(* case, or the origin of the first connection, whichever comes first.       *)
EntryPoint(ordered) ==
  LET processes == {e.proc : e \in Range(ordered)} \ {None}
      entry(e) == IF e.proc # None /\ e.spawn /\ e.parent \notin processes THEN e.proc
                  ELSE IF None \notin {e.src, e.dst} THEN e.src ELSE None
      named == SelectSeq(ordered, LAMBDA e : entry(e) # None)
  IN IF named = <<>> THEN None ELSE entry(named[1])

ReconstructAttackChain(ordered) ==
  LET steps == Steps(ordered)
  IN [entry |-> EntryPoint(ordered), steps |-> steps,
      last |-> IF steps = <<>> THEN [value |-> None, at |-> 0]
               ELSE [value |-> steps[Len(steps)].edge[3], at |-> steps[Len(steps)].at],
      artifacts |-> UNION {e.arts : e \in Range(ordered)}]

CaseGraph(ordered) ==
  LET kinds == [host |-> "host", user |-> "user", proc |-> "process", parent |-> "parent",
                src |-> "address", dst |-> "destination"]
      relations == {<<"user", "proc", "initiated">>, <<"parent", "proc", "spawned">>,
                    <<"host", "proc", "runs">>, <<"src", "dst", "network">>,
                    <<"user", "host", "acts_on">>}
  IN [nodes |-> UNION {{<<kinds[f], e[f]>> : f \in {f \in DOMAIN kinds : e[f] # None}} :
                         e \in Range(ordered)},
      edges |-> UNION {{<<e[r[1]], e[r[2]], r[3]>> :
                          r \in {r \in relations : None \notin {e[r[1]], e[r[2]]}}} :
                         e \in Range(ordered)}]

ExpandedHosts(card, ordered) ==
  LET added == {card.evidence[i].event : i \in {i \in DOMAIN card.evidence :
                                                  card.evidence[i].rule = "host-expansion"}}
  IN {e.host : e \in {f \in Range(ordered) : f.id \in added}} \ {None}

OriginRank == ("pivot-seed" :> 0) @@ ("manual" :> 1) @@ ("host-expansion" :> 2) @@ ("event" :> 3)

(* Everything that speaks for a row of the package: the artifacts of the     *)
(* card, the entities and artifacts of its events, the expanded hosts.       *)
Mentions(card, ordered) ==
  LET of(e) ==
        {[type |-> t[1], value |-> t[2], host |-> e.host, origin |-> "event", event |-> e.id] :
           t \in {<<"host", e.host>>, <<"account", e.user>>, <<"process", e.proc>>,
                  <<"address", e.src>>, <<"address", e.dst>>} \cup e.arts}
  IN {m \in UNION {of(e) : e \in Range(ordered)}
            \cup {[type |-> a.type, value |-> a.value, host |-> a.host, origin |-> a.origin,
                   event |-> 0] : a \in card.artifacts}
            \cup {[type |-> "host", value |-> h, host |-> h, origin |-> "host-expansion",
                   event |-> 0] : h \in ExpandedHosts(card, ordered)} :
        m.value # None}

(* A row for every object and host; the weightiest mention describes it, and *)
(* it is recommended by default only with a known host and from the core.    *)
BuildResponsePackage(card, ordered) ==
  LET mentions == Mentions(card, ordered)
      key(m) == <<m.type, m.value, m.host>>
  IN [version |-> card.packages + 1,
      rows |-> [k \in {key(m) : m \in mentions} |->
                  LET mine == {m \in mentions : key(m) = k}
                      best == CHOOSE m \in mine : \A n \in mine :
                                OriginRank[m.origin] <= OriginRank[n.origin]
                  IN [origin |-> best.origin, events |-> {m.event : m \in mine} \ {0},
                      core |-> best.origin # "host-expansion",
                      selected |-> k[3] # None /\ best.origin # "host-expansion"]]]

Closed == {"CONFIRMED", "FALSE_POSITIVE", "EXPECTED_BEHAVIOR"}
MayBeScenario(card, own) ==
  /\ card.status \in Closed
  /\ \E i \in DOMAIN card.records : card.records[i].source = "operator"
  /\ ForensicVerdict(card) # "UNDET"
  /\ own # <<>>

(* The latest events the store has, but none of the case itself and none     *)
(* later than its last event.                                                *)
BuildCaseScenario(card, own) ==
  LET all    == Ordered(Range(stored))
      recent == {all[i] : i \in {i \in DOMAIN all : i > Len(all) - Recent}}
  IN [verdict |-> ForensicVerdict(card), events |-> own,
      context |-> Ordered({e \in recent : /\ e \notin Range(own)
                                          /\ e.at <= own[Len(own)].at})]

(* ---- steps --------------------------------------------------------------- *)
Resting == [at |-> "idle"]

(* An event that is sent again may leave the search that is under way, or    *)
(* slip back in it: those behind it then stand one place nearer, and the     *)
(* next page passes over one of them.                                        *)
SlipsBack(e) ==
  /\ pivot.at = "core" /\ pivot.offset > 0
  /\ e.id \in Matching(stored, pivot.walking)
  /\ ~Selects(pivot.walking, e) \/ e.at < stored[e.id].at

(* An event is stored, or stored again under its id with what it says now.   *)
Observe(e) ==
  /\ received < MaxFeed /\ received' = received + 1
  /\ stored' = Filed(stored, e.id, e) /\ stored' # stored
  /\ due' = IF SlipsBack(e) THEN {} ELSE due \ {e.id}
  /\ UNCHANGED <<pivot, incidents, pivots, moves, floor>>

Ask(req) ==
  /\ pivot.at = "idle" /\ pivots < MaxPivots
  /\ pivot' = [at |-> "core", req |-> req, found |-> <<>>, core |-> <<>>, offset |-> 0, page |-> 1,
               walking |-> None, todo |-> {SeedCriteria(s) : s \in req.seeds}]
  /\ due' = {i \in DOMAIN stored : \E s \in req.seeds : Selects(SeedCriteria(s), stored[i])}
  /\ pivots' = pivots + 1
  /\ UNCHANGED <<stored, incidents, received, moves, floor>>

(* Mutated form: the walk ends one event short of the total.                 *)
LastPageEarly(p, seen) ==
  p.page = MaxPages \/ p.offset + Cardinality(seen.page) + 1 >= seen.total

LastPage(p, seen) ==
  \/ p.page = MaxPages
  \/ seen.page = {}
  \/ p.offset + Cardinality(seen.page) >= seen.total

(* One call of search_events; what it brings goes in by its id.              *)
SearchPage(criteria) ==
  /\ pivot.at \in {"core", "window"} /\ criteria \in pivot.todo
  /\ pivot.offset > 0 => criteria = pivot.walking
  /\ LET seen == SearchEvents(criteria, pivot.offset, EventPage)
         got  == [i \in seen.page \cup DOMAIN pivot.found |->
                    IF i \in seen.page THEN stored[i] ELSE pivot.found[i]]
     IN pivot' = IF LastPage(pivot, seen)
                 THEN [pivot EXCEPT !.found = got, !.todo = @ \ {criteria}, !.offset = 0, !.page = 1,
                                    !.walking = None]
                 ELSE [pivot EXCEPT !.found = got, !.offset = @ + Cardinality(seen.page),
                                    !.page = @ + 1, !.walking = criteria]
  /\ UNCHANGED <<stored, incidents, received, pivots, moves, due, floor>>

(* The core is complete: nothing found ends the request, hosts to expand to  *)
(* start a second search in the window of the core.                          *)
CoreFound ==
  /\ pivot.at = "core" /\ pivot.todo = {}
  /\ LET core == AssembleByPivot(Range(pivot.found), pivot.req.seeds)
         w    == Window(core, pivot.req.padding)
     IN pivot' = IF core = <<>> THEN Resting
                 ELSE [pivot EXCEPT !.at = "window", !.core = core, !.found = <<>>,
                         !.todo = {[seed |-> <<"host", h>>, from |-> w.from, to |-> w.to] :
                                     h \in pivot.req.hosts}]
  /\ UNCHANGED <<stored, incidents, received, pivots, moves, due, floor>>

(* The card is saved under the id of the request, whatever is stored there.  *)
SaveIncident ==
  /\ pivot.at = "window" /\ pivot.todo = {}
  /\ LET req  == pivot.req
         card == BuildCase(req, pivot.core,
                           ExpandToHosts(Range(pivot.found), pivot.core, req.hosts, req.padding))
     IN /\ incidents' = Filed(incidents, req.id, card)
        /\ floor' = Filed(floor, req.id,
                          LargestAmong({0} \cup {c.score : c \in Contributing(card.events)}))
  /\ pivot' = Resting
  /\ UNCHANGED <<stored, received, pivots, moves, due>>

Moved(id, card) ==
  /\ moves < MaxMoves /\ moves' = moves + 1
  /\ incidents' = [incidents EXCEPT ![id] = card]
  /\ UNCHANGED <<stored, pivot, received, pivots, due, floor>>

CloseIncident(id) ==
  /\ incidents[id].status = "TRIAGE"
  /\ \E status \in {"CONFIRMED", "FALSE_POSITIVE"} :
       Moved(id, [incidents[id] EXCEPT !.status = status])

ConfirmIncident(id) ==
  \E verdict \in {"ILLEG", "UNDET"} :
    Moved(id, [incidents[id] EXCEPT !.records = Append(@, [source |-> "operator", next |-> verdict])])

PermitIncident(id) ==
  Moved(id, [incidents[id] EXCEPT !.permits = Append(@, [verdict |-> "LEG"]),
                                  !.records = Append(@, [source |-> "permit", next |-> "LEG"])])

ConfirmPackage(id) == Moved(id, [incidents[id] EXCEPT !.packages = @ + 1])

IncidentInit ==
  /\ stored = [i \in {e.id : e \in FeedFirst} |-> CHOOSE e \in FeedFirst : e.id = i]
  /\ pivot = Resting /\ incidents = <<>> /\ received = 0 /\ pivots = 0 /\ moves = 0
  /\ due = {} /\ floor = <<>>

IncidentNext ==
  \/ \E e \in Feed : Observe(e)
  \/ \E req \in Requests : Ask(req)
  \/ pivot.at # "idle" /\ \E criteria \in pivot.todo : SearchPage(criteria)
  \/ CoreFound \/ SaveIncident
  \/ \E id \in DOMAIN incidents : \/ CloseIncident(id) \/ ConfirmIncident(id)
                                  \/ PermitIncident(id) \/ ConfirmPackage(id)

IncidentSpec == IncidentInit /\ [][IncidentNext]_incidentVars

-----------------------------------------------------------------------------
IncidentTypeOK ==
  /\ \A i \in DOMAIN stored : stored[i].id = i
  /\ pivot.at \in {"idle", "core", "window"}
  /\ received \in 0..MaxFeed /\ pivots \in 0..MaxPivots /\ moves \in 0..MaxMoves

(* The core misses nothing: every event that was there when the search       *)
(* began, names a seed and was not sent again meanwhile is in the core, as   *)
(* long as the pages allowed suffice, however events come in between pages,  *)
(* unless one that was sent again has slipped back behind the page.          *)
PagesSuffice == Cardinality(DOMAIN stored) <= EventPage * MaxPages

CoreMissesNothing ==
  pivot.at = "window" /\ PagesSuffice => due \subseteq {e.id : e \in Range(pivot.core)}

(* A card can account for what it holds: one piece of evidence for every     *)
(* event, that of a core event naming its seeds; every event is observed by  *)
(* just one source; every hit is of one of its events and of a case it names *)
(* as related; and it weighs no less than any of these.                      *)
CardAccounts(card, least) ==
  LET explained == [i \in DOMAIN card.evidence |-> card.evidence[i].event]
  IN /\ Range(explained) = card.events /\ Len(explained) = Cardinality(card.events)
     /\ \A i \in DOMAIN card.evidence :
          card.evidence[i].rule = "pivot" => card.evidence[i].fields # {}
     /\ \A e \in card.events :
          Cardinality({s \in DOMAIN card.observations : e \in card.observations[s]}) = 1
     /\ \A h \in card.hits : /\ h.event \in card.events
                             /\ \E c \in Pipeline : c.id \in card.related /\ h \in c.hits
     /\ card.score >= least

IncidentHoldsTogether == \A id \in DOMAIN incidents : CardAccounts(incidents[id], floor[id])

(* Why these hold: the inductive invariant.  An event that the search owes   *)
(* has been found as it is stored, or is still ahead of the walk under every *)
(* seed it names.                                                            *)
StillAhead(i, criteria) ==
  /\ criteria \in pivot.todo
  /\ pivot.offset > 0 /\ criteria = pivot.walking => Place(stored, criteria, i) >= pivot.offset

Owed(i) ==
  /\ i \in DOMAIN stored
  /\ i \in DOMAIN pivot.found => pivot.found[i] = stored[i]
  /\ \E s \in pivot.req.seeds : Selects(SeedCriteria(s), stored[i])
  /\ \A s \in pivot.req.seeds : Selects(SeedCriteria(s), stored[i]) =>
       i \in DOMAIN pivot.found \/ StillAhead(i, SeedCriteria(s))

ByIds(events) == IsFiniteSet(DOMAIN events) /\ \A i \in DOMAIN events : events[i].id = i /\ IsEvent(events[i])

WalkInv ==
  pivot.at = "core" =>
    /\ pivot.page \in 1..MaxPages /\ pivot.offset = EventPage * (pivot.page - 1)
    /\ pivot.offset > 0 => pivot.walking \in pivot.todo
    /\ PagesSuffice => \A i \in due : Owed(i)

IncidentInv ==
  /\ IncidentTypeOK /\ CoreMissesNothing /\ IncidentHoldsTogether /\ WalkInv
  /\ ByIds(stored)
  /\ DOMAIN floor = DOMAIN incidents
  /\ \A id \in DOMAIN incidents :
       {"events", "evidence", "observations", "hits", "related", "score"} \subseteq DOMAIN incidents[id]
  /\ pivot.at # "idle" =>
       /\ DOMAIN pivot = {"at", "req", "found", "core", "offset", "page", "walking", "todo"}
       /\ ByIds(pivot.found)
  /\ pivot.at = "window" =>
       /\ IsFiniteSet(Range(pivot.core))
       /\ \A e, f \in Range(pivot.core) : IsEvent(e) /\ (e.id = f.id => e = f)
       /\ \A e \in Range(pivot.core) :
            \E s \in pivot.req.seeds : PivotKeys(s) \cap EntityKeys(e) # {}

(* What is read off the card stays within its evidence: a step of the chain  *)
(* for each edge, with all events that show it, in the order of the first;   *)
(* an entry point that the events name; no link of the graph that leads      *)
(* nowhere; nothing recommended by default without a host or by expansion    *)
(* alone; a scenario only of what people have closed and confirmed, with no  *)
(* context from the time after it.                                           *)
IncidentReadersAgree ==
  \A id \in DOMAIN incidents :
    LET card    == incidents[id]
        ordered == EventsByIds(card.events)
        chain   == ReconstructAttackChain(ordered)
        graph   == CaseGraph(ordered)
        rows    == BuildResponsePackage(card, ordered).rows
        values  == {n[2] : n \in graph.nodes}
    IN /\ \A i, j \in DOMAIN chain.steps : i < j =>
            chain.steps[i].edge # chain.steps[j].edge /\ chain.steps[i].at <= chain.steps[j].at
       /\ \A i \in DOMAIN chain.steps :
            Range(chain.steps[i].events)
              = {e.id : e \in {f \in Range(ordered) : chain.steps[i].edge \in Range(EdgesOf(f))}}
       /\ chain.entry \in values \cup {None}
       /\ \A link \in graph.edges : {link[1], link[2]} \subseteq values
       /\ \A k \in DOMAIN rows : rows[k].selected =>
            /\ k[3] # None
            /\ rows[k].events # {} \/ rows[k].origin \in {"manual", "pivot-seed"}
       /\ MayBeScenario(card, ordered) =>
            LET scenario == BuildCaseScenario(card, ordered)
            IN /\ Range(scenario.context) \cap Range(ordered) = {}
               /\ \A e \in Range(scenario.context) : e.at <= ordered[Len(ordered)].at
               /\ scenario.verdict \in {"LEG", "ILLEG"}

(* Stated by the comment "Последнее наблюдение" and not kept: the last step  *)
(* is the edge first seen last, and an older edge may be seen after it.      *)
LastObservedIsLast ==
  \A id \in DOMAIN incidents :
    LET ordered == EventsByIds(incidents[id].events)
        chain   == ReconstructAttackChain(ordered)
    IN \A i \in DOMAIN chain.steps : \A e \in Range(chain.steps[i].events) :
         stored[e].at <= chain.last.at

(* Stated by the docstring of case_scenario ("подтверждает вердикт оператор, *)
(* а не конвейер") and not kept: a permit attached after the confirmation    *)
(* speaks the verdict of a scenario that names the operator.                 *)
ScenarioIsConfirmed ==
  \A id \in DOMAIN incidents :
    LET card == incidents[id]
    IN MayBeScenario(card, EventsByIds(card.events)) =>
         \E i \in DOMAIN card.records : card.records[i] = [source |-> "operator",
                                                          next |-> ForensicVerdict(card)]
=============================================================================
