----------------------------- MODULE CaseQueue ------------------------------
(* The queue of cases as its readers see it: the filtered, sorted and sliced *)
(* list with the incidents that cover a case, the groups, the statistics,    *)
(* the export of all cards page by page, and the import of such a dump into  *)
(* another instance.  The table changes between two pages.                   *)
(*                                                                           *)
(* A card here is a card of CaseAnalysis with the columns the readers use:   *)
(* id, created (tenths of a second), score, class, asset, op, source; events *)
(* and related (sets), hits, dq, partial, words (the texts a needle is       *)
(* looked for in), findings (text, and origin: the case it came from) and    *)
(* raw (ids of the raw evidence).  Moments of its lists are left out.        *)
EXTENDS CaseAnalysis

CONSTANTS
  Stored,      \* Seq: the table at the start, in the order of insertion
  Standby,     \* Seq: the table of the other instance at the start
  Newcomers,   \* set of cards that may be created
  Queries,     \* queries of the list that the readers ask
  PageSize,    \* limit of the walk over the export
  MaxWrites    \* bound: changes of the table

CaseStatuses == {"NEW", "TRIAGE", "CONFIRMED", "FALSE_POSITIVE", "EXPECTED_BEHAVIOR", "MERGED"}
RiskClasses == {"LOW", "MEDIUM", "HIGH", "CRITICAL"}

IsRow(c) ==
  {"id", "created", "status"} \subseteq DOMAIN c /\ c.created \in Int /\ c.status \in CaseStatuses

(* The rows of a table: case_id is its primary key.                          *)
IsCaseTable(rows) ==
  /\ rows \in Seq({rows[i] : i \in DOMAIN rows}) /\ \A i \in DOMAIN rows : IsRow(rows[i])
  /\ \A i, j \in DOMAIN rows : rows[i].id = rows[j].id => i = j

ASSUME CaseQueueAssumption ==
  /\ PageSize \in Nat \ {0} /\ MaxWrites \in Nat
  /\ IsCaseTable(Stored) /\ IsCaseTable(Standby) /\ \A c \in Newcomers : IsRow(c)

VARIABLES
  table,    \* Seq of cards: the rows of cases in the order of insertion
  walk,     \* the client that exports: offset of the next page, and where it is
  dump,     \* Seq: the details it has received
  standby,  \* Seq of cards: the table of the other instance
  outcome,  \* what the last import has answered
  writes,   \* changes of the table so far
  owed,     \* history: ids that the walk found and nobody has re-dated since
  sunk      \* history: a case was dated back during the walk

queueVars == <<table, walk, dump, standby, outcome, writes, owed, sunk>>

IdsOf(rows) == {rows[i].id : i \in DOMAIN rows}
RowOf(rows, id) == rows[CHOOSE i \in DOMAIN rows : rows[i].id = id]
LargestOf(S) == CHOOSE x \in S : \A y \in S : x >= y

(* sorted(): elements with equal keys keep their order, reversed or not.     *)
StableSort(rows, Key(_)) ==
  LET key  == [i \in DOMAIN rows |-> Key(rows[i])]
      rank == [i \in DOMAIN rows |-> Cardinality({j \in DOMAIN rows :
                 \/ key[j] < key[i]
                 \/ key[j] = key[i] /\ j <= i})]
  IN [k \in DOMAIN rows |-> rows[CHOOSE i \in DOMAIN rows : rank[i] = k]]

(* ---- a card as a row, and as JSON ---------------------------------------- *)
WholeSecond(moment) == moment - (moment % 10)
Keep(items, fields) == [i \in DOMAIN items |-> [f \in fields |-> items[i][f]]]

EditionsColumn(editions) == Keep(editions, {"version", "text", "approved"})
PermitsColumn(permits) == Keep(permits, {"number", "unmet", "verdict", "score"})
DecisionsColumn(decisions) == Keep(decisions, {"from", "to"})
VerdictsColumn(records) == Keep(records, {"prev", "next", "source"})
AttemptsColumn(attempts) == Keep(attempts, {"kind", "status", "before", "after"})
FindingsColumn(findings) == Keep(findings, {"text", "origin"})

(* What case_upsert_params writes and _row_to_case reads again.               *)
Row(card) ==
  [card EXCEPT !.created = WholeSecond(@), !.editions = EditionsColumn(@),
               !.permits = PermitsColumn(@), !.decisions = DecisionsColumn(@),
               !.records = VerdictsColumn(@), !.attempts = AttemptsColumn(@),
               !.findings = FindingsColumn(@)]

(* An upsert leaves the row where it is in the table.                        *)
Upsert(rows, card) ==
  IF card.id \in IdsOf(rows)
  THEN [i \in DOMAIN rows |-> IF rows[i].id = card.id THEN Row(card) ELSE rows[i]]
  ELSE Append(rows, Row(card))

PermitDetails(permits) == Keep(permits, {"number", "verdict", "score"})
FindingDetails(findings) == Keep(findings, {"text"})

(* The card as the API gives it out. Editions of the description and raw     *)
(* evidence are not in it, nor the unmet conditions of a permit and the      *)
(* origin of a finding; the formal verdict is there already computed.        *)
CaseToDetail(card) ==
  [f \in (DOMAIN card \ {"editions", "raw"}) \cup {"verdict"} |->
     CASE f = "verdict" -> ForensicVerdict(card)
       [] f = "permits" -> PermitDetails(card.permits)
       [] f = "findings" -> FindingDetails(card.findings)
       [] OTHER -> card[f]]

DomainCaseFromDetail(d) ==
  [f \in (DOMAIN d \ {"verdict"}) \cup {"editions", "raw"} |->
     CASE f = "editions" -> <<>>
       [] f = "raw" -> {}
       [] f = "permits" -> [i \in DOMAIN d.permits |->
                              [number |-> d.permits[i].number, verdict |-> d.permits[i].verdict,
                               score |-> d.permits[i].score, unmet |-> {}]]
       [] f = "findings" -> [i \in DOMAIN d.findings |->
                               [text |-> d.findings[i].text, origin |-> Blank]]
       [] OTHER -> d[f]]

(* ---- the list ------------------------------------------------------------ *)
ListAll(rows) == StableSort(rows, LAMBDA c : -c.created)

Measures(c) == [created |-> c.created, score |-> c.score, dq |-> c.dq, id |-> c.id,
                asset |-> c.asset, hits |-> Cardinality(c.hits), events |-> Cardinality(c.events)]

(* A query names the filters it sets: equal, least and most of a field, one  *)
(* of several classes, a needle; and sort, desc, offset and limit.           *)
Refused(q) ==
  \/ "status" \in DOMAIN q.equal /\ q.equal.status \notin CaseStatuses
  \/ "class" \in DOMAIN q.equal /\ q.equal.class \notin RiskClasses
  \/ ~(q.classes \subseteq RiskClasses)
  \/ q.sort \notin {"score", "created", "dq", "hits", "events", "id", "asset"}

Matches(c, q) ==
  /\ \A f \in DOMAIN q.equal : c[f] = q.equal[f]
  /\ q.classes # {} => c.class \in q.classes
  /\ \A f \in DOMAIN q.least : Measures(c)[f] >= q.least[f]
  /\ \A f \in DOMAIN q.most : Measures(c)[f] <= q.most[f]
  /\ \A f \in DOMAIN q.needle : q.needle[f] \in c[f]

ApplyFilters(rows, q) == SelectSeq(rows, LAMBDA c : Matches(c, q))

SortCases(rows, q) ==
  StableSort(rows, LAMBDA c : IF q.desc THEN -Measures(c)[q.sort] ELSE Measures(c)[q.sort])

Sliced(rows, offset, limit) == SubSeq(rows, offset + 1, SmallestOf({Len(rows), offset + limit}))

(* The assembled incident in which each case has been worked on already: the *)
(* one that holds most of its events, the smaller id among equals.  An       *)
(* incident made of nothing but events of its source does not cover it.      *)
CoverageIndex(rows) ==
  LET covers(a, s) == /\ s \in IdsOf(rows) \cap a.related /\ s # a.id /\ a.status # "MERGED"
                      /\ RowOf(rows, s).events \cap a.events # {}
                      /\ ~(a.events \subseteq RowOf(rows, s).events)
      over(s) == {a \in {rows[i] : i \in DOMAIN rows} : covers(a, s)}
      share(a, s) == Cardinality(RowOf(rows, s).events \cap a.events)
  IN [s \in {s \in IdsOf(rows) : over(s) # {}} |->
        LET most == {a \in over(s) : \A b \in over(s) : share(a, s) >= share(b, s)}
            a == CHOOSE a \in most : \A b \in most : a.id <= b.id
        IN [id |-> a.id, status |-> a.status, covered |-> share(a, s),
            full |-> share(a, s) = Cardinality(RowOf(rows, s).events)]]

ListCases(rows, q, offset, limit) ==
  LET found == SortCases(ApplyFilters(ListAll(rows), q), q)
      shown == Sliced(found, offset, limit)
      index == CoverageIndex(rows)
  IN [items |-> shown, total |-> Len(found),
      coverage |-> [s \in IdsOf(shown) \cap DOMAIN index |-> index[s]],
      next |-> Len(found) # 0 /\ offset + limit < Len(found),
      prev |-> Len(found) # 0 /\ offset > 0]

GroupKey(c, by) == <<IF by = "asset" THEN c.asset ELSE 0, c.op, c.class>>

(* The group of a key: its heaviest case, of those the one with the greater  *)
(* id, speaks for it; it shows an asset only if there is just one.           *)
Group(cases, index) ==
  LET top == CHOOSE c \in cases : \A d \in cases : \/ d.score < c.score
                                            \/ (d.score = c.score /\ d.id <= c.id)
      assets == {c.asset : c \in cases} \ {Blank}
  IN [top |-> top.id, score |-> top.score, assets |-> Cardinality(assets),
      asset |-> IF Cardinality(assets) <= 1 THEN top.asset ELSE Blank,
      cases |-> Cardinality(cases),
      first |-> SmallestOf({c.created : c \in cases}), last |-> LargestOf({c.created : c \in cases}),
      status |-> [s \in {c.status : c \in cases} |-> Cardinality({c \in cases : c.status = s})],
      covered |-> Cardinality({c \in cases : c.id \in DOMAIN index})]

GroupCases(rows, q, by) ==
  LET found == ApplyFilters(rows, q)
      cases == {found[i] : i \in DOMAIN found}
  IN [k \in {GroupKey(c, by) : c \in cases} |->
        Group({c \in cases : GroupKey(c, by) = k}, CoverageIndex(rows))]

Stats(rows) ==
  LET having(f, v) == Cardinality({i \in DOMAIN rows : rows[i][f] = v})
  IN [total |-> Len(rows), open |-> having("status", "NEW") + having("status", "TRIAGE"),
      status |-> [s \in {rows[i].status : i \in DOMAIN rows} |-> having("status", s)],
      class |-> [k \in {rows[i].class : i \in DOMAIN rows} |-> having("class", k)],
      partial |-> having("partial", TRUE),
      invariants |-> Cardinality(UNION {rows[i].hits : i \in DOMAIN rows})]

(* ---- export and import --------------------------------------------------- *)
FullExport(rows, offset) ==
  Sliced(StableSort(ListAll(rows), LAMBDA c : -c.created), SmallestOf({offset, Len(rows)}), PageSize)

(* One transaction over all cards of the dump, in their order.               *)
Import(rows, details, mode) ==
  LET step[n \in 0..Len(details)] ==
        IF n = 0 THEN [rows |-> rows, imported |-> 0, skipped |-> 0]
        ELSE LET was == step[n - 1]
             IN IF mode = "skip_existing" /\ details[n].id \in IdsOf(was.rows)
                THEN [was EXCEPT !.skipped = @ + 1]
                ELSE [was EXCEPT !.rows = Upsert(@, DomainCaseFromDetail(details[n])),
                                 !.imported = @ + 1]
  IN step[Len(details)]

(* ---- steps --------------------------------------------------------------- *)
Unasked == [mode |-> "none", imported |-> 0, skipped |-> 0, before |-> <<>>]

QueueInit ==
  /\ table = [i \in DOMAIN Stored |-> Row(Stored[i])]
  /\ standby = [i \in DOMAIN Standby |-> Row(Standby[i])]
  /\ walk = [at |-> "idle", offset |-> 0] /\ dump = <<>> /\ outcome = Unasked
  /\ writes = 0 /\ owed = {} /\ sunk = FALSE

Written(card) ==
  /\ writes < MaxWrites /\ writes' = writes + 1
  /\ table' = Upsert(table, card)
  /\ UNCHANGED <<walk, dump, standby, outcome>>

Arrive(card) ==
  /\ card.id \notin IdsOf(table) /\ Written(card)
  /\ UNCHANGED <<owed, sunk>>

(* An analyst closes a case: the card is saved, its date stays.              *)
Close(id) ==
  /\ RowOf(table, id).status \in {"NEW", "TRIAGE"}
  /\ Written([RowOf(table, id) EXCEPT !.status = "CONFIRMED",
                                      !.decisions = Append(@, [from |-> RowOf(table, id).status,
                                                               to |-> "CONFIRMED"])])
  /\ UNCHANGED <<owed, sunk>>

(* An assembled incident is rebuilt under its id: its date is that of the    *)
(* latest event it holds now, which may have come or gone.                   *)
Rebuild(id, latest) ==
  LET old == RowOf(table, id)
  IN /\ old.related # {} /\ old.status \in {"NEW", "TRIAGE"} /\ latest # old.created
     /\ Written([old EXCEPT !.created = latest])
     /\ owed' = owed \ {id} /\ sunk' = (sunk \/ latest < old.created)

(* The client asks for pages until no next one is offered.                   *)
ExportPage ==
  /\ walk.at \in {"idle", "walking"}
  /\ LET start == IF walk.at = "idle" THEN IdsOf(table) ELSE owed
         page  == FullExport(table, walk.offset)
     IN /\ dump' = dump \o [i \in DOMAIN page |-> CaseToDetail(page[i])]
        /\ walk' = [at |-> IF walk.offset + PageSize < Len(table) THEN "walking" ELSE "done",
                    offset |-> walk.offset + PageSize]
        /\ owed' = start
  /\ sunk' = (walk.at # "idle" /\ sunk)
  /\ UNCHANGED <<table, standby, outcome, writes>>

ImportCases(mode) ==
  /\ walk.at = "done" /\ outcome.mode # mode
  /\ \A i \in DOMAIN dump : dump[i].status \in CaseStatuses
  /\ LET result == Import(standby, dump, mode)
     IN /\ standby' = result.rows
        /\ outcome' = [mode |-> mode, imported |-> result.imported, skipped |-> result.skipped,
                      before |-> standby]
  /\ UNCHANGED <<table, walk, dump, writes, owed, sunk>>

QueueNext ==
  \/ \E card \in Newcomers : Arrive(card)
  \/ \E id \in IdsOf(table) : Close(id)
  \/ \E id \in IdsOf(table), card \in Newcomers : Rebuild(id, card.created)
  \/ ExportPage
  \/ \E mode \in {"skip_existing", "upsert"} : ImportCases(mode)

QueueSpec == QueueInit /\ [][QueueNext]_queueVars

-----------------------------------------------------------------------------
QueueTypeOK ==
  /\ IsCaseTable(table) /\ IsCaseTable(standby)
  /\ walk.at \in {"idle", "walking", "done"} /\ writes \in 0..MaxWrites

(* The list and the groups tell the table: the pages of a list, asked for    *)
(* one after the other, hold every case the filters let through exactly once *)
(* and as many as the total says, heavier cases first and the newer of two   *)
(* equal ones first; the groups share these cases out, and the heaviest case *)
(* of the list speaks for a group.  The list depends on nothing but the      *)
(* table, and every table occurs before the walk, so it is looked at there.  *)
ListTellsTable ==
  \A q \in Queries : walk.at = "idle" /\ ~Refused(q) =>
    LET whole  == ListCases(table, q, 0, Len(table) + 1)
        groups == GroupCases(table, q, q.by)
        inGroups[K \in SUBSET DOMAIN groups] ==
          IF K = {} THEN 0
          ELSE LET k == CHOOSE k \in K : TRUE IN groups[k].cases + inGroups[K \ {k}]
    IN /\ IdsOf(whole.items) = {c \in IdsOf(table) : Matches(RowOf(table, c), q)}
       /\ whole.total = Cardinality(IdsOf(whole.items)) /\ Len(whole.items) = whole.total
       /\ \A k \in 1..whole.total :
            LET page == ListCases(table, q, k - 1, 1)
            IN /\ page.items = <<whole.items[k]>>
               /\ page.next <=> k < whole.total
               /\ page.prev <=> k > 1
       /\ \A i, j \in DOMAIN whole.items : i < j =>
            LET a == whole.items[i]  b == whole.items[j]
            IN q.sort = "score" /\ q.desc =>
                 a.score > b.score \/ (a.score = b.score /\ a.created >= b.created)
       /\ inGroups[DOMAIN groups] = whole.total
       /\ whole.total > 0 => \E k \in DOMAIN groups :
            /\ groups[k].score = LargestOf({whole.items[i].score : i \in DOMAIN whole.items})
            /\ \A l \in DOMAIN groups : groups[l].score <= groups[k].score

(* No work is hidden behind a full coverage: whoever follows it from a case  *)
(* to the incident that covers it, and on from there, comes to one that is   *)
(* in the table, holds all the events, and is not itself covered in full     *)
(* (docstring of _coverage_index).                                           *)
WorkIsNotHidden ==
  LET index == CoverageIndex(table)
      full(s) == s \in DOMAIN index /\ index[s].full
      follow[n \in 0..Len(table), s \in IdsOf(table)] ==
        IF n = 0 \/ ~full(s) THEN s ELSE follow[n - 1, index[s].id]
  IN \A s \in IdsOf(table) :
       LET end == follow[Len(table), s]
       IN ~full(end) /\ RowOf(table, s).events \subseteq RowOf(table, end).events

(* A dump made page by page while the table changes holds every case that    *)
(* stood in the table when it began, except one that was re-dated meanwhile; *)
(* that much fails if an incident is dated back, which moves the cases       *)
(* behind it one place forward, past the pages already read.                 *)
ExportMissesNothing ==
  walk.at = "done" /\ ~sunk => owed \subseteq IdsOf(dump)

(* A copy keeps the case: what an import leaves in the other instance is, of *)
(* every case of the dump, the newest copy of it or, where existing cases    *)
(* are skipped, the row that was there; and a copied case has the verdict    *)
(* the dump shows and covers, and is covered, as it was.                     *)
CopyKeepsCase ==
  outcome.mode # "none" =>
    /\ outcome.imported + outcome.skipped = Len(dump)
    /\ IdsOf(standby) = IdsOf(outcome.before) \cup IdsOf(dump)
    /\ outcome.mode = "skip_existing" =>
         \A id \in IdsOf(outcome.before) : RowOf(standby, id) = RowOf(outcome.before, id)
    /\ \A id \in IdsOf(dump) :
         LET copies == {i \in DOMAIN dump : dump[i].id = id}
             chosen == dump[IF outcome.mode = "upsert" THEN LargestOf(copies) ELSE SmallestOf(copies)]
             copy   == RowOf(standby, id)
         IN (id \notin IdsOf(outcome.before) \/ outcome.mode = "upsert") =>
              /\ ForensicVerdict(copy) = chosen.verdict
              /\ \A f \in DOMAIN chosen \ {"verdict", "permits", "findings"} : copy[f] = chosen[f]
              /\ Len(copy.permits) = Len(chosen.permits)
              /\ Len(copy.findings) = Len(chosen.findings)

-----------------------------------------------------------------------------
(* Why ExportMissesNothing holds: the inductive invariant.                   *)

(* The rows that the list has up to row i: the newer ones, and those of the  *)
(* same second that do not stand behind it.                                  *)
ListedTo(rows, i) ==
  {j \in DOMAIN rows : \/ rows[j].created > rows[i].created
                       \/ rows[j].created = rows[i].created /\ j <= i}

(* A case the walk owes is received, or is still ahead of the next page.     *)
WalkKeepsUp ==
  /\ owed \subseteq IdsOf(table)
  /\ ~sunk => \A i \in DOMAIN table : table[i].id \in owed =>
       \/ table[i].id \in IdsOf(dump)
       \/ walk.at # "done" /\ Cardinality(ListedTo(table, i)) > walk.offset

QueueInv ==
  /\ QueueTypeOK /\ \A i \in DOMAIN table : WholeSecond(table[i].created) = table[i].created
  /\ walk \in [at : {"idle", "walking", "done"}, offset : Nat] /\ (walk.at = "idle" => walk.offset = 0)
  /\ dump \in Seq({dump[i] : i \in DOMAIN dump}) /\ \A i \in DOMAIN dump : IsRow(dump[i])
  /\ WalkKeepsUp
=============================================================================
