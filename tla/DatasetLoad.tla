---------------------------- MODULE DatasetLoad ------------------------------
(* python -m takt.tools.load_dataset: an export is read line by line, each   *)
(* event is handed to the ingest facade, a last run of the assembly follows, *)
(* and the signals that have gathered for the assembly worker are cleared.   *)
(* Meanwhile the API takes in events of its own and the worker runs.  A load *)
(* may be cut off at any step, and the same file loaded again.               *)
(*                                                                           *)
(* Last comes what the simulation tells of the events that were taken in:    *)
(* the chain of those with a phase, and what could be done about it.         *)
EXTENDS Importers, FiniteSets

CONSTANTS
  Exports,       \* sequence of files: source, table and lines
  Posts,         \* set of bodies that integrations send: kind and body
  Alarming,      \* set of operations a rule hits on, which leave a signal
  Trust,         \* function: class of source -> configured trust (part of the classes)
  Linked,        \* the seeds of the incident: sequence of type, value and colon
  MaxLoads,      \* bound: starts of the loader
  MaxPosts,      \* bound: events that the API takes in
  MaxMishaps,    \* bound: events that cannot be processed
  MaxKills       \* bound: deaths of the loader

ASSUME DatasetLoadAssumption ==
  /\ {MaxLoads, MaxPosts, MaxMishaps, MaxKills} \subseteq Nat
  /\ Exports \in Seq(Range(Exports))
  /\ \A f \in DOMAIN Exports : Exports[f].lines \in Seq(Range(Exports[f].lines))

VARIABLES
  picked,    \* the file that is loaded, an index of Exports
  loader,    \* where the loader is, and what it has counted
  held,      \* Seq of events: the store, one for every id
  signals,   \* set of ids: signals that wait for the worker
  loads, posts, mishaps, kills,
  exits,     \* Seq: what the loads have reported
  served,    \* history: ids that some run of the assembly has seen
  missed     \* history: events whose signal was cleared though no run had seen them

loadVars == <<picked, loader, held, signals, loads, posts, mishaps, kills, exits, served, missed>>

HeldIds == {held[i].id : i \in DOMAIN held}

(* An event that is stored under the id of another takes its place.          *)
Hold(event) ==
  held' = IF event.id \in HeldIds
          THEN [i \in DOMAIN held |-> IF held[i].id = event.id THEN event ELSE held[i]]
          ELSE Append(held, event)

Off == [at |-> "off", line |-> 0, assemble |-> TRUE, processed |-> 0, failed |-> 0, skipped |-> 0, seen |-> {}]

(* The trust is that of the class of the event, not of the name on the       *)
(* command line.                                                             *)
SourceClass(source) == CASE source \in {"nad", "ndr"} -> "ndr" [] source \in {"pt_siem", "siem"} -> "siem"
                         [] source = "netflow" -> "network_events" [] OTHER -> source
Trusted(class) == IF class \in DOMAIN Trust THEN Trust[class] ELSE 100

(* An event with its trust and, for the properties, whether the API took it  *)
(* in.                                                                       *)
Marked(event, trust, post) ==
  [id |-> event.id, at |-> event.at, class |-> event.class, protocol |-> event.protocol,
   operation |-> event.operation, size |-> event.size, user |-> event.user, host |-> event.host,
   process |-> event.process, parent |-> event.parent, src |-> event.src, dst |-> event.dst,
   payload |-> event.payload, artifacts |-> event.artifacts, trust |-> trust, post |-> post]

Rest == <<picked, loads, posts, mishaps, kills, exits>>

Begin(assemble) ==
  /\ loader.at = "off" /\ loads < MaxLoads /\ loads' = loads + 1
  /\ loader' = [Off EXCEPT !.at = "reading", !.line = 1, !.assemble = assemble]
  /\ UNCHANGED <<picked, held, signals, posts, mishaps, kills, exits, served, missed>>

(* What becomes of every line of every file, and its event; as tables, which *)
(* TLC computes once (\o <<>> makes it do so).                               *)
ReadsOf ==
  [f \in DOMAIN Exports |->
     [n \in DOMAIN Exports[f].lines |-> Reads(Exports[f].source, Exports[f].lines[n])] \o <<>>]
  \o <<>>

New == <<"a", "new", "uuid">>

EventsOf ==
  [f \in DOMAIN Exports |->
     LET e == Exports[f]
     IN [n \in DOMAIN e.lines |->
           IF ReadsOf[f][n] # "event" THEN Null
           ELSE Marked(EventOfLine(e.source, e.table, e.lines[n], New),
                       Trusted(SourceClass(e.source)), FALSE)] \o <<>>]
  \o <<>>

export == Exports[picked]

EventLines == {n \in DOMAIN export.lines : ReadsOf[picked][n] = "event"}
SkippedLines == {n \in DOMAIN export.lines : ReadsOf[picked][n] = "skip"}

(* The event of a line in this load; where its source gives it no id, it has *)
(* another one in each load.                                                 *)
InThisLoad(event, n) ==
  IF event.id # New THEN event
  ELSE [event EXCEPT !.id = <<"uuid", ToString(loads), ToString(n)>>]

Event(n) == InThisLoad(EventsOf[picked][n], n)

AtLine(reads) == /\ loader.at = "reading" /\ loader.line \in DOMAIN export.lines
                 /\ ReadsOf[picked][loader.line] \in reads
AtEnd == loader.at = "reading" /\ loader.line \notin DOMAIN export.lines

(* A line that gives no event is passed over, with a warning in the log.     *)
PassLine ==
  /\ AtLine({"empty", "skip"})
  /\ loader' = [loader EXCEPT !.line = @ + 1, !.skipped = @ + (IF AtLine({"skip"}) THEN 1 ELSE 0)]
  /\ UNCHANGED <<Rest, held, signals, served, missed>>

(* An error that the reader does not expect ends the load: no assembly, no   *)
(* report.                                                                   *)
StopsAtLine ==
  /\ AtLine({"stop"})
  /\ loader' = Off
  /\ exits' = Append(exits, [code |-> "traceback", failed |-> loader.failed, processed |-> loader.processed,
                             skipped |-> loader.skipped, line |-> loader.line])
  /\ UNCHANGED <<picked, held, signals, loads, posts, mishaps, kills, served, missed>>

Signalled(event) == signals' = IF event.operation \in Alarming THEN signals \cup {event.id} ELSE signals

LoadLine ==
  /\ AtLine({"event"})
  /\ Hold(Event(loader.line)) /\ Signalled(Event(loader.line))
  /\ loader' = [loader EXCEPT !.line = @ + 1, !.processed = @ + 1]
  /\ UNCHANGED <<Rest, served, missed>>

(* The facade raises, before or after it has stored the event: one failure,  *)
(* and the next line.                                                        *)
LineFails(stored) ==
  /\ AtLine({"event"})
  /\ mishaps < MaxMishaps /\ mishaps' = mishaps + 1
  /\ IF stored THEN Hold(Event(loader.line)) ELSE UNCHANGED held
  /\ loader' = [loader EXCEPT !.line = @ + 1, !.failed = @ + 1]
  /\ UNCHANGED <<picked, loads, posts, kills, exits, signals, served, missed>>

(* Also after failures the last run of the assembly searches the store ...   *)
Assemble ==
  /\ AtEnd /\ loader.assemble
  /\ loader' = [loader EXCEPT !.at = "assembled", !.seen = HeldIds]
  /\ served' = served \cup HeldIds
  /\ UNCHANGED <<Rest, held, signals, missed>>

(* ... and then the signals are cleared, all that are there by now; or, with *)
(* an error that is swallowed, none.                                         *)
ClearAssemblySignals ==
  /\ loader.at = "assembled"
  /\ loader' = [loader EXCEPT !.at = "cleared"]
  /\ signals' = {}
  /\ missed' = missed \cup {held[i] : i \in {j \in DOMAIN held : held[j].id \in signals \ served}}
  /\ UNCHANGED <<Rest, held, served>>

ClearingFails ==
  /\ loader.at = "assembled" /\ mishaps < MaxMishaps /\ mishaps' = mishaps + 1
  /\ loader' = [loader EXCEPT !.at = "cleared"]
  /\ UNCHANGED <<picked, loads, posts, kills, exits, held, signals, served, missed>>

Report ==
  /\ loader.at = "cleared" \/ (AtEnd /\ ~loader.assemble)
  /\ exits' = Append(exits, [code |-> IF loader.failed = 0 THEN "0" ELSE "1", failed |-> loader.failed,
                             processed |-> loader.processed, skipped |-> loader.skipped,
                             line |-> loader.line])
  /\ loader' = Off
  /\ UNCHANGED <<picked, held, signals, loads, posts, mishaps, kills, served, missed>>

(* The loader dies; or its run of the assembly raises, which is the same.    *)
Killed ==
  /\ loader.at # "off" /\ kills < MaxKills /\ kills' = kills + 1
  /\ loader' = Off
  /\ UNCHANGED <<picked, held, signals, loads, posts, mishaps, exits, served, missed>>

(* The API takes in an event that an integration has sent ...                *)
Post(sent) ==
  /\ posts < MaxPosts /\ posts' = posts + 1
  /\ LET event == Marked(Prepared(sent.kind, sent.body, <<"post", ToString(posts + 1)>>), 100, TRUE)
     IN Hold(event) /\ Signalled(event)
  /\ UNCHANGED <<picked, loader, loads, mishaps, kills, exits, served, missed>>

(* ... and the worker takes the signals and assembles what is stored.        *)
WorkerRuns ==
  /\ signals # {} /\ signals' = {}
  /\ served' = served \cup HeldIds
  /\ UNCHANGED <<Rest, loader, held, missed>>

LoadInit ==
  /\ picked \in DOMAIN Exports
  /\ loader = Off /\ held = <<>> /\ signals = {} /\ exits = <<>>
  /\ loads = 0 /\ posts = 0 /\ mishaps = 0 /\ kills = 0
  /\ served = {} /\ missed = {}

LoadNext ==
  \/ (\E assemble \in BOOLEAN : Begin(assemble))
  \/ PassLine \/ StopsAtLine \/ LoadLine \/ (\E stored \in BOOLEAN : LineFails(stored))
  \/ Assemble \/ ClearAssemblySignals \/ ClearingFails \/ Report \/ Killed
  \/ (\E sent \in Posts : Post(sent)) \/ WorkerRuns

LoadSpec == LoadInit /\ [][LoadNext]_loadVars

(* ---- the simulation ------------------------------------------------------ *)
PhaseIndex(phase) == CHOOSE i \in DOMAIN Phases : Phases[i] = phase

ChainSteps(events) ==
  LET phased == SelectSeq(events, LAMBDA e : e.payload.phase # Null)
      sorted == SortSeq(phased, LAMBDA e, f : e.at < f.at)
  IN [i \in DOMAIN sorted |-> [order |-> i, id |-> sorted[i].id, at |-> sorted[i].at,
                               phase |-> sorted[i].payload.phase, origin |-> sorted[i].payload.origin]]

PhaseSummary(steps) ==
  LET count(p) == Cardinality({i \in DOMAIN steps : steps[i].phase = p})
  IN SelectSeq([i \in DOMAIN Phases |-> [phase |-> Phases[i], events |-> count(Phases[i])]],
               LAMBDA row : row.events > 0)

Simulate(events) ==
  LET steps == ChainSteps(events)
  IN [steps |-> steps, resolved |-> Len(events), phases |-> PhaseSummary(steps),
      withoutPhase |-> Len(SelectSeq(events, LAMBDA e : e.payload.phase = Null))]

(* What could be done about the seeds; a host with a colon is an object of   *)
(* the plant.                                                                *)
ResponseOptions(seeds, events) ==
  LET of(kind, colon) == {seeds[i].value : i \in {j \in DOMAIN seeds : seeds[j].type = kind
                                                                      /\ seeds[j].colon = colon}}
      option(kind, objects) == IF objects = {} THEN {} ELSE {[kind |-> kind, objects |-> objects]}
      plant == of("host", TRUE)
  IN option("isolate_host", of("host", FALSE))
     \cup option("reset_account", of("user", TRUE) \cup of("user", FALSE))
     \cup option("block_address", of("address", TRUE) \cup of("address", FALSE))
     \cup IF plant # {} \/ (\E i \in DOMAIN events : events[i].class = "ot")
          THEN {[kind |-> "freeze_pipeline", objects |-> plant]} ELSE {}

-----------------------------------------------------------------------------
LoadTypeOK ==
  /\ loader.at \in {"off", "reading", "assembled", "cleared"}
  /\ signals \subseteq HeldIds /\ served \subseteq HeldIds
  /\ loads \in 0..MaxLoads /\ posts \in 0..MaxPosts

(* A file that has been loaded to its end without a failure is in the store  *)
(* as one load leaves it, however many loads were cut off or repeated: every *)
(* event of it is there and none twice, unless its source gives it no id,    *)
(* and nothing else is; and where lines have one id the last of them counts, *)
(* once no load was cut off.                                                 *)
HasOwnIds == \A n \in EventLines : EventsOf[picked][n].id # New

LastCounts(lines) ==
  \A i \in DOMAIN held : \A n \in lines :
    ~held[i].post /\ held[i].id = Event(n).id => \E m \in lines : n <= m /\ held[i] = Event(m)

LoadingTwiceIsOnce ==
  /\ \A i, j \in DOMAIN held : held[i].id = held[j].id => i = j
  /\ HasOwnIds =>
       /\ \A i \in DOMAIN held : ~held[i].post => \E n \in EventLines : held[i] = Event(n)
       /\ (\E i \in DOMAIN exits : exits[i].code = "0") => \A n \in EventLines : Event(n).id \in HeldIds
       /\ loader.at = "off" /\ Len(exits) = loads /\ exits # <<>> /\ exits[Len(exits)].code = "0" =>
            LastCounts(EventLines)

(* Events that their source tells apart stay apart in the store: those of PT *)
(* SIEM by uuid or, without one, by their moment, host or account.           *)
SourcesStayApart ==
  LET ofSiem == {n \in EventLines : export.source = "pt_siem"}
      uuid(n) == SiemText(export.lines[n].doc, "uuid")
      told(n) == LET d == export.lines[n].doc
                 IN IF uuid(n) # Null THEN <<uuid(n)>>
                    ELSE <<First(SiemText, d, SiemTime), First(SiemText, d, SiemHost),
                           First(SiemText, d, SiemUser)>>
  IN \A m, n \in ofSiem : told(m) # told(n) => Event(m).id # Event(n).id

(* The report of a load accounts for every line, and what was stored at its  *)
(* end has been seen by the assembly.  No signal waits in vain: an event it  *)
(* is about has been seen, the worker will be woken for it, or the API took  *)
(* it in between the run of the loader and the clearing.                     *)
LoadAccounts ==
  /\ \A i \in DOMAIN exits : exits[i].code # "traceback" =>
       /\ exits[i].processed + exits[i].failed = Cardinality(EventLines)
       /\ exits[i].skipped = Cardinality(SkippedLines)
  /\ loader.at \in {"assembled", "cleared"} => loader.seen \subseteq served
  /\ \A i \in DOMAIN held : held[i].operation \in Alarming /\ mishaps = 0 =>
       held[i].id \in served \cup signals \cup {event.id : event \in missed}
  /\ \A event \in missed : event.post

(* Inductive: the loader has counted the lines before the one it is at, and  *)
(* what still signals after its run has come in through the API.             *)
LinesBefore(n, lines) == {m \in lines : m < n}

LoaderStands ==
  /\ picked \in DOMAIN Exports
  /\ held \in Seq(Range(held)) /\ exits \in Seq(Range(exits)) /\ mishaps \in Nat
  /\ DOMAIN loader = DOMAIN Off
  /\ loader.at \in {"off", "reading", "assembled", "cleared"}
  /\ loader.at # "off" =>
       /\ {loader.processed, loader.failed, loader.skipped} \subseteq Nat
       /\ loader.line \in 1..(Len(export.lines) + 1)
       /\ loader.processed + loader.failed = Cardinality(LinesBefore(loader.line, EventLines))
       /\ loader.skipped = Cardinality(LinesBefore(loader.line, SkippedLines))
  /\ loader.at \in {"assembled", "cleared"} => loader.line \notin DOMAIN export.lines
  /\ loader.at = "assembled" =>
       \A i \in DOMAIN held : held[i].id \in signals \ served => held[i].post
  /\ loads \in Nat /\ Len(exits) <= loads /\ (loader.at # "off" => Len(exits) < loads)
  /\ HasOwnIds /\ loader.at # "off" /\ loader.failed = 0 =>
       LET lines == LinesBefore(loader.line, EventLines)
       IN (\A n \in lines : Event(n).id \in HeldIds) /\ LastCounts(lines)

LoadInv == LoadAccounts /\ LoadingTwiceIsOnce /\ LoaderStands

(* An event tells what its record said: no secret of the record is in it     *)
(* under the name of a secret or as the argument of a command, a phase that  *)
(* the source named is kept and any other names the category it comes from,  *)
(* the simulation counts each event once and in order, and what it proposes  *)
(* touches nothing but the seeds, the plant never by isolating a host.       *)
EventsTellTheirRecords ==
  LET shown    == Simulate(held)
      proposed == ResponseOptions(Linked, held)
  IN /\ \A i \in DOMAIN held :
          LET fields == held[i].payload.fields
          IN /\ export.source \in {"nad", "pt_siem"} /\ ~held[i].post =>
                  /\ \A p \in DOMAIN fields.nested : \A k \in DOMAIN fields.nested[p] :
                       fields.nested[p][k] \notin {"secret", "kim_secret"}
                  /\ \A p \in DOMAIN fields.flat : \A k \in DOMAIN fields.flat[p] :
                       fields.flat[p][k] # "secret"
             /\ held[i].user # "secret"
             /\ held[i].payload.origin # "" => held[i].payload.phase # Null
     /\ \A i \in DOMAIN shown.steps : shown.steps[i].origin = "" =>
          \E j \in DOMAIN held : /\ held[j].id = shown.steps[i].id
                                 /\ "attack_phase" \in DOMAIN held[j].payload.fields.nested
     /\ Len(shown.steps) + shown.withoutPhase = shown.resolved
     /\ \A i, j \in DOMAIN shown.steps : i < j => shown.steps[i].at <= shown.steps[j].at
     /\ \A o \in proposed : \A value \in o.objects : \E i \in DOMAIN Linked :
          Linked[i].value = value /\ (Linked[i].colon => o.kind # "isolate_host")
     /\ FoldLeft(LAMBDA sum, row : sum + row.events, 0, shown.phases) = Len(shown.steps)

(* Not kept.  The acceptance list of sprint 1: a record that cannot be       *)
(* parsed does not bring the load down, it is passed over and logged         *)
(* (docs/pt_techlab_2026_sprint_plan.md:76).  A row of a CSV that is cut off *)
(* before a column that is needed raises an AttributeError, which the reader *)
(* does not catch.                                                           *)
BadRecordsArePassed == \A i \in DOMAIN exits : exits[i].code # "traceback"

(* Not kept.  The description of the connector takes the id of a document    *)
(* from _id, _ndx, _prn.id, tx_id, file_id (docs/pt_techlab/                 *)
(* source_schema_nad.md:44); the code looks at flow_id before tx_id, so that *)
(* the transactions of a flow, and the flow itself, become one event, the    *)
(* last of them.                                                             *)
TransactionsStayApart ==
  \A m, n \in EventLines : export.source = "nad" =>
    LET tx(k) == NadText(export.lines[k].doc, "tx_id")
    IN tx(m) # Null /\ tx(m) # tx(n) => Event(m).id # Event(n).id

(* Not kept: the signals are said to be of work that has just been done      *)
(* (load_dataset.py, _clear_assembly_signals); one that the API has raised   *)
(* after the run goes with them.                                             *)
ClearedWorkIsDone == missed = {}

(* Not kept: a category that is listed as not translated gives no phase      *)
(* (source_phases.yaml); a coarser category of the same event still does.    *)
RefusedStaysWithoutPhase ==
  \A i \in DOMAIN held : LookUp(held[i].payload.fields, "incident.category") \in Untranslated =>
    held[i].payload.origin = ""
=============================================================================
