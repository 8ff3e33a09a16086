# TAKT: a TLA+ verification project

TAKT (`src/takt` of the repository) takes normalised security events of an industrial
network, scores them against a catalogue of invariants, keeps *cases*, joins the events of
one attack chain into one case, and assembles cases into *incidents* that an analyst decides
on. This directory holds TLA+ modules for the parts of it whose correctness depends on the
order of steps of several processes, threads or people, the TLC runs that check them, and
TLAPS proofs of the results that matter most.

Paths below are relative to the root of the repository. `PROJECT.json` lists, for each
definition, the lines of code it stands for.

Contents: 1 how the system is put together, 2 inventory, 3 plan, 4 modules, 5 runs,
6 fairness, 7 proofs, 8 where code and documentation disagree, 9 what is not modelled.

## 1. How the system is put together

```
  collectors, browsers                      analysts
        |  POST /events (event loop)            |  decisions, findings, corrections,
        |  POST /integrations/ingest/...        |  permits, summaries (thread pool)
        v  (thread pool)                        v
  +--------------------------- API process (FastAPI) ---------------------------+
  | IngestAssessmentFacade -> ProcessEventUseCase -> case store                 |
  |                        -> attach_raw_evidence -> event store                |
  |                        -> after_ingest: AssembleOnIngest | DeferToWorker    |
  +------------------------------------------------------------------------+---+
        |  cases, keys, journals, events, queue: one SQLite file           |
        v                                                                  v
  +---- assembly worker (tools/assembly_worker.py) ----+        POST /cases/assemble/auto
  | lease -> take_pending -> AutoAssembleIncidents ->  |        runs the same assembly in
  | requeue on failure -> sleep                        |        the API, without the lease
  +----------------------------------------------------+
        ^ systemd or docker restarts it
```

Two operating-system processes share one SQLite file (the default `storage.backend` keeps
everything in the memory of the API instead, and then there is no worker). `POST /events` and
`POST /events/batch` are `async def` handlers that await the body of the request and then run to
their end, so they are one serial thread; every other handler runs on the thread pool, beside it and beside each other.
There is one connection per process and one `RLock` around it. A use case reads a card,
changes the object it got and saves it; no lock spans the three.

## 2. Inventory

For each component: the state it keeps, its operations, whom it talks to, what is hard about
it, and what makes it correct. The last column names the module that has it.

| Component | State | Operations | Interacts with | What is hard | Correct when | Module |
|---|---|---|---|---|---|---|
| Assembly queue `sqlite_assembly_queue.py` | one row: pending, lease_owner, lease_until | note_hits, take_pending, acquire_lease, release_lease, publish/read config | ingest, worker | signals that come during a run; leases of the dead | no signal is lost, a live lease is left by its owner only | AssemblyQueue |
| Assembly worker `tools/assembly_worker.py`, `use_cases/assembly_worker.py`, unit file | control state, signals taken, stop flag | boot, renew, run_once, requeue, sleep, stop, exit codes | queue, stores, supervisor | kills and failures at any line, restarts, refused processes | hits are assembled in the end; cycles exclude one another | AssemblyWorker |
| Automatic assembly `auto_assemble_incidents.py`, `assemble_incident.py` | assembled cards; cache of occurrences; snapshot of a run | plan, merge groups, save twice, supersede, retire | case store, event store, worker, endpoint | the stream grows during the run, analysts decide, two runs at once, runs cut off | incremental assembly comes to what one batch run gives | AutoAssembly |
| Correlation and burst keys `alert_fatigue.py` | none | keys of an event by the rules of the configuration | event processing | buckets cut by the calendar, rules that cannot be used | a burst on a host is never cut | CorrelationKeys |
| Event processing `process_event.py`, `ingest_facade.py`, `case_merge.py` | case in hand | look up key by key, absorb, save, attach evidence | case store, analysts | several threads, deaths between saves, stale cards | no event, hit or evidence is lost; one open case for a key | EventProcessing |
| Case store: index `sqlite_correlation_keys.py`, `memory.py` | rows or dictionary key to case | reindex by difference, find the newest open case | event processing | rows and card written apart | the index holds the keys of the cards | EventProcessing |
| Case store: saves `sqlite_store.py`, `sqlite_audit_ledger.py` | cards, hash chains, open transaction, lock | get, save, save_all, append to the chain, verify | every use case, both processes | threads share a connection and its transaction; processes share a chain | pairs change together, chains verify, no request hangs | CaseStore |
| Manual correlation `manual_correlation.py` | cards, findings, evidence of corrections | attach, detach, merge, split | case store, analysts' clients | retries, overlap, order of merges and splits | evidence stays with its events, a retry changes nothing more | ManualCorrelation |
| Findings `case_findings.py` | findings and artifacts of a card | add_finding, add_artifact | as above | wander through merges | a finding names the case it was written in | ManualCorrelation |
| Decisions `case_decision.py`, `case_lifecycle.py` | status, decision records | decide | event processing, assembly | ingest overwrites a decision | only allowed transitions | EventProcessing, AutoAssembly |
| Permits, verdicts, summaries, remediation `manual_permit.py`, `formal_verdict_confirmation.py`, `investigation_summary.py`, `remediation.py` | records of a card, numbered editions, lines of the ledger | attach, confirm, save an edition, approve, record an attempt, recheck | case store, baseline, ledger | numbers taken from stale cards, approval by number, deaths between mark, save and ledger | nobody approves a text nobody has read; a card tells a story that can have happened | CaseWork, CaseAnalysis |
| What is read off a card `verdict_confidence.py`, `forensic_verdict.py`, `decision_brief.py`, `compliance_report.py`, `investigation_effort.py` | none | verdict, confidence, readiness, brief, effort | every page | several computations of one thing | readers of one card agree | CaseAnalysis |
| Audit engagements `audit_engagement.py` | a record of three stages | create, advance, finalize, add a finding | own store | two clerks, saves that cross | stages in order, each once | AuditEngagements |
| Idempotency, ingest endpoints `http/idempotency.py`, `routers/ingest.py` | answers by key with a time to live | remember and replay | event processing | retry after a death, retry at the moment of expiry | an answer is given once | IngestFront |
| Event store, entity registry `sqlite_recent_events.py` | events, window, counters of entities | add, trim, search | ingest, assembly | statements that commit apart, events that come twice | counters agree with events, up to one per fault | IngestFront; the search in IncidentCard |
| Assembly on ingest `assembly_on_ingest.py` | hits since the last run | count, reset, run | ingest | reset before the run | few hits wait | IngestFront; the deferring kind in AssemblyWorker |
| Rate limit `rate_limit_middleware.py` | a table of counts per minute | count, evict | every request | a full table, the change of minute | the limit is the limit, in both directions | RateLimit |
| Risk settings `routers/config.py`, `weights_writer.py` | a file, a dictionary in memory, a version | put, load at start | risk engine | two edits at once, failed writes, deaths | what is in force has been validated and is what the file says | Settings |
| Risk engine, data quality, catalogue, explanation `domain/engines`, `domain/invariants`, `assess_risk.py` | the window of events | assess an event | ingest | order of arrival, windows, boundaries | the order of delivery does not matter; no hit is mute | RiskAssessment, RiskStream |
| Incidents from seeds `assemble_incident.py`, `reconstruct_chain.py`, `response_package.py`, `case_scenario.py` | an assembled card | search page by page, expand, build, read off chain, graph, package, scenario | event store, analysts | events that come between pages, events sent again | the core misses nothing; a card can account for what it holds | IncidentCard |
| Lists, export, import `cases_query_service.py`, `mappers/cases.py`, `sqlite_case_mapper.py` | none; a client's walk over the pages | filter, sort, page, group, cover, export, import | analysts, another instance | ties, a table that changes between pages | nothing is shown twice or hidden; a copy keeps the case | CaseQueue |
| Forensic bundle `forensic_bundle.py`, `root_hash_signature.py` | none | build, sign, verify | analysts | files lost, cut off or replaced, several signers | what the product builds verifies, and nothing changed does | ForensicBundle |
| Papers and forwarding `case_pdf.py`, `gossopka.py`, `export_facade.py`, `siem_webhook.py`, `webhook_allowlist.py` | hash and moment of the last passport on the card; slots | draw, seal, forward | SIEM, GosSOPKA | a save between read and seal, lost posts and answers, names that change their address | a passport can be told from its hash; a forward has happened as it is answered | Handoff |
| Importers, dataset load `importers/*`, `tools/load_dataset.py`, `simulate_incident.py` | counters of a load | read, map, mask, load, assemble, clear signals | ingest, worker | broken rows, loads cut off and repeated, one id for two events | what is read becomes the events it tells of, once | Importers, DatasetLoad |
| Authentication, backtest, metrics, schema, scripts, frontend | none, or none between calls | compare, count, render | outside | formats | covered by tests | not modelled (section 9) |

Hard behaviours, as `PROJECT.json` lists them line by line under `hazards`: interleavings of
handlers and processes over cards read before (`process_event.py:107`,
`manual_correlation.py:172`, `investigation_summary.py:354`); sequences of statements that
commit one by one (`sqlite_store.py:111,127`, `sqlite_audit_ledger.py:14`,
`sqlite_recent_events.py:129`); deaths and restarts of either process between two steps
(`assembly_worker.py:113`, `process_event.py:168`, `case_decision.py:82`); retries of what was
already done (`manual_correlation.py:271`, `routers/ingest.py:67`, `siem_webhook.py:194`); leases
and time-outs (`tools/assembly_worker.py:198,215`); pages read while the table changes
(`cases_query_service.py:341`); long sequences of legal calls (`manual_correlation.py:226`).

## 3. Plan

Built, in the order of how much of the system's promise hangs on it:

1. `AssemblyQueue`, `AssemblyWorker`, abstract `AssemblyPromise` - with proofs.
2. `AutoAssembly`, what a run makes of the store; abstract counterpart: the batch
   computation `BatchIds` over the stream - with proofs for runs that do not overlap.
3. `CorrelationKeys`, `EventProcessing` - with proofs, some for one ingest thread.
4. `CaseStore`, the saves under all of these - with proofs.
5. `ManualCorrelation` - with proofs.
6. `CaseAnalysis`, `CaseWork`, `AuditEngagements`, `ForensicBundle`: the work of analysts - with
   proofs, but for what `CaseAnalysis` computes.
7. `RiskAssessment`, `RiskStream`: how an event is judged, in any order of delivery - with proofs.
8. `IngestFront`, `RateLimit`, `Settings`: what stands in front of and beside ingest - with proofs.
9. `CaseQueue`, `IncidentCard`, `Handoff`: lists, incidents from seeds, what leaves the system -
   with proofs of types, of the walks over pages, of passports and of forwards.
10. `Importers`, `DatasetLoad`: how other systems' records come in - with proofs.

Left: proofs of what several readers compute from one record (`ReadersAgree`), and that every
open case is in reach for two ingest threads until they overlap (`OneOpenCaseForKey` with a history
variable in place of `Serial`).

## 4. Modules

Conventions. A thread or runner keeps what it is doing in a record (`hand[t]`, `thr[t]`,
`step[r]`, `flight[t]`, `lane[l]`, `courier[t]`) whose `pc` or `at` names the next statement at
which another thread, another process or a death can come in between; what a real thread does
without such a point is one action. `(* Mutated form: ... *)` marks an operator next to the one it
mutates: the way that code could plausibly be wrong. It is used by no specification, only to see
that a property notices it. History variables say so where they are declared.

### AssemblyQueue, AssemblyWorker, AssemblyPromise

`AssemblyQueue` has the row of `assembly_queue`: `pending`, `leaseOwner` and `leaseLeft`, the
time to `lease_until` (only the distance between lease_until and the clock matters, so time
passing counts it down and the state space stays finite without a bound on the clock). One
operator per SQL statement or `BEGIN IMMEDIATE ... COMMIT`.

`AssemblyWorker` adds the ingest of an event (`StoreEvent`, then `AfterIngest`, which is
`DeferAssemblyToWorker.after_ingest`), worker processes with the statements of `run()` and
`run_once()` as control states, the supervisor (`RestartsAfter`: the `Restart=` lines of the
unit file, or docker's `unless-stopped`), the operator, and faults: kills anywhere, a failing
queue, a failing run, a dying API. Every exit passes through the `finally` clause except a
kill. An owner name is host:pid, so a relaunched unit has a new name and a relaunched container
has the old one (`LeaseKeptByTheDead`).

`AssemblyPromise` says what the assembly owes the stream, in four variables: an event that was
accepted and signalled is built in the end, unless signals die with a process. `AssemblyWorker`
implements it under the mapping `accepted <- Accepted`, `signalled <-` the triggering events
whose request is done, `built <- assembled`, `broken <- lostBy # {}`.

### AutoAssembly

One run of `AutoAssembleIncidentsUseCase.execute`, read by read and save by save, with any
number of runs beside it. The id of an incident is a hash of its seeds, so sets of seeds are
the ids. State: `ingest` (an event's case is saved before the event is stored: two steps of
another process), `shut`, `card`; for a run `step`, `prev`, `seen` (its snapshots), `todo`,
`rarity` (the cache of occurrences), `groups`, `fresh`, `hand`. `SaveCard` searches the core a
second time, as `AssembleIncidentUseCase.execute` does, and `SaveMarked` is the second save of
the same object with the automatic marker. `BatchIds` computes without groups, cache or order
what one run over a stream at rest comes to: clusters of seed cases linked by their cores.

### CorrelationKeys, EventProcessing

`CorrelationKeys` translates `correlation_rules_from_config`, the keys of a rule and the burst
key. A digest stands for itself (as a record of what is hashed): equal keys mean equal inputs.
Time is in whole seconds, `\div` is the floor division of the code.

`EventProcessing` has the cards, the index of keys (rows under SQLite, a dictionary under
memory: both as pairs, `ReindexDelta` and `ReindexMemory`), and for each thread the cards met
so far. Lookups go one key at a time because `find_open_by_fingerprints` is called per key and
the burst key last; absorbed cards are saved one by one before the survivor; evidence is one
more save of the card in memory. `DiedInSave` leaves the card written and some of its rows not,
because the statements of `save` commit one by one.

### Proof modules

Most of the invariants a proof needs are stated at the end of the module they are about; the lemmas
and theorems are in modules of their own. `AssemblyProofs` is about the worker side and then about
the runs (`AutoAssembly`), `CaseStoreProofs` about the store. `EventProcessingProofs` has one ingest
thread until the first death, then any number of threads for the index, one thread and any deaths
for the contents, and at last the keys of neighbours. `ManualCorrelationProofs` has what a command
makes of the cards, then what a request changes and how often. `ApiPartsProofs` is about the parts
of the API that take work in, each by itself: `IngestFront`, `Settings`, `AuditEngagements`,
`CaseWork`, `DatasetLoad`; `ApiViewsProofs` about those that select, order and add up what is there:
`RateLimit`, `ForensicBundle`, `RiskStream`, `CaseQueue`, `IncidentCard`. `ApiProofs` is about
`Handoff`, and puts the parts together into the properties of `MCApi`. `Counting` has the lemmas
several use: induction over the natural numbers with a set in place of a property, largest elements,
and the places of the elements of a finite set in an order, which is what pages, caps and sorted
windows are counted by.

### CaseStore

What a save is made of: `ReadExisting`, `Upsert`, and for each new line of the log `ReadTail`
and `Insert`, under the lock of the process; `Begin`, `Commit`, `Rollback` of `save_all`, which
holds the lock only over each. `draft` is what the one open transaction sees; it belongs to the
*connection*, so other threads of the process write into it (`View`, `Write`). `TimedOut` is
`busy_timeout` running out, `Failed` a statement that raises, `Died` a process. A card is its
log, one line for each request whose change it contains; a journal entry carries what it
follows in place of its hash.

### ManualCorrelation

Commands with request ids, sent and sent again on several threads: `ReadTarget`, `ReadSource`
(merge), `ReadRelated` (split looks for the child of the same request among the related cases,
one read each), one save of everything the request changed, then one ledger line per case. The
operations on cards (`Attached`, `Detached`, `MergedTarget`, `MergedSource`, `SplitChild`,
`SplitSource`, `WithFinding`) are functions of the cards that were read, so that stale copies
are saved as stale as they are. Left out of a card: artifacts, fingerprints, titles, the score
and the risk vectors, which go along with what is modelled and which nothing modelled reads. A
request without an id is not modelled: the middleware gives every request one.

### CaseAnalysis, CaseWork

`CaseAnalysis` is what the API computes from one card on every request: the verdict on a permit
(window, class, the four conditions), the formal verdict and its confidence, the missing context,
the readiness in the three places that compute it, draft, brief and effort. `CaseWork` has the
handlers that change a card: each reads the whole card (`Read`, `ReadAgain`, `AskChecklist`: one
action per read, since a recheck reads twice), `MarkExpected` writes the baseline before the save,
`Save` writes the whole card back, `Note` writes the line of the ledger after it. `Die` drops what
is in flight. A save over another one is recorded in a history variable, because most of what
the code promises holds exactly until that happens, and `CardTellsItsStory` holds after it too.

### AuditEngagements, ForensicBundle

`AuditEngagements`: one row, `Call` reads and changes a copy, `Store` writes it back.
`ForensicBundle` has the list of files with their conditions, the chain of hashes, the manifest,
who signs (`BuildSignature`) and the verifier, against archives with a file lost, cut off, or cut
off with its hash replaced. A hash is a term, so that collisions do not exist.

### RiskAssessment, RiskStream

`RiskAssessment` follows `assess_risk.py` for one event: data quality of the window, the rules of
the shipped catalogue (`Fires`, with the window of each rule in the order of observation), the
five vectors, score, class and explanation. `RiskStream` delivers events in any order, again or
late, and assesses each with what has arrived.

### IngestFront, RateLimit, Settings

`IngestFront`: lanes are the event loop (serial, with keys) and threads of the pool. `Take` looks
the key up, `AssessEvent`, `StoreEvent` (all statements of one event in order, of which `Fail` and
`Crash` may leave a prefix), `AfterIngest`, `RecordSuccess`. `RateLimit` is the table with its
eviction. `Settings`: a put reads and rewrites the text, opens (and so truncates) the file,
writes it, and changes the dictionary key by key; a second put may come between any two of
these, also into the same file (`Overlaid`).

### CaseQueue, IncidentCard

`CaseQueue`: the table in the order of insertion, list, groups, coverage and sums as functions of
it, the client that exports page by page, the other instance that imports, and the columns and
JSON a case passes through (`Row`, `CaseToDetail`, `DomainCaseFromDetail`: what they do not carry
is dropped). `IncidentCard`: a search that reads its pages one by one while events come, the core,
the expansion to hosts, the card, and chain, graph, package and scenario read off it. An event that is
sent again with an earlier date slips back in the order of the search (`SlipsBack`): those behind
it move one place forward, past pages already read, so that the core may miss one of them.

### Handoff

Passports are drawn from a card read before and sealed by a save after; forwards resolve the name,
check every address, pin the first and post up to `Retries` times over a network that loses
posts and answers independently; the asynchronous kind waits for one of `Slots`.

### Importers, DatasetLoad

`Importers` maps a document, a row or a body to an event. Fields are looked up in the order of the
code, flat before nested, lists by their first element; letters, first words and the mask of a
command line are constants. `DatasetLoad` has the loader line by line, its assembly, the clearing
of signals and the report, deaths and repetitions, beside the API and the worker; and the
simulation's chain of phases. Readers are evaluated once per file (`ReadsOf`, `EventsOf`).

### MCApi

The parts of `CaseWork` to `DatasetLoad` share no variable. `MCApi` checks them in one run: `turn`,
chosen in the initial state, names the part that steps, so that their state spaces add up
instead of multiplying, and each property is a conjunction of statements guarded by
`InPart(part, ...)`. A behaviour of a part alone is a behaviour of `MCApi` and the reverse.

## 5. Runs

Constants are small on purpose; the third column says why the interesting cases still happen.
Sizes are distinct states.

| Run | Instance | Why it is enough | Shows |
|---|---|---|---|
| `worker_safety` (25 000) | two workers under systemd, lease of 2 ticks, three events of which two trigger, two faults, operator stops | two processes are needed for a lease to matter; two faults make a failure of the repair; an event that does not trigger must not signal | no signal is lost, cycles exclude, every step is a step of the promise |
| `worker_liveness` (13 000) | docker, one worker whose settings agree, one with other settings launched with `--once`, two faults | a refused process and a one-shot process beside the real one | a signalled hit is assembled in the end; the assembly comes back; the promise with its liveness |
| `worker_lease_stuck` (violation) | one worker under systemd, one fault | the shortest form of the finding | section 8 |
| `auto_assembly` (1.4 million) | four events on two seeds: two incidents that grow together by e3 and lose their seeds by e4; the worker and the endpoint, three runs, one action of an analyst, one run cut off | a run on less, a run on more and one on what remains; two runs overlap; the cut-off falls at every step | groups stay disjoint; after an undisturbed run the open editions are those of the batch computation |
| `auto_half_saved` (violation) | three events, threshold 1, one run cut off, one more | | section 8 |
| `event_stream` (750 000) | one ingest thread, both backends, six events (a chain of three on one host whose ends share no bucket, its middle joined to another case by a hash, one event that meets a case by the burst key, one poll with no correlation key), one decision, one death | every way of meeting a case: by first key, by later key, by burst key, two cases at once, three cases at once | nothing answered is lost, one open case per key, open cases are found, the calendar does not cut a burst, the delta equals a rewrite |
| `event_overlap` (violation) | two threads, four events, no fault | | section 8 |
| `case_store` (165 000) | two threads of the API and one of the worker; two corrections of two cases each that share a case, a decision on one of their cases, another of them rebuilt by the worker; one fault | nested transactions, joined transactions, lock and write lock held across, rollback with another's save in it | pairs change together, journals repeat logs, chains verify, requests end |
| `store_chain_forks` (violation) | the same without faults | | section 8 |
| `manual_correlation` (670 000) | four cases of which two exist, two threads, three request ids, four sendings of eight commands, one death | merge and split of the same case, split twice, findings before and after; one request id sent twice with other requests in between | evidence, origins, completeness, idempotence |
| `api_parts` (330 000) | ten parts side by side, see below | | the properties of `CaseWork` to `DatasetLoad` |
| `load_cut_row` (violation) | five small exports | | section 8 |

The parts of `api_parts`:

| Part | Instance | Why it is enough | Shows |
|---|---|---|---|
| desk | one case in two earlier states, in triage with a permit and with a description that was approved and written anew; two analysts, eleven commands (a recheck that names no attempt, which only adds a line to the log, is left to the proof), three requests, one death | two saves that cross and a third that reads the result; every handler | `CardTellsItsStory`, `ApprovedWasRead`, `CardReadersAgree`, `WorkLeavesTraces`, `BundleVerifies` |
| engagement | two clerks, five requests | three stages and two that cross | `EngagementTellsItsStory` |
| stream | six events, a window of three, four arrivals | late, repeated and evicted events; every order of what is in the window is tried as another history | `DeliveryDoesNotMatter`, `HitsAreHeard` |
| front | one key, two bodies of one and two events, the loop and a thread, two requests, a lifetime of one, one fault | retry during, at and after expiry; a prefix of the statements of an event | `OncePerKey`, `RegistryAddsUp`, `FewHitsWait` |
| limit | three addresses, a table of two, a limit of two, two minutes | one address more than the table holds; one request more than the limit | `LimitHolds` |
| settings | two administrators, two sets that pass and two that do not, three puts, one fault, a change of month | two overlap, a third mends; texts of different length | `SettingsInForce` |
| queue | four cases and two newcomers, pages of two, five queries, two changes during the walk | ties, cover over two steps, a case that moves over the edge of a page | `ListTellsTable`, `WorkIsNotHidden`, `ExportMissesNothing`, `CopyKeepsCase` |
| incident | four events, two of them sent again with a later and an earlier date, and a fifth; pages of two, two requests for one incident | an event comes, or slips back, between two pages; an incident is rebuilt | `CoreMissesNothing`, `IncidentHoldsTogether`, `IncidentReadersAgree` |
| handoff | two threads, two requests, two destinations, four configurations, four answers of the name service, two attempts, one slot, one death | a save between the read and the seal; an answer lost after the post arrived | `PassportsAccounted`, `PapersAgree`, `ForwardsToldTrue` |
| load | one export of each kind, two loads, a post, a failing event, a death | a load cut off at each line and repeated; a signal between the run and the clearing | `LoadingTwiceIsOnce`, `SourcesStayApart`, `EventsTellTheirRecords`, `LoadAccounts` |

Where a property has a condition, the condition is what the code grants and no more, and the
statement without it is kept beside it in the module (table in section 8). Symmetry is used in
`worker_safety`, `auto_assembly`, `manual_correlation` and `api_parts`, for safety properties
only, and over sets no constant distinguishes. `CHECK_DEADLOCK FALSE` everywhere: when all events
have arrived, all bounds are spent and everything is idle, there is nothing left to do (no more
requests, analysts that do not act, workers that are off). Bounds on numbers of things are the
constants named `Max...`; they stand in guards and are named in their modules.

## 6. Fairness

Only two specifications assume any.

* `FairSpec` of `AssemblyWorker`: a request that has stored its event goes on to `AfterIngest`
  (the handler is straight-line code; if the process dies the event is `dropped` and the action
  is disabled); the supervisor launches what it owes a launch (`Restart=`); a process that can
  take its next step does (a single-threaded loop); the clock advances (a lease runs out).
  Nothing is assumed of the operator (an `off` worker may stay off) and no fault has to happen
  or to stop happening except by its bound.
* `FairSpec` of `CaseStore`: each thread takes its next step if it is continuously enabled. A
  thread that waits for the lock, or for SQLite's write lock, is not assumed to get it against
  an endless stream of others: the number of requests is finite, as any moment's is.

The other modules state no liveness. What must happen
in the end (a run after a signal) is `AssemblyWorker`'s; what a run that has ended has
achieved is the invariant `Converged`.

## 7. Proofs

| Module | Theorem | From | Says |
|---|---|---|---|
| AssemblyProofs | `WorkersTyped`, `Inductive` | the assumptions of the modules | types; `IInv` |
| | `SignalsAreNotLost` | `Inductive` | `NoSignalLost` |
| | `LeaseIsExclusive`, `LeaseIsOnlyLeft` | `Inductive`, `WorkersTyped` | `LeaseExcludes`, `LeaseOnlyLeavesItsOwner` |
| | `ImplementsPromise` | `Inductive` | every behaviour is one of `AssemblyPromise` (its safety part) |
| | `GroupsStayDisjoint` | lemma `MergeKeepsDisjoint` | `GroupsDisjoint` |
| | `TInductive`, `TypeCorrect` | | `TInv`; types, and every assembled incident is named by a seed |
| | `AssemblyConverges` | `TInductive`, `RunsApart` | `Converged`, as long as no run begins before another has ended |
| EventProcessingProofs | `SerialInductive` | `Serial` | `Orderly`: `SerialInv` until the first death |
| | `OneCaseForKey` | `SerialInductive` | `OneOpenCaseForKey` in either store |
| | `CasesAreFound` | `SerialInductive` | `OpenCaseIsFound` in either store |
| | `EventsTyped` | `WideInductive` | types, with any number of threads |
| | `CasesAreFoundInSqlite` | `WideInductive` | `OpenCaseIsFound` in SQLite, with any number of threads and reopened cases |
| | `DeltaIsRewrite` | `WideInductive` | `DeltaEqualsRewrite` |
| | `KeepInductive` | `Alone` (one ingest thread) | `KeepInv`, through deaths and any decisions |
| | `AnswersAreKept`, `EventsAreHeld`, `MergesAreTraced` | `KeepInductive` | `AnsweredIsKept`, `EventsHeld`, `MergedIsTraceable` |
| | `NeighboursAreTogether` | `OneCaseForKey` | `NeighboursShareCase`: lemma `HostWindowJoins`, about any two events and any configuration that has the shipped row of the host, applied to the events of `MCEventProcessing` |
| CaseStoreProofs | `Inductive`, `TypeCorrect` | | `IInv`; types |
| | `ChainIsVerifiable` | `Inductive` | `ChainVerifies` |
| | `SaveAllIsWhole` | `Inductive` | `PairIsWhole`, through joined transactions, faults and deaths |
| | `JournalRepeatsLog` | `Inductive` | `JournalMatchesLog` |
| ManualCorrelationProofs | `Inductive`, `TypeCorrect` | | `IInv`; types |
| | `EvidenceStaysWithEvents`, `OriginStaysTrue` | `Inductive` | `EvidenceBelongs`, `OriginIsTrue` |
| | `AloneInductive` | `Inductive` | `AloneInv` |
| | `CorrectsOnce`, `NothingIsLost` | `AloneInductive` | `OneEffectPerRequest`, `NothingLeftBehind` |
| ApiPartsProofs | `KeysInductive`, `OneAnswerPerKey` | | `KeysInv`; `OncePerKey` |
| | `HitsAreCounted`, `FewHitsAreLeft` | `KeysInductive` | `HitsInv`; `FewHitsWait` |
| | `SettingsInductive`, `InForceIsValid` | | `SettingsInv`; `SettingsInForce` |
| | `EngagementInductive`, `EngagementsTellTheirStory` | | `EngagementInv`; `EngagementTellsItsStory` |
| | `DeskInductive`, `CardsTellTheirStory`, `ApprovalsWereRead` | `EarlierAssumption` | `DeskInv`; `CardTellsItsStory`; `ApprovedWasRead` |
| | `FrontTyped`, `SettingsTyped`, `EngagementTyped`, `DeskTyped` | the inductive invariants | `RangesInv`; types |
| | `LoadInductive`, `LoadIsAccounted`, `LoadsOnce`, `LoadTyped` | | `LoadInv`; `LoadAccounts`; `LoadingTwiceIsOnce`, `SourcesStayApart`; types |
| ApiViewsProofs | `LimitInductive`, `LimitIsTheLimit` | | `LimitInv`; `LimitHolds` |
| | `BundleIsAccountable` | | `Accountable`, of any case with raw evidence, whoever signs |
| | `StreamInductive`, `StreamTyped`, `DeliveryIsForgotten` | `RiskStreamAssumption` | `StreamInv`; types and bounds of every score and vector; `DeliveryDoesNotMatter` |
| | `QueueInductive`, `ExportIsComplete` | `CaseQueueAssumption` | `QueueInv`; `ExportMissesNothing` |
| | `IncidentInductive`, `CoreIsComplete`, `IncidentsAccount` | | `IncidentInv`; `CoreMissesNothing`; `IncidentHoldsTogether` |
| ApiProofs | `PassportInductive`, `PassportsAreAccounted` | | `PassportInv`; `PassportsAccounted` |
| | `ForwardInductive`, `ForwardsAreToldTrue` | `PassportInductive` | `ForwardInv`; `ForwardsToldTrue` |
| | `ApiTyped`, `ApiTellsTheStory`, `ApiLosesNothing`, `ApiCounts`, `ApiLoadsOnce`, `ApiBundlesVerify`, `ApiAssessmentsStand` | the theorems of the parts | `ApiTypeOK`, `EveryRecordTellsItsStory`, `NothingGetsLost`, `CountersAddUp`, `LoadedOnce`, `BundleVerifies`, `AssessmentStands` |

The theorems hold for every value of the constants that meets the named assumptions: any
number of workers, events, cases, threads, requests, any rules, any bounds. The inductive
invariants and why they are needed:

* **AssemblyWorker.** `NoSignalLost` speaks of signals that wait and of runs that will read; it
  is kept by `RunOnceRequeue` only because a process in "requeue" still holds what it took
  (`TakenInv`), and by `RunOnceDone` only because what it has read was accepted (`SeesInv`).
  `LeaseExcludes` follows from `LeaseInv`: a process in its cycle holds a lease that has not run
  out; the guard of `Tick` (no cycle outlasts the lease unless `SlowRuns`) is what keeps it, and
  that assumption is in the statement.
* **AutoAssembly, groups.** Disjointness is inductive by itself; the content is in the lemma: one round
  of `_merge_overlapping` is enough although the joined group is larger than the one that was
  compared, because what it took in was disjoint from the rest.
* **AutoAssembly, convergence.** `Converged` compares the open editions after a run with clusters
  of *all* seed cases, while the run has looked at them one by one. `CInv` says of each stage of
  an undisturbed run what it has reached. While it plans (`Planned`), the cases looked at so far
  fall into blocks, each linked in itself and none with another, and the groups are the joined
  blocks; the next case joins all blocks it is linked to, whatever the order, so no induction over
  the order is needed, and the blocks of all cases are the clusters of `BatchIds`. While it saves,
  each new edition is either still to be made, in hand, or assembled from the events there are;
  while it supersedes and retires, what is open and not aimed at is still to be looked at, in
  hand, or an analyst's. It holds as long as no run begins before another has ended
  (`RunsApart`). Of overlapping runs the run `auto_assembly` checks a small instance: there a
  run may begin while another's incident is half saved, and take it for a case (section 8).
* **EventProcessing.** That two open cases share no key says nothing yet about what a thread is
  about to save. `SerialInv` adds that the index is exact, that a card is found by the keys of
  all its events, that the cards in hand are current but for their status, that every open case
  with a key looked up so far is in hand, and that what has been absorbed so far is closed. It
  needs one ingest thread and no reopened decision (`Serial`): with two threads it fails, and
  the run `event_overlap` shows what then happens.
* **EventProcessing, index.** `WideInv` keeps of this what any number of threads leave true: types,
  that cards in hand were met open, and in SQLite, until a death, the exact index: the delta is
  computed from the stored card, not from the one in hand, so a stale card does no harm to it.
* **EventProcessing, contents.** `KeepInv` lets the API die at any step and the analysts decide as
  they like. A card in hand has the contents of the stored one even where its status is stale
  (`HeldInv`), an absorbed case already names the survivor that is saved last, and the event in
  hand is in no case until it is saved. Answered events are therefore in the store; that they are
  in a case that was not absorbed, and that absorption can be traced, holds until a death comes
  between two of the saves.
* **CaseStore.** A chain verifies if what was read of its tail still holds when it is extended
  (`TailInv`). That needs that a saving thread holds the lock of its process (`LockInv`), that a
  transaction has its owner among the threads of that process (`OwnerInv`), and that the
  transaction of another process does not touch the journal (`ChainInv`). Rollback restores a
  journal that verifies because the committed one did.
* **CaseStore, pairs and logs.** For a case that one request at a time changes, `PairInv` says how
  far its request has come: not in the rows before the save, in the draft after it, in the
  committed rows after the commit, in both cards or in none; a save of another thread inside the
  transaction commits or rolls back with it and changes no other case. `LogInv` adds, until
  something fails, that the journal is behind the log by at most the line being inserted
  (`JournalInv`), for cases that one process saves (`SavedBy`).
* **ManualCorrelation.** Cards are read at one time and saved at another, so the invariant must
  hold of the copies in hand too (`HandFits`), including that the checks of a command's kind
  were made before it got to its save. One lemma per operation: it makes fitting cards of
  fitting cards.
* **ManualCorrelation, effects.** A request is recognised by the evidence it leaves on a card. For
  cases on which no second request works at the time (`raced`, `Undisturbed`), `AloneInv` says that
  copies in hand are current, that what was applied can be found (`EffectsInv`) even after merges
  moved it, and that a request at its save has not been applied before (`RepeatInv`).
* **IngestFront, keys.** `OncePerKey` speaks of all requests there have been. `KeysInv` keeps it
  because the event loop serves requests with keys one after another (`LoopIsSerial`), so nothing
  is recorded between a look-up and its own recording, and because a recorded answer stays at
  least its lifetime from the last recording (`AnswersTell`). `HitsInv`: a hit no run has looked
  at is counted, or its thread is between storing and counting.
* **Settings.** `SettingsInForce` has three conditions of different reach, so `SettingsInv` has a part
  for each: what was not validated is never taken over, with any overlap (`OnlyValidated`); a
  request that came alone finds its own text in the file (`AloneIsAlone`, `TextTaken`,
  `FileInForce`); versions only grow without an overlap (`VersionsGrow`).
* **AuditEngagements.** Row and copies are `Rows`: completed stages, one under way, pending ones.
* **CaseWork.** The last writer wins, but what it writes is its own copy, changed by one handler: so
  the story has to be told by every copy in hand (`FlightsTold`), which also still accepts its
  request; one lemma per handler shows that a told card becomes a told card (`WorkedTold`). That
  verdicts chain needs `LastWord`: the newest record names the verdict in force, except that of a
  permit attached to a confirmed verdict. `TextsRead` is the promise of the page to the one who
  approves; it lasts as long as the case is not `stale`. `EarlierAssumption` says of the cards that
  are there at the start what the handlers keep (lemma `NewCardIsTold`: a new case meets it).

* **RateLimit.** `LimitInv` ties what an address was granted to what the table has counted since its
  count last gave way. That a full table drops at most what is over the cap, and only then, is
  counted by places: the addresses of the minute stand in the order in which they were put in, and
  one stands in the table if fewer than `MaxTracked` are younger.
* **ForensicBundle.** The paths of a bundle are apart (`FilesApart`), so each entry of the manifest
  is about one file; a file that is missing or differs has no entry that is true of it. The number
  of raw files is bounded by what the verifier takes, which is the limit section 8 speaks of.
* **RiskStream.** Every rule sees its window in the order of observation, so two orders of arrival
  of the same events give it the same window, if no two of them bear one moment
  (`RiskStreamAssumption`: the code leaves those in the order of arrival). A sorted window is the
  events by their places, and that is the same for all orders (`ShuffleInOrder`). Scores are
  quotients of sums over recursive functions, whose bounds are shown by induction (`TotalIsIn`).
* **CaseQueue.** Every page sorts the table anew. `WalkKeepsUp`: a case the walk owes has been received,
  or stands at a place that is not before the next page. A place is the number of rows before it
  (`ListedTo`), and it only grows, as newer cases go in front and closing keeps the date, unless a
  case is dated back (`sunk`).
* **IngestFront, ranges.** `FrontTypeOK` counts: the requests that were served are `MaxRequests` at most
  because each lane has its own. `RangesInv` needs that a lane in the middle of a body has an event
  of it in hand, and that the statements of an event keep the shape of the store, by induction over
  the prefix a failure leaves.
* **Handoff, passports.** `PassportInv`: a thread that draws holds a card as it was on file, and as long
  as no two saves raced the card on file continues it, so the line of a passport can only be joined
  by later ones; and the moment of a passport is that of the first seal, which is why the same
  state gives the same bytes.
* **Handoff, forwards.** `OnItsWay`: a request under way has a number of its own and the receiver has
  fewer copies of it than it has made attempts, each with the card as it was read and from the
  address that was pinned.
* **DatasetLoad.** `LoadInv` counts the lines before the one the loader is at, and says that after its
  run what still signals came through the API. That a file is in the store once rests on what an
  id is made of (`SiemEventId`), for any records; an event of another source may bear the same id,
  so `SourcesStayApart` speaks of PT SIEM alone.
* **IncidentCard.** `Owed`: an event that names a seed is found as it is stored, or is ahead of the walk
  under every seed it names. The page after `offset` holds the events of places `offset` to
  `offset + EventPage` (`PageHolds`), an event that comes in only moves others back, and one that
  is sent again with an earlier date is excepted, with those it passes (`SlipsBack`).
* **The API as a whole.** A step of `MCApi` is a step of the part whose turn it is and leaves the
  variables of the others alone, so each behaviour with `turn = p` is one of that part, and its
  theorem applies; the other conjuncts are guarded by another turn.

Assumptions on constants, where a proof asked for one: the shipped row of the host is among the
rules, over known fields and sources (`HostWindowAssumption`); bodies are not empty
(`IngestFrontAssumption`, as `schemas/ingest.py:137` refuses an empty list); `case_id` is the primary key
of a table (`CaseQueueAssumption`); readings have a moment and a source with a trust, and no two were
observed at once (`RiskStreamAssumption`); months count from one (`SettingsAssumption`); events of the
store have numbers for ids and moments, and the pipeline's scores are not negative
(`IncidentCardAssumption`).

What the proofs have changed in the models: `CoreMissesNothing` held on the first instance and not in
general, since an event that is sent again with an earlier date slips back; `SourcesStayApart` compared
sources that share ids; `LoadingTwiceIsOnce` spoke of less than it said; the burst key lacked the
branch of a limit that is not positive; `NeighboursShareCase` must ask that both events name the host;
`RegistryAddsUp` allowed the window of recent events one id too many after a trouble, which held for
the one trouble of the instance: with two it may be longer by two, since each trouble can fall between
the insertion of an id and the trim.

Only model-checked: liveness (`SignalAssembled`, `AssemblyComesBack`, the liveness part of the
promise, `RequestEnds`), which is out of the prover's reach; `Converged` for runs that overlap; and
`ReadersAgree`, which compares readers that compute the same from one record in different ways:
strings of columns, groups and sums of a list, readiness in three places, the verdict on four papers,
the registry counted with folds. Each is a computation over data of which the instance has all
shapes; for all inputs it would be an induction over the records for every one of the readers.

## 8. Where code and documentation disagree

Shown by a run of their own (`findings` of `PROJECT.json`):

* `worker_lease_stuck`. A killed worker leaves its lease under host:pid for at least 60 s;
  systemd relaunches after 5 s under a new pid, `run()` returns 3 and
  `RestartPreventExitStatus=3 4` ends the restarts. The docstring of `tools/assembly_worker.py`
  (14-16) says that a fallen worker frees the assembly by itself.
* `auto_half_saved`. A run cut off between the two saves of a card leaves an open card without
  the automatic marker, which no later run supersedes or retires. `deploy/systemd/README.md:78`
  says that interrupting the assembly does no harm, a run being idempotent.
* `event_overlap`. Two requests that meet the same open case on different threads: the later
  save drops the event and the hits of the earlier one. `case_merge.py:131` says that no event
  and no hit is lost.
* `store_chain_forks`. The API and the worker saving the same case fork its chain, and the
  verification of an honest journal fails. `docs/threat_model.md:69` names `busy_timeout` and WAL
  as the measure against races of writers.
* `load_cut_row`. A row of a CSV export that is cut off before a needed column raises an
  `AttributeError`, which the reader (`soc_csv.py:55`) does not pass over: the load ends with a
  traceback, without assembly and report. `docs/pt_techlab_2026_sprint_plan.md:76` says that records
  that cannot be parsed do not bring a load down.

Stated in the modules, with the setting in which TLC finds them violated, and without a run:

| Definition | Statement, and where it stands | Violated when |
|---|---|---|
| `ExclusiveRuns` (AssemblyWorker) | two workers never execute a run at once (`sqlite_assembly_queue.py:14`) | `SlowRuns = TRUE`: a run outlasts its lease |
| `SignalSurvivesRestart` (AssemblyWorker) | a signal survives the restart of the worker (`sqlite_assembly_queue.py:9`) | a worker is killed between take_pending and the end of the run |
| `FreshIncidentsDisjoint` (AutoAssembly) | incidents of one run share no event (`auto_assemble_incidents.py:252`) | an event is stored between planning and saving |
| `AnalystWorkIsKept` (AutoAssembly) | an edition an analyst has worked on stays (`auto_assemble_incidents.py:367`) | it is superseded, or rebuilt under its id |
| `DecisionStands` (EventProcessing) | a confirmed or refuted case is final (`case_lifecycle.py:35`) | an analyst decides between a thread's lookup and its save |
| `Converged` without `TakesHalfSaved` | batches give what one run at the end gives (docstring of `assembly_on_ingest.py`) | two runs overlap and an analyst has closed a case: a run that begins while an incident of the other is half saved takes it for a case, and two open incidents have the same events |
| `MergedIsTraceable`, `EventsHeld` without `crashes = 0` | composition can be traced both ways (`case_merge.py:130`) | a death between the save of the absorbed card and of the survivor |
| `DeltaEqualsRewrite` without `crashes' = 0` | writing the difference equals a rewrite (`docs/correlation_quality.md:252`) | a death inside `save` |
| `OpenCaseIsFound` with reopening, in memory | | a decision EXPECTED_BEHAVIOR on the newer of two open cases drops the key of both |
| `AnsweredIsDurable` (CaseStore) | an answered request is on disk | a save joins another thread's transaction and is answered before its COMMIT or rollback |
| `JournalMatchesLog` without `SavedBy` (CaseStore) | the journal repeats the log | two processes: a save that joined another thread's transaction is read by the other process without it |
| `EveryActionIsChained` (CaseStore) | every action is in the hash chain (`docs/pt_techlab_2026_solution_description.md:17`) | overlapping or rebuilt logs: the new lines are found by length |
| `SplitIsIdempotent` (ManualCorrelation) | the same request id makes no second child (`manual_correlation.py:24`, `docs/pt_techlab_2026_sprint_plan.md:104`) | the retry is worked on before the first sending is saved |
| `AnsweredIsRecorded` (ManualCorrelation) | a change is in the operation ledger | the process dies between the save and the line, and the retry finds nothing left to do |
| `EventsStayOpen` (ManualCorrelation) | events of an open case stay in an open case | a is merged into b and then b into a: merge does not look at statuses |
| `NeverApprovedBlindly` (CaseWork) | nobody approves another's edit unread (docstring of `approve`, `investigation_summary.py:373`) | two saves overlap and two texts get one number |
| `RecordTellsVerdict` (CaseWork) | a record of the formal verdict names the verdict in force | a permit is attached to a case whose verdict an analyst has confirmed |
| `GapIsInTheData` (RiskStream) | a gap is a property of the data, not of the delivery (`data_quality.py:50`) | an event is older than its window |
| `OneVersionOneSet` (Settings) | one version is one set of weights (`weights_writer.py:11`) | two requests take the version of the same file |
| `LastObservedIsLast` (IncidentCard) | the last step of the chain is the last observation (`reconstruct_chain.py:142`) | an edge seen first is seen again after it |
| `ScenarioIsConfirmed` (IncidentCard) | the operator confirms the verdict of a scenario, not the pipeline (docstring of `case_scenario.py`) | a permit is attached after the confirmation |
| `SignatureToldTrue` (Handoff) | the card for GosSOPKA tells of the signature the bundle has | the external service does not answer and another signer steps in |
| `TransactionsStayApart` (DatasetLoad) | the id of a document is taken from `_id`, `_ndx`, `_prn.id`, `tx_id`, `file_id` (`docs/pt_techlab/source_schema_nad.md:44`) | a document has a `flow_id` too, which the code looks at before `tx_id`: the transactions of a flow become one event |
| `ClearedWorkIsDone` (DatasetLoad) | the signals cleared are of work just done (`load_dataset.py`, `_clear_assembly_signals`) | the API takes an event in between the run and the clearing |
| `RefusedStaysWithoutPhase` (DatasetLoad) | a category listed as not translated gives no phase (`source_phases.yaml`) | a coarser category of the same event is translated |

Seen while translating, without a definition of their own:

* Cards. The branch for a permit that is not bound (`manual_permit.py:201`) cannot be reached. The
  log says that the baseline was updated although `mark_expected` passes over a blank operation.
  `readiness_after` of a remediation always equals `readiness_before`. The effort is called a lower
  bound although one permit writes two lines. The template of the description says that it leaves
  no section empty, and leaves response and open questions empty.
* Bundle and papers. A bundle with more than about 116 raw files fails its own verifier. Every
  later passport and brief keeps the moment of the first passport (`export_facade.py:83` speaks of
  the same clock), and the line in the log is dated with it. In the profile prod without a list of
  destinations nothing is ever forwarded unless the air gap is bypassed. A path of the list that
  ends in "/" matches only itself. A failing name service is neither of the errors the route
  expects.
* Lists and copies. An export and import loses the description, raw evidence, the origin of
  findings and the unmet conditions of permits, after which a permit reads as not bound. An
  incident that is dated back during an export hides other cases from it. `POST
  /cases/assemble/pivot` overwrites a card of the same id with its decisions.
* Incidents. Seeds in the package carry `type=seed.kind` and no host, so that they never merge
  with the rows of events, which the tests assume. A host named by the core is demoted to
  "expanded" once an analyst expands to it, and loses its selection. After a change of thresholds
  the class of an incident may be below that of a part.
* Events. The window of `evaluate_sequence_gaps` is not filtered by source, which its docstring
  says it is. Tickets of maintenance are never handed over by any caller. Seven rules of the
  shipped catalogue are `builtin:noop`. `entity_card` counts an event that was sent again ("exactly
  one observed event"). An API with mode on_ingest leaves no fingerprint (`app.py:390`).
* Loads. An array of PT NAD whose first element is empty hides the others. A row of a SIEM CSV with
  an unknown type of indicator is dropped although `csv_events.py` says that this is no reason to lose
  the event. Lines that are passed over are not counted in `failed`, and the exit code is 0. A body
  of an integration overrides its own fields by its payload. Two overlapping PUTs of different
  length can leave settings that cannot be read.

## 9. What is not modelled

* Authentication, roles and API keys: tables and comparisons within one request. The hash chain of
  the operation ledger: the construction of `CaseStore` again, with one chain for all.
* The backtest and the feedback of invariants: sums over decided cases. The reading of the YAML
  settings and of the catalogue, and which mode publishes which fingerprint: startup only.
* DDL, migrations, scripts, metrics, frontend, reverse proxy, monitoring: run once, or outside of the
  program; the requests of the frontend are the analysts' actions.
* Texts, fonts, layout, the schema of the transport to GosSOPKA, IPv6 literals and encodings of URLs,
  the text filters of the event search: formatting that no property tells apart.
* Between components of `api_parts` nothing is composed: they meet in the card and the event store,
  whose races `EventProcessing`, `AutoAssembly`, `CaseStore` and `ManualCorrelation` have.
* Abstractions everywhere: SHA-256 is injective; SQLite commits a single statement atomically and
  its WAL readers see the last commit; Python's `RLock` excludes; the event loop runs a handler
  without `await` to its end; floats are integers of a fixed share.
