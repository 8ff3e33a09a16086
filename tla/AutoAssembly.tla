---------------------------- MODULE AutoAssembly ----------------------------
(***************************************************************************)
(* The automatic assembly of incidents (AutoAssembleIncidentsUseCase) and  *)
(* the case store it rewrites, while ingest threads store events, analysts *)
(* work on cards and a second run goes on: the worker's run and the run of *)
(* POST /cases/assemble/auto hold no common lock.                          *)
(*                                                                         *)
(* A pipeline case groups events; an event on which an invariant fired has *)
(* a hit record in its case.  The id of an assembled incident is a hash of *)
(* its distinctive entities (seeds), so a set of seeds stands for the id:  *)
(* the store of assembled cards is a function from sets of seeds.          *)
(*                                                                         *)
(* A run of runner r is in step[r]                                         *)
(*   "idle"                no run                                          *)
(*   "plan"                loop over the seed cases of the snapshot        *)
(*   "save" / "mark"       a group's card is saved / saved again, marked   *)
(*   "supersede" / "close" previous editions: read / save as MERGED        *)
(*   "retire" / "retired"  remaining editions: read / save as MERGED       *)
(***************************************************************************)
EXTENDS Integers, FiniteSets

CONSTANTS Events,         \* events of the stream
          Seeds,          \* entities other than hosts
          SeedsOf,        \* SeedsOf[e]: the entities event e carries
          Cases,          \* cases of the pipeline
          CaseOf,         \* CaseOf[e]: the case that event e falls into
          Triggering,     \* events on which an invariant fires
          MaxOccurrences, \* distinctive_max_events
          Runners,        \* the worker, the endpoint
          MaxRuns,        \* bound: runs begun in one behaviour
          MaxAnalyst,     \* bound: actions of analysts
          MaxCrashes      \* bound: runs cut off

ASSUME AutoAssemblyAssumption ==
  /\ SeedsOf \in [Events -> SUBSET Seeds]
  /\ CaseOf \in [Events -> Cases]
  /\ Triggering \subseteq Events
  /\ MaxOccurrences \in Nat
  /\ MaxRuns \in Nat /\ MaxAnalyst \in Nat /\ MaxCrashes \in Nat

Ids == (SUBSET Seeds) \ {{}}

(* A card of the store.  marks holds "auto" when the journal has the marker  *)
(* of automatic assembly, "analyst" when it shows the work of a person.      *)
Card == [status : {"none", "triage", "merged", "closed"},
         events : SUBSET Events,
         hits   : SUBSET Events,
         marks  : SUBSET {"auto", "analyst"}]

NoCard == [status |-> "none", events |-> {}, hits |-> {}, marks |-> {}]

VARIABLES ingest,  \* ingest[e]: "absent", "cased" (case saved), "stored"
          shut,    \* pipeline cases that an analyst has closed
          card,    \* card[id]: the assembled incident of that id
          step,    \* step[r]: where the run of r is
          prev,    \* prev[r]: open automatic editions at the snapshot
          seen,    \* seen[r]: events that had a case at the snapshot
          todo,    \* todo[r]: seed cases to look at, each as its hit events
          rarity,  \* rarity[r]: the cache _occurrences of the run
          groups,  \* groups[r]: merged groups of seeds, with their core
          fresh,   \* fresh[r]: ids this run has assembled
          hand,    \* hand[r]: id -> card read or built and not saved yet
          runs, acts, crashes,  \* what the bounds count
          calm,    \* history: runs that met no foreign change of the stream,
                   \* of a card or of a case, no incident of another run that
                   \* was half saved, nor a run that met one
          aim      \* history: the batch result when the last run began

runVars == <<step, prev, seen, todo, rarity, groups, fresh, hand>>
envVars == <<ingest, shut>>
counters == <<runs, acts, crashes>>
history == <<calm, aim>>
vars == <<envVars, card, runVars, counters, history>>

Steps == {"idle", "plan", "save", "mark", "supersede", "close", "retire", "retired"}
Group == [seeds : SUBSET Seeds, events : SUBSET Events]
Hands == [Ids -> Card]
Empty == [id \in Ids |-> NoCard]

TypeOK ==
  /\ ingest \in [Events -> {"absent", "cased", "stored"}]
  /\ shut \subseteq Cases
  /\ card \in [Ids -> Card]
  /\ step \in [Runners -> Steps]
  /\ prev \in [Runners -> [Ids -> SUBSET Events]]
  /\ seen \in [Runners -> SUBSET Events]
  /\ todo \in [Runners -> SUBSET SUBSET Events]
  /\ rarity \in [Runners -> [Seeds -> {"unknown", "rare", "common"}]]
  /\ groups \in [Runners -> SUBSET Group]
  /\ fresh \in [Runners -> SUBSET Ids]
  /\ hand \in [Runners -> Hands]
  /\ runs \in 0..MaxRuns /\ acts \in 0..MaxAnalyst /\ crashes \in 0..MaxCrashes
  /\ calm \subseteq Runners /\ aim \subseteq Ids

Init ==
  /\ ingest = [e \in Events |-> "absent"]
  /\ shut = {}
  /\ card = Empty
  /\ step = [r \in Runners |-> "idle"]
  /\ prev = [r \in Runners |-> [id \in Ids |-> {}]]
  /\ seen = [r \in Runners |-> {}]
  /\ todo = [r \in Runners |-> {}]
  /\ rarity = [r \in Runners |-> [s \in Seeds |-> "unknown"]]
  /\ groups = [r \in Runners |-> {}]
  /\ fresh = [r \in Runners |-> {}]
  /\ hand = [r \in Runners |-> Empty]
  /\ runs = 0 /\ acts = 0 /\ crashes = 0
  /\ calm = {} /\ aim = {}

-----------------------------------------------------------------------------
(* What the run computes from the stores.                                    *)

Stored == {e \in Events : ingest[e] = "stored"}
Cased  == {e \in Events : ingest[e] # "absent"}

IsOpen(id) == card[id].status = "triage"
IsAuto(id) == "auto" \in card[id].marks
OpenAuto == {id \in Ids : IsOpen(id) /\ IsAuto(id)}

(* Cards that carry the marker of the pivot assembly only: saved once. *)
HalfSaved == {id \in Ids : IsOpen(id) /\ ~IsAuto(id)}

CoreFor(seeds) == {e \in Stored : SeedsOf[e] \cap seeds # {}}

Occurrences(s) == Cardinality({e \in Stored : s \in SeedsOf[e]})

CandidateSeeds(hitEvents) == UNION {SeedsOf[e] : e \in hitEvents \cap Stored}

(* _seed_cases: open cases with hit records that are not automatic editions; *)
(* a card without the marker of automatic assembly is one of them.           *)
SeedCases ==
  {{e \in Cased \cap Triggering : CaseOf[e] = c} : c \in Cases \ shut}
  \cup {card[id].hits : id \in HalfSaved}

(* Mutated form: groups that share seeds are joined, not those that share    *)
(* events.                                                                   *)
MergeBySeeds(merged, group) ==
  LET same == {g \in merged : g.seeds \cap group.seeds # {}}
  IN  (merged \ same) \cup
        {[seeds  |-> group.seeds \cup UNION {g.seeds : g \in same},
          events |-> group.events \cup UNION {g.events : g \in same}]}

(* _merge_overlapping, one round: every group that shares an event with the  *)
(* new one is taken out and joined to it.                                    *)
MergeOverlapping(merged, group) ==
  LET overlapping == {g \in merged : g.events \cap group.events # {}}
  IN  (merged \ overlapping) \cup
        {[seeds  |-> group.seeds \cup UNION {g.seeds : g \in overlapping},
          events |-> group.events \cup UNION {g.events : g \in overlapping}]}

(* An edition the retirement spares: an analyst has left a trace in it. *)
AnalystTouched(c) == "analyst" \in c.marks

-----------------------------------------------------------------------------
(* The stream and the analysts.  Any of their steps ends the calm.           *)

ProcessEvent(e) ==
  /\ ingest[e] = "absent"
  /\ CaseOf[e] \notin shut
  /\ ingest' = [ingest EXCEPT ![e] = "cased"]
  /\ calm' = {}
  /\ UNCHANGED <<shut, card, runVars, counters, aim>>

AddRecentEvent(e) ==
  /\ ingest[e] = "cased"
  /\ ingest' = [ingest EXCEPT ![e] = "stored"]
  /\ calm' = {}
  /\ UNCHANGED <<shut, card, runVars, counters, aim>>

AnalystActs == acts < MaxAnalyst /\ acts' = acts + 1

(* A decision closes a pipeline case; an event that would still fall into it *)
(* would open another, so all of its events have arrived.                    *)
CloseCase(c) ==
  /\ AnalystActs
  /\ c \notin shut
  /\ \A e \in Events : CaseOf[e] = c => ingest[e] = "stored"
  /\ shut' = shut \cup {c}
  /\ calm' = {}
  /\ UNCHANGED <<ingest, card, runVars, runs, crashes, aim>>

(* A finding, a permit, a note: the card stays open.  A decision closes it.  *)
WorkOnCard(id) ==
  /\ AnalystActs
  /\ IsOpen(id)
  /\ \E status \in {"triage", "closed"} :
       card' = [card EXCEPT ![id].status = status, ![id].marks = @ \cup {"analyst"}]
  /\ calm' = {}
  /\ UNCHANGED <<envVars, runVars, runs, crashes, aim>>

-----------------------------------------------------------------------------
(* What one run over a stream at rest makes of it, computed without groups,  *)
(* cache or order: the seed cases whose cores overlap, directly or through   *)
(* others, form one incident.                                                *)

RareSeeds(hitEvents) == {s \in CandidateSeeds(hitEvents) : Occurrences(s) <= MaxOccurrences}

SeededCases(cases) == {h \in cases : CoreFor(RareSeeds(h)) # {}}

Linked(g, h) == CoreFor(RareSeeds(g)) \cap CoreFor(RareSeeds(h)) # {}

ClosedUnderLinks(S, cases) == \A g \in S, h \in SeededCases(cases) : Linked(g, h) => h \in S

Clusters(cases) == {S \in (SUBSET SeededCases(cases)) \ {{}} :
                      /\ ClosedUnderLinks(S, cases)
                      /\ \A T \in (SUBSET S) \ {{}, S} : ~ClosedUnderLinks(T, cases)}

BatchIds(cases) == {UNION {RareSeeds(h) : h \in S} : S \in Clusters(cases)}

-----------------------------------------------------------------------------
(* A run.                                                                    *)

GoTo(r, s) == step' = [step EXCEPT ![r] = s]

(* The snapshot takes the incident that another run is just saving for a case *)
(* with hit records; its hits may be of cases that have been closed.          *)
TakesHalfSaved(r) == shut # {} /\ \E other \in Runners \ {r} : step[other] = "mark"

(* list_all once: previous editions, seed cases, index of cases by event. *)
Begin(r) ==
  /\ step[r] = "idle"
  /\ runs < MaxRuns /\ runs' = runs + 1
  /\ GoTo(r, "plan")
  /\ prev' = [prev EXCEPT ![r] =
                [id \in Ids |-> IF id \in OpenAuto THEN card[id].events ELSE {}]]
  /\ seen' = [seen EXCEPT ![r] = Cased]
  /\ todo' = [todo EXCEPT ![r] = SeedCases \ {{}}]
  /\ rarity' = [rarity EXCEPT ![r] = [s \in Seeds |-> "unknown"]]
  /\ groups' = [groups EXCEPT ![r] = {}]
  /\ fresh' = [fresh EXCEPT ![r] = {}]
  /\ hand' = [hand EXCEPT ![r] = Empty]
  /\ calm' = IF TakesHalfSaved(r) THEN {} ELSE calm \cup {r}
  /\ aim' = BatchIds(SeedCases)
  /\ UNCHANGED <<envVars, card, acts, crashes>>

(* Mutated form: cases without distinctive seeds are not skipped. *)
PlanCaseUnchecked(r, hitEvents) ==
  /\ step[r] = "plan"
  /\ hitEvents \in todo[r]
  /\ todo' = [todo EXCEPT ![r] = @ \ {hitEvents}]
  /\ LET candidates == CandidateSeeds(hitEvents)
         counted == [s \in Seeds |->
           IF s \notin candidates \/ rarity[r][s] # "unknown" THEN rarity[r][s]
           ELSE IF Occurrences(s) <= MaxOccurrences THEN "rare" ELSE "common"]
         seeds == {s \in candidates : counted[s] = "rare"}
     IN  /\ rarity' = [rarity EXCEPT ![r] = counted]
         /\ groups' = [groups EXCEPT ![r] =
              MergeOverlapping(@, [seeds |-> seeds, events |-> CoreFor(seeds)])]
  /\ UNCHANGED <<envVars, card, step, prev, seen, fresh, hand, counters, history>>

(* One seed case: its distinctive seeds, their core, the merge with the      *)
(* groups found so far.  A seed is counted once in a run.                    *)
PlanCase(r, hitEvents) ==
  /\ step[r] = "plan"
  /\ hitEvents \in todo[r]
  /\ todo' = [todo EXCEPT ![r] = @ \ {hitEvents}]
  /\ LET candidates == CandidateSeeds(hitEvents)
         counted == [s \in Seeds |->
           IF s \notin candidates \/ rarity[r][s] # "unknown" THEN rarity[r][s]
           ELSE IF Occurrences(s) <= MaxOccurrences THEN "rare" ELSE "common"]
         seeds == {s \in candidates : counted[s] = "rare"}
     IN  /\ rarity' = [rarity EXCEPT ![r] = counted]
         /\ groups' = [groups EXCEPT ![r] =
              IF CoreFor(seeds) = {} THEN @
              ELSE MergeOverlapping(@, [seeds |-> seeds, events |-> CoreFor(seeds)])]
  /\ UNCHANGED <<envVars, card, step, prev, seen, fresh, hand, counters, history>>

PlanDone(r) ==
  /\ step[r] = "plan"
  /\ todo[r] = {}
  /\ GoTo(r, "save")
  /\ UNCHANGED <<envVars, card, prev, seen, todo, rarity, groups, fresh, hand, counters, history>>

(* AssembleIncidentUseCase.execute searches the core again and builds a new  *)
(* card in place of whatever stood under the id.                             *)
SaveCard(r, g) ==
  /\ step[r] = "save"
  /\ g \in groups[r] /\ g.seeds \notin fresh[r]
  /\ LET core == CoreFor(g.seeds)
         built == [status |-> "triage", events |-> core, marks |-> {},
                   hits |-> core \cap Triggering \cap seen[r]]
     IN  /\ card' = [card EXCEPT ![g.seeds] = built]
         /\ hand' = [hand EXCEPT ![r] = [Empty EXCEPT ![g.seeds] = built]]
  /\ fresh' = [fresh EXCEPT ![r] = @ \cup {g.seeds}]
  /\ GoTo(r, "mark")
  /\ UNCHANGED <<envVars, prev, seen, todo, rarity, groups, counters, history>>

(* The same object is saved a second time, with the automatic marker. *)
SaveMarked(r, id) ==
  /\ step[r] = "mark"
  /\ hand[r][id] # NoCard
  /\ card' = [card EXCEPT ![id] = [hand[r][id] EXCEPT !.marks = {"auto"}]]
  /\ hand' = [hand EXCEPT ![r] = Empty]
  /\ GoTo(r, "save")
  /\ UNCHANGED <<envVars, prev, seen, todo, rarity, groups, fresh, counters, history>>

(* _supersede reads the cards it has assembled ... *)
SavesDone(r) ==
  /\ step[r] = "save"
  /\ \A g \in groups[r] : g.seeds \in fresh[r]
  /\ hand' = [hand EXCEPT ![r] = [id \in Ids |-> IF id \in fresh[r] THEN card[id] ELSE NoCard]]
  /\ GoTo(r, "supersede")
  /\ UNCHANGED <<envVars, card, prev, seen, todo, rarity, groups, fresh, counters, history>>

(* Mutated form: nothing is superseded. *)
OverlapsNothing(r, id) == FALSE

(* ... and closes every previous edition that shares an event with one. *)
Overlapped(r, id) ==
  /\ id \notin fresh[r]
  /\ \E new \in fresh[r] : prev[r][id] \cap hand[r][new].events # {}

SupersedeRead(r, id) ==
  /\ step[r] = "supersede"
  /\ Overlapped(r, id) /\ hand[r][id] = NoCard
  /\ hand' = [hand EXCEPT ![r][id] = [card[id] EXCEPT !.status = "merged"]]
  /\ GoTo(r, "close")
  /\ UNCHANGED <<envVars, card, prev, seen, todo, rarity, groups, fresh, counters, history>>

SupersedeSave(r, id) ==
  /\ step[r] = "close"
  /\ hand[r][id].status = "merged"
  /\ card' = [card EXCEPT ![id] = hand[r][id]]
  /\ prev' = [prev EXCEPT ![r][id] = {}]
  /\ hand' = [hand EXCEPT ![r][id] = NoCard]
  /\ GoTo(r, "supersede")
  /\ UNCHANGED <<envVars, seen, todo, rarity, groups, fresh, counters, history>>

(* retire_unconfirmed_editions *)
Retires(id) == IsOpen(id) /\ IsAuto(id) /\ ~AnalystTouched(card[id])

(* _retire_unconfirmed reads what is left of the previous editions first. *)
RetireRead(r) ==
  /\ step[r] = "supersede"
  /\ \A id \in Ids : ~Overlapped(r, id)
  /\ hand' = [hand EXCEPT ![r] = [id \in Ids |->
                IF prev[r][id] # {} /\ id \notin fresh[r] /\ Retires(id)
                THEN [card[id] EXCEPT !.status = "merged"] ELSE NoCard]]
  /\ GoTo(r, "retire")
  /\ UNCHANGED <<envVars, card, prev, seen, todo, rarity, groups, fresh, counters, history>>

RetireSave(r, id) ==
  /\ step[r] = "retire"
  /\ hand[r][id] # NoCard
  /\ card' = [card EXCEPT ![id] = hand[r][id]]
  /\ hand' = [hand EXCEPT ![r][id] = NoCard]
  /\ UNCHANGED <<envVars, step, prev, seen, todo, rarity, groups, fresh, counters, history>>

(* Only the cache outlives the run: the next run clears it. *)
Over(r) ==
  /\ GoTo(r, "idle")
  /\ prev' = [prev EXCEPT ![r] = [id \in Ids |-> {}]]
  /\ seen' = [seen EXCEPT ![r] = {}]
  /\ todo' = [todo EXCEPT ![r] = {}]
  /\ groups' = [groups EXCEPT ![r] = {}]
  /\ fresh' = [fresh EXCEPT ![r] = {}]
  /\ hand' = [hand EXCEPT ![r] = Empty]
  /\ UNCHANGED rarity

Finish(r) ==
  /\ step[r] = "retire"
  /\ hand[r] = Empty
  /\ Over(r)
  /\ calm' = IF r \in calm THEN calm ELSE {}
  /\ UNCHANGED <<envVars, card, counters, aim>>

(* The process dies, or a store raises: the run is cut off where it stands. *)
CutOff(r) ==
  /\ step[r] # "idle"
  /\ crashes < MaxCrashes /\ crashes' = crashes + 1
  /\ Over(r)
  /\ calm' = {}
  /\ UNCHANGED <<envVars, card, runs, acts, aim>>

Run(r) ==
  \/ Begin(r) \/ PlanDone(r) \/ SavesDone(r) \/ RetireRead(r) \/ Finish(r) \/ CutOff(r)
  \/ \E hitEvents \in todo[r] : PlanCase(r, hitEvents)
  \/ \E g \in groups[r] : SaveCard(r, g)
  \/ \E id \in Ids : SaveMarked(r, id) \/ SupersedeRead(r, id)
                       \/ SupersedeSave(r, id) \/ RetireSave(r, id)

Next ==
  \/ \E e \in Events : ProcessEvent(e) \/ AddRecentEvent(e)
  \/ \E c \in Cases : CloseCase(c)
  \/ \E id \in Ids : WorkOnCard(id)
  \/ \E r \in Runners : Run(r)

Spec == Init /\ [][Next]_vars

-----------------------------------------------------------------------------
(* Properties.                                                               *)

(* The groups of a run share no event with each other, in whatever order the *)
(* seed cases come and whatever is stored meanwhile: each event has one      *)
(* group (_merge_overlapping).                                               *)
GroupsDisjoint ==
  \A r \in Runners : \A g, h \in groups[r] : g.events \cap h.events # {} => g = h

(* Incremental assembly equals one run at the end (docstring of              *)
(* assembly_on_ingest.py).  Whatever came before - runs on less of the       *)
(* stream, runs cut off, two runs at a time, work of analysts - once runs    *)
(* have begun and ended with nothing else changing, the open automatic       *)
(* editions are those of the batch computation, with exactly its events; any *)
(* other open one was left because an analyst has worked on it.              *)
Converged ==
  calm # {} /\ (\A r \in Runners : step[r] = "idle") =>
    /\ aim \subseteq OpenAuto
    /\ \A id \in aim : card[id].events = CoreFor(id)
    /\ \A id \in OpenAuto \ aim :
         /\ AnalystTouched(card[id])
         /\ \A new \in aim : card[id].events \cap card[new].events = {}

(* Within one run the incidents share no event, their cores have been merged *)
(* (docstring of _supersede).                                                *)
FreshIncidentsDisjoint ==
  \A r \in Runners : step[r] \in {"supersede", "close"} =>
    \A i, j \in fresh[r] : hand[r][i].events \cap hand[r][j].events # {} => i = j

(* An open edition in which an analyst has left a decision, a ground or a    *)
(* note stays in the queue as it is (docstring of                            *)
(* retire_unconfirmed_editions): no run closes or replaces it.               *)
AnalystWorkIsKept ==
  [][\A id \in Ids :
       AnalystTouched(card[id]) => AnalystTouched(card'[id]) /\
         (card'[id].status = card[id].status \/ acts' > acts)]_vars

(* A run that was cut off can be repeated (deploy/systemd/README.md): after  *)
(* an undisturbed run no half-saved card is left in the queue.               *)
NothingHalfSaved ==
  calm # {} /\ (\A r \in Runners : step[r] = "idle") => HalfSaved = {}

-----------------------------------------------------------------------------
(* Why Converged holds as long as runs do not overlap: the inductive         *)
(* invariant.                                                                *)

RunsApart == \A q, r \in Runners : step[q] # "idle" /\ step[r] # "idle" => q = r

(* A group has the core it was found by, an open card has events: what has   *)
(* been stored stays.                                                        *)
NothingHollow ==
  /\ \A r \in Runners : \A g \in groups[r] : CoreFor(g.seeds) # {}
  /\ \A id \in Ids : IsOpen(id) => card[id].events # {}
  /\ \A r \in Runners, id \in Ids : hand[r][id].status = "triage" => hand[r][id].events # {}

TInv == TypeOK /\ NothingHollow

(* Seed cases that were looked at fall into blocks: each is linked in itself, *)
(* none with another.                                                        *)
Connected(B) == B # {} /\ \A T \in (SUBSET B) \ {{}, B} : \E g \in T, h \in B \ T : Linked(g, h)

Blocks(P, cases) ==
  /\ UNION P = SeededCases(cases)
  /\ \A B \in P : Connected(B)
  /\ \A B, C \in P : (\E g \in B, h \in C : Linked(g, h)) => B = C

(* The group a block makes.                                                  *)
Joined(B) == [seeds  |-> UNION {RareSeeds(h) : h \in B},
              events |-> UNION {CoreFor(RareSeeds(h)) : h \in B}]

Planned(r) ==
  /\ todo[r] \subseteq SeedCases /\ aim = BatchIds(SeedCases)
  /\ \E P \in SUBSET SUBSET SeedCases :
       Blocks(P, SeedCases \ todo[r]) /\ groups[r] = {Joined(B) : B \in P}
  /\ \A s \in Seeds : rarity[r][s] # "unknown" =>
        (rarity[r][s] = "rare" <=> Occurrences(s) <= MaxOccurrences)
  /\ fresh[r] = {}

(* The open automatic editions the run began with are those of its snapshot.  *)
SnapshotHolds(r) == \A id \in OpenAuto \ fresh[r] : prev[r][id] = card[id].events

Assembled(id) == id \in OpenAuto /\ card[id].events = CoreFor(id)

InHand(r, id) == hand[r][id].status = "triage" /\ hand[r][id].events = CoreFor(id)

(* What a run has reached that nothing has disturbed.                        *)
Undisturbed(r) ==
  /\ step[r] = "plan" => Planned(r) /\ SnapshotHolds(r)
  /\ step[r] \in {"save", "mark", "supersede", "close"} =>
       SnapshotHolds(r) /\ fresh[r] \subseteq aim
  /\ step[r] \in {"save", "mark"} => aim = {g.seeds : g \in groups[r]}
  /\ step[r] = "save" => \A id \in fresh[r] : Assembled(id)
  /\ step[r] = "mark" => \E new \in fresh[r] :
       /\ InHand(r, new) /\ \A id \in Ids \ {new} : hand[r][id] = NoCard
       /\ \A id \in fresh[r] \ {new} : Assembled(id)
  /\ step[r] \in {"supersede", "close"} =>
       fresh[r] = aim /\ \A id \in aim : Assembled(id) /\ InHand(r, id)
  /\ step[r] = "retire" =>
       /\ \A id \in aim : Assembled(id) /\ hand[r][id] = NoCard
       /\ \A id \in Ids : hand[r][id] = NoCard \/ hand[r][id].status = "merged"
       /\ \A id \in OpenAuto \ aim :
            /\ AnalystTouched(card[id]) \/ hand[r][id] # NoCard
            /\ \A new \in aim : card[id].events \cap card[new].events = {}

CInv ==
  /\ TInv /\ Converged
  /\ \A r \in calm : step[r] # "idle" => Undisturbed(r)
=============================================================================
