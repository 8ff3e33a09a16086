------------------------------ MODULE Settings ------------------------------
(* The weights and thresholds of the risk (PUT /config/risk-weights): a set  *)
(* is validated, written to the file of the configuration, and then put into *)
(* the dictionary that every assessment reads, piece by piece and without a  *)
(* lock, by threads of the pool.  The file is truncated when it is opened    *)
(* for writing; a start of the process reads it.                             *)
(*                                                                           *)
(* A set: [weights |-> of rhythm, graph, context, user and data quality,     *)
(* thresholds |-> critical, high, medium], in thousandths.                   *)
EXTENDS Integers, Sequences, FiniteSets, Functions

CONSTANTS
  Admins,      \* threads that serve the route
  Proposals,   \* sets that administrators ask for
  Shipped,     \* the set of the shipped file
  MaxMonth, MaxPuts, MaxBreaks  \* bounds: months, requests, deaths and errors

VARIABLES
  month,     \* of today's date
  file,      \* the file: [set, version, rest]
  force,     \* the dictionary in memory: [weights, thresholds, version]
  running,   \* whether the process runs
  put,       \* [Admins -> the request that is being served]
  given,     \* history: what was in force under which version
  overlap,   \* history: two requests were under way at once
  split,     \* history: an overlap or a failed write, and since then neither a
             \* start nor a request that had the file to itself
  puts, breaks  \* requests, deaths and errors so far

settingsVars == <<month, file, force, running, put, given, overlap, split, puts, breaks>>

Torn == [set |-> [weights |-> <<>>, thresholds |-> <<>>], version |-> <<>>, rest |-> "torn"]
Done == [at |-> "done"]

WeightSum(weights) == FoldFunction(LAMBDA x, y : x + y, 0, weights)

Validated(set) ==
  /\ \A i \in DOMAIN set.weights : set.weights[i] \in 0..1000
  /\ WeightSum(set.weights) \in 999..1001
  /\ LET t == set.thresholds
     IN 0 < t[3] /\ t[3] < t[2] /\ t[2] < t[1] /\ t[1] <= 1000

RiskSets == [weights : Seq(Int), thresholds : Seq(Int)]

ASSUME SettingsAssumption ==
  /\ Proposals \cup {Shipped} \subseteq RiskSets
  /\ Validated(Shipped)
  /\ MaxMonth \in Nat \ {0} /\ {MaxPuts, MaxBreaks} \subseteq Nat

(* Versions count within a month.                                            *)
NextVersion(version) == <<month, IF version[1] = month THEN version[2] + 1 ELSE 1>>

(* Of two figures after the point one more is a character more in the file.  *)
Length(set) ==
  IF set.weights = <<>> THEN -9
  ELSE Cardinality({i \in DOMAIN set.weights : set.weights[i] % 10 # 0})
       + Cardinality({i \in DOMAIN set.thresholds : set.thresholds[i] % 10 # 0})

(* A text that is written over a longer one leaves the tail of that: one     *)
(* character is an empty line, more are no YAML.                             *)
Overlaid(text) == IF Length(file.set) > Length(text.set) + 1 THEN [text EXCEPT !.rest = "tail"] ELSE text

Receive(a, set) ==
  /\ running /\ put[a] = Done /\ puts < MaxPuts
  /\ LET others == {b \in Admins : put[b] # Done}
     IN /\ put' = [b \in Admins |->
                     IF b = a THEN [at |-> "read", alone |-> others = {},
                                    text |-> [set |-> set, version |-> NextVersion(force.version), rest |-> ""]]
                     ELSE IF b \in others THEN [put[b] EXCEPT !.alone = FALSE] ELSE Done]
        /\ overlap' = (overlap \/ others # {})
        /\ split' = (split \/ others # {})
  /\ puts' = puts + 1
  /\ UNCHANGED <<month, file, force, running, given, breaks>>

(* Mutated form: the set is not validated before it is written.              *)
ReadUnvalidated(a) ==
  /\ put[a].at = "read"
  /\ put' = [put EXCEPT ![a] = IF file # Torn THEN [@ EXCEPT !.at = "open", !.text.rest = file.rest]
                               ELSE Done]
  /\ UNCHANGED <<month, file, force, running, given, overlap, split, puts, breaks>>

(* What is not a number of the set stays as it was read; 422 for a set that  *)
(* is refused and for a file without the keys.                               *)
ReadAndRewrite(a) ==
  /\ put[a].at = "read"
  /\ put' = [put EXCEPT ![a] = IF Validated(put[a].text.set) /\ file # Torn
                               THEN [@ EXCEPT !.at = "open", !.text.rest = file.rest] ELSE Done]
  /\ UNCHANGED <<month, file, force, running, given, overlap, split, puts, breaks>>

Open(a) ==
  /\ put[a].at = "open"
  /\ file' = Torn
  /\ put' = [put EXCEPT ![a].at = "write"]
  /\ UNCHANGED <<month, force, running, given, overlap, split, puts, breaks>>

WriteSource(a) ==
  /\ put[a].at = "write"
  /\ file' = Overlaid(put[a].text)
  /\ put' = [put EXCEPT ![a].at = "weights"]
  /\ UNCHANGED <<month, force, running, given, overlap, split, puts, breaks>>

(* The disk is full (409): nothing is written, or a text without its end.    *)
WriteFails(a) ==
  /\ put[a].at = "write" /\ breaks < MaxBreaks
  /\ file' \in {Torn, [put[a].text EXCEPT !.rest = "cut"]}
  /\ put' = [put EXCEPT ![a] = Done]
  /\ split' = TRUE
  /\ breaks' = breaks + 1
  /\ UNCHANGED <<month, force, running, given, overlap, puts>>

TakeWeights(a) ==
  /\ put[a].at = "weights"
  /\ force' = [force EXCEPT !.weights = put[a].text.set.weights]
  /\ put' = [put EXCEPT ![a].at = "thresholds"]
  /\ UNCHANGED <<month, file, running, given, overlap, split, puts, breaks>>

TakeThresholds(a) ==
  /\ put[a].at = "thresholds"
  /\ force' = [force EXCEPT !.thresholds = put[a].text.set.thresholds]
  /\ put' = [put EXCEPT ![a].at = "version"]
  /\ UNCHANGED <<month, file, running, given, overlap, split, puts, breaks>>

TakeVersion(a) ==
  /\ put[a].at = "version"
  /\ force' = [force EXCEPT !.version = put[a].text.version]
  /\ given' = given \cup {force'}
  /\ split' = (split /\ ~put[a].alone)
  /\ put' = [put EXCEPT ![a] = Done]
  /\ UNCHANGED <<month, file, running, overlap, puts, breaks>>

ProcessDies ==
  /\ running /\ breaks < MaxBreaks
  /\ running' = FALSE
  /\ put' = [a \in Admins |-> Done]
  /\ breaks' = breaks + 1
  /\ UNCHANGED <<month, file, force, given, overlap, split, puts>>

(* load_risk_weights: what is no mapping is refused; the process stays down. *)
Start ==
  /\ ~running /\ file.rest \notin {"torn", "tail"}
  /\ running' = TRUE
  /\ force' = [weights |-> file.set.weights, thresholds |-> file.set.thresholds,
               version |-> file.version]
  /\ given' = given \cup {force'}
  /\ split' = FALSE
  /\ UNCHANGED <<month, file, put, overlap, puts, breaks>>

NewMonth ==
  /\ month < MaxMonth
  /\ month' = month + 1
  /\ UNCHANGED <<file, force, running, put, given, overlap, split, puts, breaks>>

SettingsInit ==
  /\ month = 1 /\ running = TRUE /\ puts = 0 /\ breaks = 0
  /\ file = [set |-> Shipped, version |-> <<1, 1>>, rest |-> "whole"]
  /\ force = [weights |-> Shipped.weights, thresholds |-> Shipped.thresholds, version |-> <<1, 1>>]
  /\ put = [a \in Admins |-> Done]
  /\ given = {force}
  /\ overlap = FALSE /\ split = FALSE

SettingsNext ==
  \/ \E a \in Admins, set \in Proposals : Receive(a, set)
  \/ \E a \in Admins : ReadAndRewrite(a) \/ Open(a) \/ WriteSource(a) \/ WriteFails(a)
                       \/ TakeWeights(a) \/ TakeThresholds(a) \/ TakeVersion(a)
  \/ ProcessDies \/ Start \/ NewMonth

SettingsSpec == SettingsInit /\ [][SettingsNext]_settingsVars

-----------------------------------------------------------------------------
SettingsTypeOK ==
  /\ month \in 1..MaxMonth /\ puts \in 0..MaxPuts /\ breaks \in 0..MaxBreaks
  /\ running \in BOOLEAN /\ overlap \in BOOLEAN /\ split \in BOOLEAN
  /\ file.rest \in {"whole", "tail", "cut", "torn"}
  /\ \A a \in Admins : put[a].at \in {"done", "read", "open", "write", "weights", "thresholds", "version"}

(* What is in force is a set that somebody may rely on: at every moment,     *)
(* half-way through two requests as well, its weights and its thresholds     *)
(* have passed the validation.  When no request is under way it is the file, *)
(* unless requests overlapped or a write failed and nothing has mended it    *)
(* since; and without an overlap one version is one set, and, without an     *)
(* error besides, the file is one that the next start can read.              *)
SettingsInForce ==
  LET calm == \A a \in Admins : put[a] = Done
  IN /\ Validated(force)
     /\ calm /\ running /\ ~split => /\ force.weights = file.set.weights
                                     /\ force.thresholds = file.set.thresholds
                                     /\ force.version = file.version
     /\ ~overlap => \A x, y \in given : x.version = y.version => x = y
     /\ calm /\ ~overlap /\ breaks = 0 => file.rest = "whole"

(* Stated by weights_writer ("правка без поднятия версии здесь невозможна -  *)
(* иначе два разных набора весов назывались бы в отчётах одинаково"), and    *)
(* not kept by two requests that take their version from the same one.       *)
OneVersionOneSet == \A x, y \in given : x.version = y.version => x = y

-----------------------------------------------------------------------------
(* Why SettingsInForce holds: the inductive invariant.                       *)

Later(v, w) == v[1] > w[1] \/ (v[1] = w[1] /\ v[2] > w[2])

Versions == (1..month) \X Nat
Texts == [set : RiskSets, version : Versions, rest : {"", "whole", "tail", "cut"}]
Givens == [weights : Seq(Int), thresholds : Seq(Int), version : Versions]
PutPhases == {"read", "open", "write", "weights", "thresholds", "version"}
PutRequests == [at : PutPhases, alone : BOOLEAN, text : Texts]
Active == {a \in Admins : put[a] # Done}

(* What the file or a text would put in force.                               *)
Forced(text) == [weights |-> text.set.weights, thresholds |-> text.set.thresholds,
                 version |-> text.version]

(* Nothing that was not validated is ever written or taken over.             *)
OnlyValidated ==
  /\ month \in Nat \ {0} /\ breaks \in Nat
  /\ file = Torn \/ (file \in Texts /\ file.rest # "" /\ Validated(file.set))
  /\ force \in Givens /\ Validated(force) /\ given \subseteq Givens
  /\ put \in [Admins -> PutRequests \cup {Done}]
  /\ \A a \in Active : put[a].at # "read" => Validated(put[a].text.set) /\ put[a].text.rest # ""
  /\ ~running => Active = {}

(* A request that is alone has the file to itself since it came; that is all  *)
(* requests under way, unless some overlapped.                               *)
AloneIsAlone ==
  /\ \A a \in Active : put[a].alone => Active = {a}
  /\ ~split \/ ~overlap => \A a \in Active : put[a].alone

(* How far a request has taken its text that is alone.                       *)
TextTaken ==
  \A a \in Active : put[a].alone =>
    LET at == put[a].at text == put[a].text
    IN /\ at = "write" => file = Torn
       /\ at \in {"weights", "thresholds", "version"} => file = text
       /\ at \in {"thresholds", "version"} => force.weights = text.set.weights
       /\ at = "version" => force.thresholds = text.set.thresholds

(* Until it has opened the file, what is in force is what the file says.     *)
FileInForce ==
  running /\ ~split /\ (\A a \in Active : put[a].at \in {"read", "open"})
    => file # Torn /\ force = Forced(file)

(* Without an overlap versions only grow: what is in the file is the set that *)
(* was given under the version in force, or has a later one.                 *)
VersionsGrow ==
  ~overlap =>
    /\ \A x \in given : force.version = x.version \/ Later(force.version, x.version)
    /\ \A x, y \in given : x.version = y.version => x = y
    /\ \A a \in Active : Later(put[a].text.version, force.version)
    /\ file # Torn => \/ Later(file.version, force.version)
                      \/ file.version = force.version /\ Forced(file) \in given

(* Without an error either every text that is written is whole.              *)
WholeText ==
  ~overlap /\ breaks = 0 =>
    /\ \A a \in Active : put[a].at # "read" => put[a].text.rest = "whole"
    /\ file.rest = "whole" \/ (file = Torn /\ \E a \in Active : put[a].at = "write")

SettingsInv ==
  OnlyValidated /\ AloneIsAlone /\ TextTaken /\ FileInForce /\ VersionsGrow /\ WholeText
=============================================================================
