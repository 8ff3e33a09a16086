-------------------------- MODULE MCEventProcessing --------------------------
(* Small instances of EventProcessing for TLC, with the keys that           *)
(* CorrelationKeys gives to concrete events.                                *)
EXTENDS EventProcessing, CorrelationKeys, TLC

CONSTANTS e1, e2, e3, e4, e5, e6, loop, pool

(* The row that config/risk_weights.yaml has for the events of one host.     *)
HostWindow ==
  [name |-> "host_window", fields |-> {"host_id"}, bucket |-> 600, priority |-> 10,
   window |-> "sliding", sources |-> {"edr", "siem"}]

(* The rules of config/risk_weights.yaml in another order of declaration,   *)
(* and one row whose source is misspelt.                                    *)
Rules == <<
  [name |-> "file_hash", fields |-> {"hash"}, bucket |-> 0, priority |-> 30,
   window |-> "calendar", sources |-> {"edr", "siem"}],
  [name |-> "any_host", fields |-> {"host_id"}, bucket |-> 0, priority |-> 5,
   window |-> "calendar", sources |-> {"edrr"}],
  HostWindow >>

Ev(at, source, asset, operation, entity) ==
  [at |-> at, source |-> source, asset |-> asset, operation |-> operation, entity |-> entity]

Host(h) == "host_id" :> h
Hash(x) == "hash" :> x

(* e1, e2, e4 are a chain on host h1 whose ends share no bucket; e2 carries  *)
(* the hash of e3, so that it may meet three cases at once; e5 is on the host *)
(* of e3 and has the burst key of e1; e6 is a poll with that burst key and no *)
(* correlation key.                                                        *)
Data ==
  e1 :> Ev(300, "edr", "a1", "login", Host("h1")) @@
  e2 :> Ev(700, "siem", "_", "exec", Hash("x") @@ Host("h1")) @@
  e3 :> Ev(350, "edr", "_", "read", Hash("x") @@ Host("h2")) @@
  e4 :> Ev(1300, "edr", "_", "write", Host("h1")) @@
  e5 :> Ev(310, "edr", "a1", "login", Host("h2")) @@
  e6 :> Ev(320, "plc_polling", "a1", "login", Host("h1"))

KeysOfData == [e \in Events |-> Fingerprints(Data[e])]
BurstOfData == [e \in Events |-> BurstKey(Data[e])]
TimeOfData == [e \in Events |-> Data[e].at]

(* The keys are those of the events, and among the rows of the configuration *)
(* is the one that the product ships for the host.                          *)
ASSUME HostWindowAssumption ==
  /\ Generalized /\ KeysOf = KeysOfData /\ BornAt = TimeOfData
  /\ Len(ConfigRules) \in Nat /\ DOMAIN ConfigRules = 1 .. Len(ConfigRules)
  /\ \A i \in DOMAIN ConfigRules : ConfigRules[i].priority \in Int
  /\ HostWindow \in Range(ConfigRules)
  /\ HostWindow.fields \subseteq KnownFields /\ HostWindow.sources \subseteq KnownSources

(* e and f are of one host, in sources that are correlated, f at most 600 s  *)
(* after e.                                                                *)
Neighbours(e, f) ==
  /\ {e.source, f.source} \subseteq HostWindow.sources
  /\ "host_id" \in DOMAIN e.entity \cap DOMAIN f.entity
  /\ e.entity["host_id"] = f.entity["host_id"]
  /\ e.at <= f.at /\ f.at <= e.at + HostWindow.bucket

(* A burst within a host is never cut by the calendar: two open cases hold  *)
(* no events of one host and of correlated sources within 600 s.            *)
NeighboursShareCase ==
  crashes = 0 =>
  \A c, d \in Events : Open(c) /\ Open(d) /\ c # d =>
     ~ \E e \in cases[c].events, f \in cases[d].events : Neighbours(Data[e], Data[f])
=============================================================================
