--------------------------- MODULE MCAutoAssembly ---------------------------
(* Small instances of AutoAssembly for TLC. *)
EXTENDS AutoAssembly, TLC

CONSTANTS e1, e2, e3, e4, a, b, c1, c2, c3

(* The runners that run at all, chosen at the start: one alone, with all the *)
(* events, an analyst and a run cut off; or both at a time - the worker and  *)
(* POST /cases/assemble/auto - over the first three events.                  *)
VARIABLE awake

(* Three cases of one event each; a and b are rare until e3, which carries   *)
(* both, is stored: with a threshold of 2 two incidents then become one.     *)
ThreeEvents == {e1, e2, e3}
SeedsOfEvent == e1 :> {a} @@ e2 :> {b} @@ e3 :> {a, b}
CaseOfEvent == e1 :> c1 @@ e2 :> c2 @@ e3 :> c3

(* A fourth event makes both seeds common again: the incident of e1, e2, e3  *)
(* grows together and then loses its seeds.                                 *)
FourEvents == ThreeEvents \cup {e4}
SeedsOfFour == SeedsOfEvent @@ e4 :> {a, b}
CaseOfFour == CaseOfEvent @@ e4 :> c3

sceneVars == <<vars, awake>>

SceneInit == Init /\ awake \in SUBSET Runners \ {{}}

SceneNext ==
  /\ Next /\ UNCHANGED awake
  /\ \A r \in Runners \ awake : step'[r] = "idle"
  /\ Cardinality(awake) > 1 =>
       acts' = 0 /\ crashes' = 0 /\ (e4 \in Events => ingest'[e4] = "absent")

SceneSpec == SceneInit /\ [][SceneNext]_sceneVars

(* The runners can be exchanged, and so can a with its event and its case    *)
(* and b with theirs.                                                        *)
Keep == [x \in {a, b, e1, e2, c1, c2} |-> x]
Exchange == a :> b @@ b :> a @@ e1 :> e2 @@ e2 :> e1 @@ c1 :> c2 @@ c2 :> c1
Symmetry == {p @@ q : p \in Permutations(Runners), q \in {Keep, Exchange}}
=============================================================================
