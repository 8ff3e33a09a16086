----------------------------- MODULE MCCaseStore -----------------------------
(* Small instances of CaseStore for TLC: the API with two threads and the    *)
(* assembly worker with one.                                               *)
EXTENDS CaseStore, TLC

CONSTANTS api, worker, a1, a2, w1, merge, decide, split, assemble, c1, c2, c3

ProcOfData == a1 :> api @@ a2 :> api @@ w1 :> worker
HomeData == merge :> api @@ decide :> api @@ split :> api @@ assemble :> worker

(* merge and split are manual corrections of two cases each, decide changes   *)
(* a case of the one, and the worker rebuilds a card of the other.           *)
TouchesData ==
  merge :> <<c1, c2>> @@ decide :> <<c1>> @@ split :> <<c2, c3>> @@ assemble :> <<c3>>
=============================================================================
