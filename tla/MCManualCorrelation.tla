------------------------- MODULE MCManualCorrelation -------------------------
(* Small instances of ManualCorrelation for TLC.                             *)
EXTENDS ManualCorrelation, TLC

CONSTANTS a, b, c, d, e1, e2, e3, unknown, f1, f2

(* Case a has two events and a finding about both; b has one event.          *)
CardsData ==
  a :> [NoCard EXCEPT !.status = "open", !.events = {e1, e2}, !.observed = {e1, e2},
          !.hits = {e1},
          !.findings = f1 :> [events |-> {e1, e2}, historical |-> FALSE, origin |-> NoCase]] @@
  b :> [NoCard EXCEPT !.status = "open", !.events = {e3}, !.observed = {e3}, !.hits = {e3}] @@
  [x \in Cases |-> NoCard]

WrittenData == f1 :> a @@ [f \in Findings |-> NoCase]

Cmd(kind, case, from, events) == [kind |-> kind, case |-> case, from |-> from, events |-> events]

CommandsData ==
  { Cmd("attach", b, b, {e1}), Cmd("attach", a, a, {unknown}), Cmd("detach", a, a, {e1}),
    Cmd("finding", a, a, {e1}), Cmd("split", a, a, {e1}), Cmd("split", b, b, {e1, e2}),
    Cmd("merge", b, a, {}), Cmd("merge", a, c, {}) }

Symmetric == Permutations(Requests) \cup Permutations(Threads)
=============================================================================
