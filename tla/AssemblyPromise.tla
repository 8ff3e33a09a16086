--------------------------- MODULE AssemblyPromise ---------------------------
(***************************************************************************)
(* What the assembly owes the stream, without queue, lease or processes:   *)
(* an accepted event on which an invariant fired, once it is signalled, is *)
(* eventually worked into the incidents, and stays so.  The promise is     *)
(* suspended (broken) when a process dies holding signals, and stands      *)
(* again from the next signal on.                                          *)
(***************************************************************************)
CONSTANTS Events

VARIABLES accepted,   \* events the API has stored
          signalled,  \* those that asked for a run
          built,      \* those a completed run has worked in
          broken      \* signals have died with a process, none came since

vars == <<accepted, signalled, built, broken>>

Init ==
  /\ accepted = {}
  /\ signalled = {}
  /\ built = {}
  /\ broken = FALSE

Accept(e) ==
  /\ e \notin accepted
  /\ accepted' = accepted \cup {e}
  /\ UNCHANGED <<signalled, built, broken>>

Signal(e) ==
  /\ e \in accepted \ signalled
  /\ signalled' = signalled \cup {e}
  /\ broken' = FALSE
  /\ UNCHANGED <<accepted, built>>

Build ==
  /\ \E S \in SUBSET accepted : built' = built \cup S
  /\ UNCHANGED <<accepted, signalled, broken>>

Break ==
  /\ broken' = TRUE
  /\ UNCHANGED <<accepted, signalled, built>>

Next == (\E e \in Events : Accept(e) \/ Signal(e)) \/ Build \/ Break

Safety == Init /\ [][Next]_vars

Kept == \A e \in Events : e \in signalled ~> (e \in built \/ broken)

Spec == Safety /\ Kept
=============================================================================
