-------------------------- MODULE MCAssemblyWorker --------------------------
(* Small instances of AssemblyWorker for TLC. *)
EXTENDS AssemblyWorker, TLC

Symmetric == Permutations(Workers) \cup Permutations(Alarms)
=============================================================================
