----------------------------- MODULE MCTaskBridge -----------------------------
(* Small instances of TaskBridge for TLC: two tasks whose jobs could be mixed *)
(* up, and a job for every edit, should each of them create one.              *)
EXTENDS TaskBridge, TLC

Symmetric == Permutations(Tasks) \cup Permutations(Jobs)
=============================================================================
