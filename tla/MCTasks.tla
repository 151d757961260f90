------------------------------- MODULE MCTasks -------------------------------
(* Small instances of Tasks for TLC. *)
EXTENDS Tasks, TLC

Symmetry == Permutations(Title) \cup Permutations(Worker)

=============================================================================
