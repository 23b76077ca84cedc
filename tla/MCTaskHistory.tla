---- MODULE MCTaskHistory ----
(* TLC instance of TaskHistory: symmetric job ids. *)
EXTENDS TaskHistory, TLC

Symmetry == Permutations(JobId)
====
