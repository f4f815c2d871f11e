----------------------------- MODULE MCTaskBoard -----------------------------
(* Model-checking instance of TaskBoard. *)
EXTENDS TaskBoard, TLC

CONSTANTS t1, t2, r1, r2

TaskIds == {t1, t2}
RequestIds == {r1, r2}
Symmetry == Permutations(TaskIds) \cup Permutations(RequestIds)
=============================================================================
