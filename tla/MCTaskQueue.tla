----------------------------- MODULE MCTaskQueue -----------------------------
(* Model-checking instance of TaskQueue: jobs and workers are model values. *)
EXTENDS TaskQueue, TLC

CONSTANTS t1, t2, w1, w2

TaskSet == {t1, t2}
UnhandledSet == {t2}
NoUnhandled == {}
OneTask == {t1}
TwoWorkers == {w1, w2}
OneWorker == {w1}

WorkerSymmetry == Permutations(Workers)
=============================================================================
