----------------------------- MODULE MCBoardPage -----------------------------
(* Model-checking instance of BoardPage. *)
EXTENDS BoardPage

CONSTANTS t1, t2

TaskSet == {t1, t2}
NoneOrOne == {{}, {t1}}
=============================================================================
