--------------------------- MODULE MCCaioDecisions ---------------------------
(* Model-checking instance of CaioDecisions. *)
EXTENDS CaioDecisions

CONSTANTS e1, m1, m2, q1, q2, q3

OneEvent == {e1}
MessageSet == {m1, m2}
ThreeRequests == {q1, q2, q3}
=============================================================================
