--------------------------- MODULE MCAgentLifecycle ---------------------------
(* Model-checking instances of AgentLifecycle: sessions are model values. *)
EXTENDS AgentLifecycle, TLC

CONSTANTS r1, u1, u2, y1, b1, b2

None == {}
OneReconciler == {r1}
OneUpdater == {u1}
TwoUpdaters == {u1, u2}
OneSyncer == {y1}
TwoBeats == {b1, b2}

(* What can still matter: an idle session loads the row before it uses its *)
(* copy or its token, and tx is written again before it is read.           *)
InUse ==
    <<[s \in Sessions |-> IF pc[s] = "idle" THEN <<>> ELSE <<pc[s], orm[s], base[s], token[s]>>],
      IF lock = NoSession THEN <<>> ELSE <<lock, tx>>,
      row, job, queue, gateway, clock, passed, minted, budget, history>>

BeatSymmetry == Permutations(Beats)
===============================================================================
