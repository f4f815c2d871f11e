----------------------------- MODULE MCApprovals -----------------------------
(* Model-checking instance of Approvals. *)
EXTENDS Approvals

CONSTANTS a1, a2, q1, q2

TaskIds == {1, 2}
ApprovalIds == {a1, a2}
RequestIds == {q1, q2}
=============================================================================
