---------------------------- MODULE DecisionLedger ----------------------------
(***************************************************************************)
(* What the decision endpoints promise (app/api/caio.py): the first        *)
(* verdict on an event is terminal, and only an approved event is ever     *)
(* started or completed, each for good.                                    *)
(***************************************************************************)
CONSTANTS
    Events,
    Undecided   \* no verdict yet

VARIABLES verdict, started, completed

ledger == <<verdict, started, completed>>

Verdicts == {"approve", "reject"}

Init ==
    /\ verdict = [e \in Events |-> Undecided]
    /\ started = {} /\ completed = {}

Decide(e) ==
    /\ verdict[e] = Undecided
    /\ \E v \in Verdicts : verdict' = [verdict EXCEPT ![e] = v]
    /\ UNCHANGED <<started, completed>>

Start(e) ==
    /\ verdict[e] = "approve"
    /\ started' = started \cup {e}
    /\ UNCHANGED <<verdict, completed>>

Complete(e) ==
    /\ verdict[e] = "approve"
    /\ completed' = completed \cup {e}
    /\ UNCHANGED <<verdict, started>>

Next == \E e \in Events : Decide(e) \/ Start(e) \/ Complete(e)

Spec == Init /\ [][Next]_ledger
=============================================================================
