---------------------------- MODULE CaioDecisions ----------------------------
(***************************************************************************)
(* The verdicts on Caio's Think Loop events (app/api/caio.py): requests of *)
(* the cockpit and of the Discord bot insert a row and let UNIQUE(event_id) *)
(* decide who was first; Caio's runtime reports the start and the          *)
(* completion of approved events, checking a copy of the row it loaded.    *)
(***************************************************************************)
EXTENDS Naturals

CONSTANTS
    Events,
    Messages,     \* ids of Discord messages
    NoMessage,    \* discord_message_id is None
    Requests,     \* concurrent requests, each with a database session
    NoRow,        \* no decision is recorded
    MaxRequests   \* bound: requests served

ASSUME CaioAssumption == NoMessage \notin Messages /\ MaxRequests \in Nat

VARIABLES
    row,       \* caio_event_decisions, by event_id
    pc,        \* where each request is
    event, decision, message,  \* what each request asks for
    clock,     \* numbers the timestamps taken
    accepted,  \* history: the verdicts answered with 200
    served     \* requests started so far

asked == <<event, decision, message>>
vars == <<row, pc, asked, clock, accepted, served>>

Decisions == {"approve", "reject"}
MessageIds == Messages \cup {NoMessage}
Never == 0   \* a NULL timestamp

Rows == [decision : Decisions, message : MessageIds, started : Nat, completed : Nat]

ASSUME NoRowAssumption == NoRow \notin Rows /\ NoRow \notin Decisions

PCs == {"idle", "insert", "conflict", "start", "complete"}

TypeOK ==
    /\ row \in [Events -> Rows \cup {NoRow}]
    /\ pc \in [Requests -> PCs]
    /\ event \in [Requests -> Events]
    /\ decision \in [Requests -> Decisions]
    /\ message \in [Requests -> MessageIds]
    /\ clock \in Nat
    /\ accepted \subseteq [event : Events, decision : Decisions, message : MessageIds]
    /\ served \in 0..MaxRequests

Init ==
    /\ row = [e \in Events |-> NoRow]
    /\ pc = [q \in Requests |-> "idle"]
    /\ event \in [Requests -> Events]
    /\ decision = [q \in Requests |-> "approve"]
    /\ message = [q \in Requests |-> NoMessage]
    /\ clock = 0 /\ accepted = {} /\ served = 0

Goto(q, where) == pc' = [pc EXCEPT ![q] = where]

Serve(q) == pc[q] = "idle" /\ served < MaxRequests /\ served' = served + 1

-----------------------------------------------------------------------------
(* mark_think_loop_decision; with the worker's token a message id is       *)
(* required.                                                               *)
Post(q) ==
    /\ Serve(q)
    /\ \E e \in Events, d \in Decisions, m \in MessageIds, worker \in BOOLEAN :
        /\ worker => m # NoMessage
        /\ event' = [event EXCEPT ![q] = e]
        /\ decision' = [decision EXCEPT ![q] = d]
        /\ message' = [message EXCEPT ![q] = m]
    /\ Goto(q, "insert")
    /\ UNCHANGED <<row, clock, accepted>>

(* 200 *)
Accept(q) == accepted' = accepted \cup
    {[event |-> event[q], decision |-> decision[q], message |-> message[q]]}

(* Mutant: the values are bound in the wrong order. *)
Swapped(q) == row' = [row EXCEPT ![event[q]] =
    [decision |-> message[q], message |-> decision[q],
     started |-> Never, completed |-> Never]]

Recorded(q) == row' = [row EXCEPT ![event[q]] =
    [decision |-> decision[q], message |-> message[q],
     started |-> Never, completed |-> Never]]

(* Mutant: INSERT ... ON CONFLICT DO UPDATE *)
Upsert(q) ==
    /\ pc[q] = "insert"
    /\ Recorded(q) /\ Accept(q) /\ Goto(q, "idle")
    /\ UNCHANGED <<asked, clock, served>>

(* INSERT and commit. The unique index refuses a second row of the event;  *)
(* a foreign key may refuse any row.                                       *)
Insert(q) ==
    /\ pc[q] = "insert"
    /\ \/ /\ row[event[q]] = NoRow
          /\ Recorded(q)
          /\ Accept(q)
          /\ Goto(q, "idle")
       \/ /\ Goto(q, "conflict")
          /\ UNCHANGED <<row, accepted>>
    /\ UNCHANGED <<asked, clock, served>>

(* Mutant: the message ids are not compared. *)
SameDecision(q, r) == r.decision = decision[q]

Compatible(q, r) ==
    /\ r.decision = decision[q]
    /\ message[q] = NoMessage \/ r.message = NoMessage \/ r.message = message[q]

(* IntegrityError: roll back and select. Without a row the error is raised *)
(* again; the same decision is answered with 200, any other with 409.      *)
Resolve(q) ==
    /\ pc[q] = "conflict"
    /\ IF row[event[q]] # NoRow /\ Compatible(q, row[event[q]])
       THEN Accept(q) ELSE UNCHANGED accepted
    /\ Goto(q, "idle")
    /\ UNCHANGED <<row, asked, clock, served>>

-----------------------------------------------------------------------------
(* start_think_loop_decision and complete_think_loop_decision: 409 unless  *)
(* the event is approved, a no-op when the column is set already. Only a   *)
(* request that goes on to write changes anything.                         *)
Approved(e) == row[e] # NoRow /\ row[e].decision = "approve"

PostStart(q) ==
    /\ Serve(q)
    /\ \E e \in Events :
        /\ Approved(e) /\ row[e].started = Never
        /\ event' = [event EXCEPT ![q] = e]
    /\ Goto(q, "start")
    /\ UNCHANGED <<row, decision, message, clock, accepted>>

PostComplete(q) ==
    /\ Serve(q)
    /\ \E e \in Events :
        /\ Approved(e) /\ row[e].completed = Never
        /\ event' = [event EXCEPT ![q] = e]
    /\ Goto(q, "complete")
    /\ UNCHANGED <<row, decision, message, clock, accepted>>

(* UPDATE of the one column, whatever has happened to it since the check *)
Stamp(q) ==
    /\ clock' = clock + 1
    /\ \/ pc[q] = "start" /\ row' = [row EXCEPT ![event[q]].started = clock']
       \/ pc[q] = "complete" /\ row' = [row EXCEPT ![event[q]].completed = clock']
    /\ Goto(q, "idle")
    /\ UNCHANGED <<asked, accepted, served>>

Next == \E q \in Requests :
    Post(q) \/ Insert(q) \/ Resolve(q) \/ PostStart(q) \/ PostComplete(q) \/ Stamp(q)

Spec == Init /\ [][Next]_vars

-----------------------------------------------------------------------------
(* Properties *)

(* Two answers with 200 for one event never contradict each other: all     *)
(* carry the decision on record, and a message id on record is never       *)
(* answered over by another one, whoever was first and whichever requests  *)
(* found a conflict.                                                       *)
AnswersAgree == \A x \in accepted :
    /\ row[x.event] # NoRow
    /\ row[x.event].decision = x.decision
    /\ x.message = NoMessage \/ row[x.event].message \in {NoMessage, x.message}

Verdict(e) == IF row[e] = NoRow THEN NoRow ELSE row[e].decision
Stamped(e, column) == row[e] # NoRow /\ row[e][column] # Never

Ledger == INSTANCE DecisionLedger WITH
    Undecided <- NoRow,
    verdict <- [e \in Events |-> Verdict(e)],
    started <- {e \in Events : Stamped(e, "started")},
    completed <- {e \in Events : Stamped(e, "completed")}

(* The endpoints implement the ledger: concurrent verdicts and reports     *)
(* never change a first verdict, clear a stamp or stamp a rejected event.  *)
ImplementsLedger == Ledger!Spec
=============================================================================
