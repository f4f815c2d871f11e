------------------------------- MODULE TaskFeed -------------------------------
(***************************************************************************)
(* The tasks of a board and their event stream (app/api/tasks.py): requests *)
(* commit a row and, in a second transaction or the same one, the activity *)
(* event that announces it; a connection polls for events stamped since    *)
(* the last one it saw and sends each with the row as it is at the poll.   *)
(***************************************************************************)
EXTENDS Naturals, FiniteSets, Sequences

CONSTANTS
    Tasks,
    Existing,  \* the sets of tasks there may be at the start
    Requests   \* every request that writes a task, each sent at most once

VARIABLES
    row,       \* updated_at of each task's row, which identifies its content
    events,    \* activity events, [id, at]: task and created_at
    clock,     \* numbers the timestamps taken
    req,       \* per request: what it does and how far the server is with it
    lastSeen,  \* last_seen of the stream's generator
    seen,      \* seen_ids: stamps of the events this connection has sent
    wire       \* payloads sent and not yet read by the page, [id, ver]

server == <<row, events, clock, req>>
stream == <<lastSeen, seen, wire>>

NoRow == 0   \* the task was not created yet, or was deleted
Kinds == {"update", "create", "delete"}
Phases == {"unsent", "sent", "stamped", "written", "logged", "refused", "over"}
ReqRecords == [op : Kinds, id : Tasks, ver : Nat, phase : Phases]

FeedTypeOK ==
    /\ row \in [Tasks -> Nat]
    /\ events \subseteq [id : Tasks, at : Nat]
    /\ clock \in Nat
    /\ req \in [Requests -> ReqRecords]
    /\ lastSeen \in Nat
    /\ seen \subseteq Nat
    /\ wire \in Seq([id : Tasks, ver : Nat])

FeedInit ==
    /\ row \in {[t \in Tasks |-> IF t \in ids THEN 1 ELSE NoRow] : ids \in Existing}
    /\ events = {}
    /\ clock = 1
    /\ req = [w \in Requests |-> [op |-> "update", id |-> CHOOSE t \in Tasks : TRUE,
                                  ver |-> 0, phase |-> "unsent"]]
    /\ lastSeen = 0 /\ seen = {} /\ wire = <<>>

In(w, phase) == req[w].phase = phase
Underway(w) == req[w].phase \in {"sent", "written", "logged"}
Goto(w, phase) == req' = [req EXCEPT ![w].phase = phase]

(* The ids of tasks are never used twice. *)
Unused(t) == row[t] = NoRow /\ \A w \in Requests : req[w].id = t => In(w, "unsent")

Send(w, op, t) ==
    /\ In(w, "unsent")
    /\ IF op = "create" THEN Unused(t) ELSE ~Unused(t)
    /\ req' = [req EXCEPT ![w] = [op |-> op, id |-> t, ver |-> 0, phase |-> "sent"]]
    /\ UNCHANGED <<row, events, clock>>

-----------------------------------------------------------------------------
(* The server. *)

(* The first commit of an update or a creation: updated_at is the content. *)
(* Then the event is built, which stamps it.                               *)
WriteRow(w, op, t) ==
    /\ op = "update" => row[t] # NoRow
    /\ clock' = clock + 2
    /\ row' = [row EXCEPT ![t] = clock + 1]
    /\ req' = [req EXCEPT ![w] = [op |-> op, id |-> t, ver |-> clock + 1, phase |-> "written"]]
    /\ UNCHANGED events

(* A deletion takes the task's events with it and logs none. *)
DeleteRow(w, t) ==
    /\ row[t] # NoRow
    /\ row' = [row EXCEPT ![t] = NoRow]
    /\ events' = {e \in events : e.id # t}
    /\ req' = [req EXCEPT ![w] = [op |-> "delete", id |-> t, ver |-> NoRow, phase |-> "logged"]]
    /\ UNCHANGED clock

Execute(w, op, t) == IF op = "delete" THEN DeleteRow(w, t) ELSE WriteRow(w, op, t)

(* 404, or a gate of the status change answers 409 or 422. *)
Refuse(w) ==
    /\ In(w, "sent") /\ req[w].op # "create"
    /\ req[w].op = "delete" => row[req[w].id] = NoRow
    /\ Goto(w, "refused")
    /\ UNCHANGED <<row, events, clock>>

(* The event is committed, after the queries of the dependents' reset. *)
LogEvent(w) ==
    /\ In(w, "written")
    /\ IF row[req[w].id] = NoRow
          THEN Goto(w, "refused") /\ UNCHANGED events
          ELSE /\ events' = events \cup {[id |-> req[w].id, at |-> req[w].ver + 1]}
               /\ Goto(w, "logged")
    /\ UNCHANGED <<row, clock>>

(* An update by the lead, or the reset of a dependent: row and event get   *)
(* their stamps, and one commit writes both, if the row is still there.    *)
StampBoth(w, t) ==
    /\ row[t] # NoRow
    /\ clock' = clock + 2
    /\ req' = [req EXCEPT ![w] = [op |-> "update", id |-> t, ver |-> clock + 1, phase |-> "stamped"]]
    /\ UNCHANGED <<row, events>>

CommitBoth(w) ==
    /\ In(w, "stamped")
    /\ IF row[req[w].id] = NoRow
          THEN Goto(w, "refused") /\ UNCHANGED <<row, events>>
          ELSE /\ row' = [row EXCEPT ![req[w].id] = req[w].ver]
               /\ events' = events \cup {[id |-> req[w].id, at |-> req[w].ver + 1]}
               /\ Goto(w, "logged")
    /\ UNCHANGED clock

Serve(w) ==
    \/ In(w, "sent") /\ Execute(w, req[w].op, req[w].id)
    \/ LogEvent(w)
    \/ CommitBoth(w)
    \/ Refuse(w)

(* A request from elsewhere is of no interest before it writes. *)
ServeOther(w, op, t) ==
    /\ In(w, "unsent")
    /\ op = "create" => Unused(t)
    /\ Execute(w, op, t) \/ (op = "update" /\ StampBoth(w, t))

-----------------------------------------------------------------------------
(* The stream. *)

Unsent == {e \in events : e.at >= lastSeen /\ e.at \notin seen}

Payload(e) == [id |-> e.id, ver |-> row[e.id]]

(* One round of _task_event_generator. *)
Poll ==
    /\ Unsent # {}
    /\ \E order \in [1..Cardinality(Unsent) -> Unsent] :
           /\ \A i, j \in DOMAIN order : i < j => order[i].at < order[j].at
           /\ wire' = wire \o [i \in DOMAIN order |-> Payload(order[i])]
    /\ seen' = {e.at : e \in Unsent}
    /\ lastSeen' \in {e.at : e \in Unsent}
    /\ \A e \in Unsent : lastSeen' >= e.at
    /\ UNCHANGED server

Open(since) == lastSeen' = since /\ seen' = {} /\ wire' = <<>>
=============================================================================
