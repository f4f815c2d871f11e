------------------------------ MODULE Approvals ------------------------------
(***************************************************************************)
(* Approval requests on the tasks of a board (app/api/approvals.py and     *)
(* app/services/approval_task_links.py). "Each task can have only one      *)
(* pending approval": no database constraint says so, the API enforces it  *)
(* by locking the task rows, looking for conflicts and writing within one  *)
(* transaction. An update works on a copy of the approval loaded before    *)
(* the locks, and writes the status only if it differs from that copy.     *)
(*                                                                         *)
(* The rows inserted for an approval refer to its tasks: each foreign key  *)
(* takes FOR KEY SHARE on the task's row, which others may share but which *)
(* waits for FOR UPDATE, and makes it wait. PostgreSQL aborts a request    *)
(* that it finds waiting for itself.                                       *)
(***************************************************************************)
EXTENDS Integers, FiniteSets, Sequences

CONSTANTS
    Tasks,         \* task ids; their order is the order of locking
    Approvals,     \* approval ids
    Requests,      \* concurrent API requests, each with a database session
    MaxRequests,   \* bound: requests served
    None           \* no approval, no request

ASSUME ApprovalsAssumption ==
    /\ Tasks \subseteq Nat /\ IsFiniteSet(Tasks) /\ IsFiniteSet(Requests)
    /\ MaxRequests \in Nat
    /\ None \notin Approvals /\ None \notin Requests

VARIABLES
    status,    \* approvals.status, "absent" before the insert
    links,     \* approval_task_links
    owner,     \* the transaction that holds the row of a task FOR UPDATE
    sharers,   \* those that hold it FOR KEY SHARE
    pc,        \* where each request is
    approval,  \* the approval a request creates or updates
    target,    \* the status it asks for
    loaded,    \* the status it loaded, prior_status
    wanted,    \* the tasks its approval is linked to
    left,      \* of these, the ones to be shared yet, as the request lists them
    born,      \* history: the status an approval was created with
    told,      \* history: outcomes the board lead was told of
    served     \* requests started so far

request == <<approval, target, loaded, wanted>>
locks == <<owner, sharers, left>>
vars == <<status, links, locks, pc, request, born, told, served>>

Resolved == {"approved", "rejected"}
Statuses == {"pending"} \cup Resolved

PCs == {"idle", "lock", "check", "share", "create", "update", "notify"}

ListsOK ==
    /\ left \in [Requests -> Seq(Tasks)]
    /\ \A r \in Requests : pc[r] = "share" => left[r] # <<>>

TypeOK ==
    /\ status \in [Approvals -> Statuses \cup {"absent"}]
    /\ links \in [Approvals -> SUBSET Tasks]
    /\ owner \in [Tasks -> Requests \cup {None}]
    /\ sharers \in [Tasks -> SUBSET Requests]
    /\ pc \in [Requests -> PCs]
    /\ approval \in [Requests -> Approvals \cup {None}]
    /\ \A r \in Requests : pc[r] # "idle" => approval[r] \in Approvals
    /\ target \in [Requests -> Statuses]
    /\ loaded \in [Requests -> Statuses \cup {"absent"}]
    /\ wanted \in [Requests -> SUBSET Tasks]
    /\ ListsOK
    /\ born \in [Approvals -> Statuses \cup {"absent"}]
    /\ told \in [Approvals -> SUBSET Resolved]
    /\ served \in 0..MaxRequests

Init ==
    /\ status = [a \in Approvals |-> "absent"]
    /\ links = [a \in Approvals |-> {}]
    /\ owner = [t \in Tasks |-> None]
    /\ sharers = [t \in Tasks |-> {}]
    /\ pc = [r \in Requests |-> "idle"]
    /\ approval = [r \in Requests |-> None]
    /\ target = [r \in Requests |-> "pending"]
    /\ loaded = [r \in Requests |-> "absent"]
    /\ wanted = [r \in Requests |-> {}]
    /\ left = [r \in Requests |-> <<>>]
    /\ born = status
    /\ told = [a \in Approvals |-> {}]
    /\ served = 0

-----------------------------------------------------------------------------
Goto(r, where) == pc' = [pc EXCEPT ![r] = where]

(* Mutant: a transaction is left open. *)
LeftOpen(r) == UNCHANGED <<owner, sharers>>

(* The transaction ends: its row locks are released. *)
EndTransaction(r) ==
    /\ owner' = [t \in Tasks |-> IF owner[t] = r THEN None ELSE owner[t]]
    /\ sharers' = [t \in Tasks |-> sharers[t] \ {r}]

(* The request makes an approval pending that, as far as it knows, is not. *)
Guarded(r) == target[r] = "pending" /\ loaded[r] # "pending" /\ wanted[r] # {}

Finish(r) == IF loaded[r] = "absent" THEN "create" ELSE "update"

Start(r, a, from, to, ts, ids) ==
    /\ pc[r] = "idle"
    /\ served < MaxRequests /\ served' = served + 1
    /\ approval' = [approval EXCEPT ![r] = a]
    /\ loaded' = [loaded EXCEPT ![r] = from]
    /\ target' = [target EXCEPT ![r] = to]
    /\ wanted' = [wanted EXCEPT ![r] = ts]
    /\ left' = [left EXCEPT ![r] = ids]
    /\ Goto(r, IF to = "pending" /\ from # "pending" /\ ts # {} THEN "lock"
               ELSE IF ids # <<>> THEN "share"
               ELSE IF from = "absent" THEN "create" ELSE "update")
    /\ UNCHANGED <<status, links, owner, sharers, born, told>>

(* create_approval: a new id, any status, any list of tasks                *)
(* (normalize_task_ids keeps the order and drops what is repeated)         *)
CreateApproval(r) ==
    \E a \in Approvals, to \in Statuses, ts \in SUBSET Tasks :
      \E ids \in [1..Cardinality(ts) -> ts] :
        /\ status[a] = "absent"
        /\ \A q \in Requests : pc[q] # "idle" => approval[q] # a
        /\ ts = {ids[n] : n \in DOMAIN ids}
        /\ Start(r, a, "absent", to, ts, ids)

(* update_approval: the approval and its links are loaded without a lock,  *)
(* and no column that refers to a task is written.                         *)
UpdateApproval(r) ==
    \E a \in Approvals, to \in Statuses :
        /\ status[a] # "absent"
        /\ Start(r, a, status[a], to, links[a], <<>>)

(* Mutant: the tasks are read but not locked. *)
ReadTasks(r) ==
    /\ pc[r] = "lock"
    /\ Goto(r, "check")
    /\ UNCHANGED <<status, links, locks, request, born, told, served>>

(* Mutant: every request locks its tasks in an order of its own. *)
LockAnyTask(r) ==
    /\ pc[r] = "lock"
    /\ \E t \in wanted[r] :
        /\ owner[t] = None /\ sharers[t] = {}
        /\ owner' = [owner EXCEPT ![t] = r]
        /\ IF \A u \in wanted[r] \ {t} : owner[u] = r THEN Goto(r, "check")
           ELSE UNCHANGED pc
    /\ UNCHANGED <<status, links, sharers, left, request, born, told, served>>

(* lock_tasks_for_approval: row locks in the order of the task ids *)
LockTask(r) ==
    /\ pc[r] = "lock"
    /\ \E t \in wanted[r] :
        /\ owner[t] = None /\ sharers[t] = {}
        /\ \A u \in wanted[r] : u < t => owner[u] = r
        /\ owner' = [owner EXCEPT ![t] = r]
        /\ IF \A u \in wanted[r] : u <= t THEN Goto(r, "check") ELSE UNCHANGED pc
    /\ UNCHANGED <<status, links, sharers, left, request, born, told, served>>

(* pending_approval_conflicts_by_task, for all but the approval itself *)
Conflicts(r) == {a \in Approvals \ {approval[r]} :
                    status[a] = "pending" /\ links[a] \cap wanted[r] # {}}

(* _ensure_no_pending_approval_conflicts: 409 on a conflict *)
Check(r) ==
    /\ pc[r] = "check"
    /\ IF Conflicts(r) = {}
       THEN Goto(r, Finish(r)) /\ UNCHANGED <<owner, sharers>>
       ELSE Goto(r, "idle") /\ EndTransaction(r)
    /\ UNCHANGED <<status, links, left, request, born, told, served>>

(* The flush of an approval (task_id is the first task) and of its links,  *)
(* one after the other: the foreign key waits for a FOR UPDATE. A guarded  *)
(* request holds its tasks FOR UPDATE itself and does not wait.            *)
ShareTask(r) ==
    /\ pc[r] = "share"
    /\ LET t == Head(left[r]) IN
        /\ owner[t] = None
        /\ sharers' = [sharers EXCEPT ![t] = @ \cup {r}]
    /\ left' = [left EXCEPT ![r] = Tail(@)]
    /\ IF Tail(left[r]) = <<>> THEN Goto(r, "create") ELSE UNCHANGED pc
    /\ UNCHANGED <<status, links, owner, request, born, told, served>>

(* r cannot go on before q's transaction ends. *)
WaitsFor(r, q) ==
    \/ pc[r] = "lock" /\ \E t \in wanted[r] :
         /\ owner[t] = q \/ q \in sharers[t]
         /\ \A u \in wanted[r] : u < t => owner[u] = r
         /\ owner[t] # r
    \/ pc[r] = "share" /\ owner[Head(left[r])] = q

(* Among those that r waits for, and those they wait for, is r.            *)
Deadlocked(r) == \A S \in SUBSET Requests :
    (\A p \in S \cup {r}, q \in Requests : WaitsFor(p, q) => q \in S) => r \in S

(* PostgreSQL aborts one of the transactions in a deadlock; the request is *)
(* answered with 500.                                                      *)
Abort(r) ==
    /\ Deadlocked(r)
    /\ EndTransaction(r)
    /\ Goto(r, "idle")
    /\ UNCHANGED <<status, links, left, request, born, told, served>>

(* Commit the approval and its links. *)
Insert(r) ==
    /\ pc[r] = "create"
    /\ status' = [status EXCEPT ![approval[r]] = target[r]]
    /\ links' = [links EXCEPT ![approval[r]] = wanted[r]]
    /\ born' = [born EXCEPT ![approval[r]] = target[r]]
    /\ EndTransaction(r)
    /\ Goto(r, "idle")
    /\ UNCHANGED <<left, request, told, served>>

(* The UPDATE names the status only if it differs from the one loaded. *)
Save(r) ==
    /\ pc[r] = "update"
    /\ status' = IF target[r] = loaded[r] THEN status
                 ELSE [status EXCEPT ![approval[r]] = target[r]]
    /\ EndTransaction(r)
    /\ Goto(r, "notify")
    /\ UNCHANGED <<links, left, request, born, told, served>>

(* Mutants: prior_status is read after the status was set; any status is   *)
(* told.                                                                   *)
ResolvedSinceSet(r, now) == now \in Resolved /\ now # target[r]
Changed(r, now) == now # loaded[r]

ResolvedByRequest(r, now) == now \in Resolved /\ now # loaded[r]

(* session.refresh, then _notify_lead_on_approval_resolution *)
Notify(r) ==
    /\ pc[r] = "notify"
    /\ LET now == status[approval[r]] IN
       IF ResolvedByRequest(r, now)
       THEN told' = [told EXCEPT ![approval[r]] = @ \cup {now}]
       ELSE UNCHANGED told
    /\ Goto(r, "idle")
    /\ UNCHANGED <<status, links, locks, request, born, served>>

Step(r) ==
    LockTask(r) \/ Check(r) \/ ShareTask(r) \/ Abort(r) \/ Insert(r) \/ Save(r) \/ Notify(r)

Next == \E r \in Requests : CreateApproval(r) \/ UpdateApproval(r) \/ Step(r)

Spec == Init /\ [][Next]_vars

(* A request in progress takes its next step; a row lock is granted to one *)
(* of those who wait for it, and a deadlock is found.                      *)
FairSpec == Spec /\ \A r \in Requests : WF_vars(Step(r))

-----------------------------------------------------------------------------
(* Properties *)

(* "Each task can have only one pending approval.", under concurrent       *)
(* creations, reopenings and resolutions.                                  *)
OnePendingPerTask ==
    \A a, b \in Approvals :
        status[a] = "pending" /\ status[b] = "pending" /\ links[a] \cap links[b] # {}
            => a = b

Circle(S) == S # {} /\ \A r \in S : \E q \in S \ {r} : WaitsFor(r, q)

(* lock_tasks_for_approval locks "in deterministic order"                  *)
(* (approval_task_links.py:130), so that the requests it serves never wait *)
(* for each other in a circle. Where a circle comes about, it goes through *)
(* one that inserts an approval without a check and whose list of tasks is *)
(* not in that order.                                                      *)
OnlyUnsortedInsertsDeadlock == \A S \in SUBSET Requests :
    Circle(S) => \E r \in S, t \in Tasks :
        pc[r] = "share" /\ r \in sharers[t] /\ t > Head(left[r])

(* Once its requests are over, the lead has been told of the outcome of    *)
(* every approval that an update resolved, however the updates raced.      *)
LeadToldOfOutcome ==
    \A a \in Approvals :
        (\A r \in Requests : pc[r] # "idle" => approval[r] # a)
        /\ status[a] \in Resolved /\ status[a] # born[a] => status[a] \in told[a]

(* Every request ends: its transaction gets the row locks it waits for     *)
(* since the others end theirs, or is aborted.                             *)
RequestsEnd == \A r \in Requests : pc[r] # "idle" ~> pc[r] = "idle"
=============================================================================
