------------------------------ MODULE TaskBoard ------------------------------
(***************************************************************************)
(* The tasks of a board and their dependencies (app/api/tasks.py and       *)
(* app/services/task_dependencies.py). A request loads a task, reads its   *)
(* dependencies and approvals without a lock, writes the columns it has    *)
(* changed, and returns dependents to the inbox when a dependency has been *)
(* reopened, in a second transaction unless the board lead asked.          *)
(***************************************************************************)
EXTENDS FiniteSets, Naturals

CONSTANTS
    Tasks, Requests,
    ApprovalForDone, ReviewBeforeDone, PendingBlocks,   \* rules of the board
    MaxRequests,   \* bound: requests, deletions and changes of approvals
    Same   \* a field the request does not name

VARIABLES
    rows,        \* tasks: status and assigned_agent_id
    deps,        \* task_dependencies, by task
    approvals,   \* statuses of the approvals linked to a task
    req,         \* the requests
    late,        \* history: requests that loaded a task before another write
    excused,     \* history: tasks at work while blocked, for a known cause
    raced,       \* history: two changes of dependencies overlapped
    served       \* those there were, up to MaxRequests

history == <<excused, raced>>
board == <<rows, deps, approvals, req, late, history, served>>

Statuses == {"inbox", "in_progress", "review", "done"}
Agents == {"nobody", "worker", "lead"}

ASSUME TaskBoardAssumption ==
    /\ {ApprovalForDone, ReviewBeforeDone, PendingBlocks} \subseteq BOOLEAN
    /\ MaxRequests \in Nat
    /\ Same \notin Statuses \cup Agents \cup Tasks

Rows == [status : Statuses \cup {"absent"}, agent : Agents]
Absent == [status |-> "absent", agent |-> "nobody"]

Actors == {"admin", "agent", "lead", "creator"}
Keep == {Same}   \* no dependencies are named

(* What may be asked for; bound: no request names all three fields.        *)
Fields(actor, statuses, agents, dependencies) ==
    [actor : {actor}, task : Tasks, status : statuses, agent : agents, deps : dependencies]
Asks ==
    Fields("creator", Statuses, {"nobody", "worker"}, SUBSET Tasks)
    \cup Fields("agent", Statuses, {Same}, {Keep})
    \cup {ask \in Fields("admin", Statuses \cup {Same}, {"worker", Same}, (SUBSET Tasks) \cup {Keep})
                \cup Fields("lead", {"inbox", "in_progress", "done", Same}, {"worker", Same},
                            (SUBSET Tasks) \cup {Keep}) :
            /\ ask.status = Same \/ ask.agent = Same \/ ask.deps = Keep
            /\ ask.status # Same \/ ask.agent # Same \/ ask.deps # Keep}

(* row: the task as loaded; new: as it is to be written; cut: the          *)
(* dependencies deleted for the new ones; gated: found in review,          *)
(* unblocked and approved.                                                 *)
Free == [pc |-> "idle", task |-> Same, actor |-> Same, row |-> Absent, new |-> Absent,
         deps |-> Keep, cut |-> {}, gated |-> FALSE]

TypeOK ==
    /\ rows \in [Tasks -> Rows]
    /\ \A t \in Tasks : rows[t].status = "absent" => rows[t] = Absent /\ deps[t] = {}
    /\ deps \in [Tasks -> SUBSET Tasks]
    /\ \A t \in Tasks : t \notin deps[t] /\ \A d \in deps[t] : rows[d].status # "absent"
    /\ approvals \in [Tasks -> SUBSET {"pending", "approved"}]
    /\ req \in [Requests -> [pc : {"idle", "check", "save", "reset"}, task : Tasks \cup {Same},
                             actor : Actors \cup {Same}, row : Rows, new : Rows,
                             deps : (SUBSET Tasks) \cup {Keep}, cut : SUBSET Tasks, gated : BOOLEAN]]
    /\ late \in [Requests -> SUBSET {"rows", "deps"}]
    /\ excused \subseteq Tasks /\ raced \in BOOLEAN
    /\ served \in 0..MaxRequests

Exists(t) == rows[t].status # "absent"

(* blocked_by_dependency_ids *)
BlockedBy(ds) == \E d \in ds : rows[d].status # "done"

AtWork(t) == rows[t].status # "inbox" \/ rows[t].agent # "nobody"
BlockedAtWork(t) ==
    Exists(t) /\ rows[t].status # "done" /\ BlockedBy(deps[t]) /\ AtWork(t)

(* A board at rest that the rules allow. *)
Init ==
    /\ rows \in [Tasks -> {Absent, [status |-> "inbox", agent |-> "nobody"],
                           [status |-> "in_progress", agent |-> "worker"],
                           [status |-> "review", agent |-> "lead"],
                           [status |-> "done", agent |-> "nobody"]}]
    /\ \E t, u \in Tasks : deps \in {[v \in Tasks |-> {}], [v \in Tasks |-> IF v = t THEN {u} ELSE {}]}
    /\ \A t \in Tasks : t \notin deps[t] /\ (deps[t] # {} => Exists(t)) /\ \A d \in deps[t] : Exists(d)
    /\ \A t \in Tasks : ~BlockedAtWork(t)
    /\ approvals = [t \in Tasks |-> IF Exists(t) THEN {"approved"} ELSE {}]
    /\ req = [r \in Requests |-> Free]
    /\ late = [r \in Requests |-> {}]
    /\ excused = {} /\ raced = FALSE
    /\ served = 0

-----------------------------------------------------------------------------
Wrote(kinds, r) == late' = [q \in Requests |->
    IF q = r \/ req[q].pc = "idle" THEN {} ELSE late[q] \cup kinds]

(* Of the tasks blocked at work, those that are so for a known cause.      *)
Excuse(tasks) == excused' = {t \in excused \cup tasks : BlockedAtWork(t)'}

Dependents(t) == {d \in Tasks : t \in deps[d]}

(* update_task, or create_task on a new id *)
Load(r, t) ==
    /\ req[r].pc = "idle" /\ served < MaxRequests
    /\ served' = served + 1
    /\ ~Exists(t) => \A q \in Requests : req[q].task # t
    /\ req' = [req EXCEPT ![r] = [Free EXCEPT !.pc = "check", !.task = t, !.row = rows[t]]]
    /\ late' = [late EXCEPT ![r] = {}]
    /\ UNCHANGED <<rows, deps, approvals, history>>

(* _has_cycle: some tasks each of which depends on another one of them.    *)
HasCycle(edges) == \E ts \in (SUBSET Tasks) \ {{}} : \A t \in ts : edges[t] \cap ts # {}

(* Mutant: only the edges that are there are looked at. *)
ValidBefore(ask) == ask.task \notin ask.deps /\ (\A d \in ask.deps : Exists(d)) /\ ~HasCycle(deps)

(* validate_dependency_update *)
Valid(ask) ==
    /\ ask.task \notin ask.deps /\ \A d \in ask.deps : Exists(d)
    /\ ask.deps # {} => ~HasCycle([deps EXCEPT ![ask.task] = ask.deps])

NewDeps(ask) == IF ask.deps = Keep THEN deps[ask.task] ELSE ask.deps

Given(value, default) == IF value = Same THEN default ELSE value

(* create_task: a blocked task starts in the inbox, unassigned.            *)
ByCreator(ask, row, blocked) ==
    {new \in {[status |-> ask.status, agent |-> ask.agent]} :
        blocked => new = [status |-> "inbox", agent |-> "nobody"]}

(* _apply_admin_task_rules, the updates, _assign_review_task_to_lead *)
ByAdmin(ask, row, blocked) ==
    LET status == Given(ask.status, row.status) IN
    IF blocked /\ ~(row.status = "done" /\ status = "done")
    THEN {[status |-> "inbox", agent |-> "nobody"]}
    ELSE {[status |-> status,
           agent |-> IF status = "review" /\ row.status # "review" THEN "lead"
                     ELSE Given(ask.agent, IF ask.status \in {"inbox", "review"} THEN "nobody"
                                           ELSE row.agent)]}

(* _apply_non_lead_agent_task_rules *)
ByAgent(ask, row, blocked) ==
    IF row.agent = "lead" \/ (ask.status # "inbox" /\ blocked) THEN {}
    ELSE {[status |-> ask.status,
           agent |-> CASE ask.status = "inbox" -> "nobody"
                       [] ask.status = "review" -> IF row.status = "review" THEN "nobody" ELSE "lead"
                       [] OTHER -> "worker"]}

(* _lead_apply_assignment and _lead_apply_status; work sent back goes to   *)
(* the last worker, if there was one.                                      *)
ByLead(ask, row, blocked) ==
    LET agent == Given(ask.agent, row.agent) IN
    IF blocked /\ (ask.status # Same \/ ask.agent # Same) THEN {}
    ELSE IF ask.status = Same THEN {[row EXCEPT !.agent = agent]}
    ELSE IF row.status = "review"
    THEN CASE ask.status = "done" -> {[status |-> "done", agent |-> agent]}
           [] ask.status = "inbox" -> {[status |-> "inbox", agent |-> a] : a \in {"nobody", "worker"}}
           [] OTHER -> {}
    ELSE IF row.status = "inbox" /\ ask.status = "in_progress" /\ ask.agent = "worker"
    THEN {[status |-> "in_progress", agent |-> "worker"]}
    ELSE {}

Outcomes(ask, row, blocked) ==
    CASE ask.actor = "creator" -> ByCreator(ask, row, blocked)
      [] ask.actor = "admin" -> ByAdmin(ask, row, blocked)
      [] ask.actor = "agent" -> ByAgent(ask, row, blocked)
      [] ask.actor = "lead" -> ByLead(ask, row, blocked)

(* The rules of the board for a change of status. *)
Passes(ask, row, new) ==
    /\ ~(/\ PendingBlocks /\ ask.status \notin {Same, row.status} /\ new.status # row.status
         /\ "pending" \in approvals[ask.task])
    /\ new.status = "done" /\ row.status # "done" =>
        /\ ReviewBeforeDone => row.status = "review"
        /\ ApprovalForDone => "approved" \in approvals[ask.task]

Refuse(r) == req' = [req EXCEPT ![r] = Free]

(* The reads and the rules; the rows of the old dependencies are deleted.  *)
Check(r, ask) ==
    /\ req[r].pc = "check" /\ ask.task = req[r].task
    /\ ask.actor = "creator" <=> req[r].row = Absent
    /\ LET row == req[r].row
           blocked == BlockedBy(NewDeps(ask))
           allowed == IF ask.deps # Keep /\ (row.status = "done" \/ ~Valid(ask)) THEN {}
                      ELSE {new \in Outcomes(ask, row, blocked) :
                                ask.actor # "creator" => Passes(ask, row, new)}
       IN IF allowed = {} THEN Refuse(r)
          ELSE \E new \in allowed : req' = [req EXCEPT ![r] =
                   [@ EXCEPT !.pc = "save", !.actor = ask.actor, !.new = new, !.deps = ask.deps,
                             !.cut = IF ask.deps = Keep THEN {} ELSE deps[ask.task],
                             !.gated = /\ row.status = "review" /\ ~blocked
                                       /\ "approved" \in approvals[ask.task]]]
    /\ UNCHANGED <<rows, deps, approvals, late, history, served>>

(* Mutant: all columns are written. *)
WholeRow(r, now) == req[r].new

(* The columns that differ from those loaded are written. *)
Written(r, now) ==
    [status |-> IF req[r].new.status = req[r].row.status THEN now.status ELSE req[r].new.status,
     agent |-> IF req[r].new.agent = req[r].row.agent THEN now.agent ELSE req[r].new.agent]

(* Mutant: dependents that are at work stay there. *)
IdleDependents(t) == {d \in Dependents(t) : rows[d].status = "inbox"}

(* _reconcile_dependents_for_dependency_toggle: those it resets.           *)
Resettable(t) == {d \in Dependents(t) : rows[d].status # "done"}

Reopened(old, new) == old = "done" /\ new # "done"

Reset(t, after) == [d \in Tasks |->
    IF d \in Resettable(t) THEN [status |-> "inbox", agent |-> "nobody"] ELSE after[d]]

(* A row that is gone, or an edge to one or one that is there already: 500. *)
CanSave(r) == LET t == req[r].task IN
    /\ req[r].actor # "creator" => Exists(t)
    /\ req[r].deps # Keep => /\ \A d \in req[r].deps : Exists(d)
                             /\ (deps[t] \ req[r].cut) \cap req[r].deps = {}

(* The commit, with the refresh after it; the lead's request commits the   *)
(* reset of the dependents along. Unless the task was reopened, the second *)
(* transaction of the others changes no task.                              *)
Save(r) ==
    /\ req[r].pc = "save"
    /\ LET t == req[r].task
           old == req[r].row.status
           row == Written(r, rows[t])
           after == [rows EXCEPT ![t] = row]
       IN IF ~CanSave(r)
          THEN Refuse(r) /\ UNCHANGED <<rows, deps, late, excused, raced>>
          ELSE /\ rows' = IF req[r].actor = "lead" /\ Reopened(old, req[r].new.status)
                          THEN Reset(t, after) ELSE after
               /\ deps' = IF req[r].deps = Keep THEN deps
                          ELSE [deps EXCEPT ![t] = (@ \ req[r].cut) \cup req[r].deps]
               /\ req' = [req EXCEPT ![r] = IF req[r].actor # "lead" /\ Reopened(old, row.status)
                                            THEN [Free EXCEPT !.pc = "reset", !.task = t]
                                            ELSE Free]
               /\ Wrote({"rows"} \cup (IF deps' # deps THEN {"deps"} ELSE {}), r)
               /\ Excuse(IF late[r] # {}
                         THEN {t} \cup {d \in Dependents(t) : rows[t].status = "done" /\ old # "done"}
                         ELSE IF req[r].actor = "lead" /\ req[r].deps # Keep THEN {t} ELSE {})
               /\ raced' = (raced \/ (req[r].deps # Keep /\ "deps" \in late[r]))
    /\ UNCHANGED <<approvals, served>>

(* The second transaction of the others. *)
ResetDependents(r) ==
    /\ req[r].pc = "reset"
    /\ rows' = Reset(req[r].task, rows)
    /\ UNCHANGED deps
    /\ req' = [req EXCEPT ![r] = Free]
    /\ Wrote(IF rows' # rows THEN {"rows"} ELSE {}, r)
    /\ Excuse({})
    /\ UNCHANGED <<approvals, raced, served>>

(* The process dies before the second transaction. *)
Crash(r) ==
    /\ req[r].pc = "reset"
    /\ req' = [req EXCEPT ![r] = Free]
    /\ late' = [late EXCEPT ![r] = {}]
    /\ UNCHANGED <<rows, deps, approvals, raced, served>>
    /\ Excuse(Dependents(req[r].task))

(* Mutant: the dependencies on a deleted task are left behind. *)
WithoutItsOwn(t) == [deps EXCEPT ![t] = {}]

Without(t) == [d \in Tasks |-> IF d = t THEN {} ELSE deps[d] \ {t}]

(* delete_task_and_related_records *)
Delete(t) ==
    /\ Exists(t) /\ served < MaxRequests
    /\ served' = served + 1
    /\ rows' = [rows EXCEPT ![t] = Absent]
    /\ deps' = Without(t)
    /\ approvals' = [approvals EXCEPT ![t] = {}]
    /\ late' = [q \in Requests |-> IF req[q].pc = "idle" THEN {} ELSE {"rows", "deps"}]
    /\ Excuse({})
    /\ UNCHANGED <<req, raced>>

(* Approvals are created, resolved and reopened meanwhile. *)
ChangeApprovals(t) ==
    /\ Exists(t) /\ served < MaxRequests
    /\ served' = served + 1
    /\ approvals' \in {[approvals EXCEPT ![t] = s] : s \in SUBSET {"pending", "approved"}}
    /\ UNCHANGED <<rows, deps, req, late, excused, raced>>

Next ==
    \/ \E r \in Requests, t \in Tasks : Load(r, t)
    \/ \E r \in Requests, ask \in Asks : Check(r, ask)
    \/ \E r \in Requests : Save(r) \/ ResetDependents(r) \/ Crash(r)
    \/ \E t \in Tasks : Delete(t) \/ ChangeApprovals(t)

Spec == Init /\ [][Next]_board

-----------------------------------------------------------------------------
(* The reset of a task's dependents is still to come. *)
ResetToCome(t) == \E r \in Requests : req[r].pc = "reset" /\ req[r].task \in deps[t]

(* A task with an open dependency that is not done waits in the inbox and  *)
(* is assigned to nobody, however tasks are moved, reopened, deleted and   *)
(* made to depend on each other. It is at work all the same only between   *)
(* the two transactions of a reopening or after a crash there, when a      *)
(* request saved the task after another had written, or reopened one of    *)
(* its dependencies without having seen it done, or when the lead gave a   *)
(* task at work a new dependency (tasks.py:489-499, 2277, 2413, 2471,      *)
(* 2737).                                                                  *)
BlockedTasksWait == \A t \in Tasks : BlockedAtWork(t) => ResetToCome(t) \/ t \in excused

(* No step makes a task done whose request had not found it in review,     *)
(* unblocked and approved, on a board with these rules: not a late write   *)
(* of a request that passed no gate either (tasks.py:217-259, 2667-2687).  *)
DoneIsGated == [][\A t \in Tasks :
    rows[t].status \notin {"done", "absent"} /\ rows'[t].status = "done" =>
        \E r \in Requests : /\ req[r].pc = "save" /\ req'[r].pc # "save"
                            /\ req[r].task = t /\ req[r].gated]_board

(* The dependencies have a cycle only after two changes of them have       *)
(* overlapped: each was checked against edges the other changed            *)
(* (task_dependencies.py:170-187).                                         *)
CyclesNeedARace == HasCycle(deps) => raced
=============================================================================
