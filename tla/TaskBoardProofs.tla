---------------------------- MODULE TaskBoardProofs ----------------------------
(***************************************************************************)
(* Proofs about TaskBoard for any tasks, any number of concurrent requests *)
(* and any bounds: its type invariant, that tasks get done only through    *)
(* the gates, that dependencies form cycles only after a race, and that    *)
(* blocked tasks wait.                                                     *)
(***************************************************************************)
EXTENDS TaskBoard, TLAPS

(* What a request remembers of its task and is about to write. *)
RequestOK(r) ==
    /\ req[r].pc # "idle" => req[r].task \in Tasks
    /\ req[r].row.status = "absent" => req[r].row = Absent
    /\ req[r].pc = "save" =>
        /\ req[r].actor = "creator" <=> req[r].row = Absent
        /\ req[r].new.status # "absent"
        /\ req[r].task \notin req[r].deps

(* The id of a task under creation is nobody else's. *)
CreatesNew(r) == req[r].pc \in {"check", "save"} /\ req[r].row = Absent =>
    /\ ~Exists(req[r].task)
    /\ \A q \in Requests \ {r} : req[q].task # req[r].task

Waiting == [status |-> "inbox", agent |-> "nobody"]

(* What a request for a blocked task may write: the task waits, is done,   *)
(* or the lead left it as it was and named other dependencies.             *)
WaitsIfBlocked(actor, ds, new) ==
    new = Waiting \/ new.status = "done" \/ (actor = "lead" /\ ds # Keep)

(* The rules of a board under which the theorem on the gates holds. *)
Strict == ApprovalForDone /\ ReviewBeforeDone

(* What a request may write as done has passed the gates. *)
Gated(r) ==
    /\ Strict /\ req[r].pc = "save" /\ req[r].row # Absent
    /\ req[r].new.status = "done" /\ req[r].row.status # "done"
    => req[r].gated

(* New dependencies were checked against those there are, unless these     *)
(* have changed since the task was loaded.                                 *)
EdgesChecked(r) ==
    req[r].pc = "save" /\ req[r].deps # Keep /\ "deps" \notin late[r] =>
        /\ req[r].cut = deps[req[r].task]
        /\ req[r].deps # {} => ~HasCycle([deps EXCEPT ![req[r].task] = req[r].deps])

(* TypeOK in parts: the tasks and their dependencies, the requests with what *)
(* they remember, and the rest.                                             *)
Req == [pc : {"idle", "check", "save", "reset"}, task : Tasks \cup {Same},
        actor : Actors \cup {Same}, row : Rows, new : Rows,
        deps : (SUBSET Tasks) \cup {Keep}, cut : SUBSET Tasks, gated : BOOLEAN]

TasksOK ==
    /\ rows \in [Tasks -> Rows] /\ deps \in [Tasks -> SUBSET Tasks]
    /\ \A t \in Tasks : rows[t].status = "absent" => rows[t] = Absent /\ deps[t] = {}
    /\ \A t \in Tasks : t \notin deps[t] /\ \A d \in deps[t] : rows[d].status # "absent"

RestOK ==
    /\ approvals \in [Tasks -> SUBSET {"pending", "approved"}]
    /\ late \in [Requests -> SUBSET {"rows", "deps"}]
    /\ excused \subseteq Tasks /\ raced \in BOOLEAN
    /\ served \in 0..MaxRequests

RequestsOK == req \in [Requests -> Req] /\ \A r \in Requests : RequestOK(r)

TypeInv == TasksOK /\ RestOK /\ RequestsOK

-----------------------------------------------------------------------------
(* What may be asked for. *)
LEMMA AskFields ==
    ASSUME NEW ask \in Asks
    PROVE  /\ ask.actor \in Actors /\ ask.task \in Tasks
           /\ ask.status \in Statuses \cup {Same}
           /\ ask.agent \in {"nobody", "worker", Same}
           /\ ask.deps \in (SUBSET Tasks) \cup {Keep}
           /\ ask.actor \in {"creator", "agent"} => ask.status \in Statuses
           /\ ask.actor = "creator" => ask.agent # Same
           /\ ask.actor \in {"admin", "lead"} =>
                  ask.status # Same \/ ask.agent # Same \/ ask.deps # Keep
  <1>0. ask.actor \in {"admin", "lead"} => ask.status # Same \/ ask.agent # Same \/ ask.deps # Keep
    BY DEF Asks, Fields
  <1>1. CASE ask \in Fields("creator", Statuses, {"nobody", "worker"}, SUBSET Tasks)
    BY <1>1, TaskBoardAssumption DEF Fields, Actors, Agents
  <1>2. CASE ask \in Fields("agent", Statuses, {Same}, {Keep})
    BY <1>2 DEF Fields, Actors
  <1>3. CASE ask \in Fields("admin", Statuses \cup {Same}, {"worker", Same}, (SUBSET Tasks) \cup {Keep})
    BY <1>0, <1>3 DEF Fields, Actors
  <1>4. CASE ask \in Fields("lead", {"inbox", "in_progress", "done", Same}, {"worker", Same},
                            (SUBSET Tasks) \cup {Keep})
    BY <1>0, <1>4 DEF Fields, Actors, Statuses
  <1> QED BY <1>1, <1>2, <1>3, <1>4 DEF Asks

LEMMA CreatorWrites ==
    ASSUME NEW ask \in Asks, ask.actor = "creator", NEW row, NEW blocked \in BOOLEAN,
           NEW new \in ByCreator(ask, row, blocked)
    PROVE  new \in Rows /\ new.status # "absent" /\ (blocked => new = Waiting)
  BY AskFields DEF ByCreator, Rows, Statuses, Agents, Waiting

LEMMA AdminWrites ==
    ASSUME NEW ask \in Asks, NEW row \in Rows, row.status # "absent",
           NEW blocked \in BOOLEAN, NEW new \in ByAdmin(ask, row, blocked)
    PROVE  /\ new \in Rows /\ new.status # "absent"
           /\ new.status = "done" /\ row.status # "done" => ~blocked
           /\ blocked => new = Waiting \/ new.status = "done"
  BY AskFields, TaskBoardAssumption DEF ByAdmin, Given, Rows, Statuses, Agents, Waiting

LEMMA AgentWrites ==
    ASSUME NEW ask \in Asks, ask.actor = "agent", NEW row \in Rows,
           NEW blocked \in BOOLEAN, NEW new \in ByAgent(ask, row, blocked)
    PROVE  /\ new \in Rows /\ new.status # "absent"
           /\ new.status = "done" => ~blocked
           /\ blocked => new = Waiting
  BY AskFields DEF ByAgent, Rows, Statuses, Agents, Waiting

LEMMA LeadWrites ==
    ASSUME NEW ask \in Asks, ask.actor = "lead", NEW row \in Rows, row.status # "absent",
           NEW blocked \in BOOLEAN, NEW new \in ByLead(ask, row, blocked)
    PROVE  /\ new \in Rows /\ new.status # "absent"
           /\ new.status = "done" /\ row.status # "done" => ~blocked
           /\ blocked => ask.deps # Keep
  BY AskFields, TaskBoardAssumption DEF ByLead, Given, Rows, Statuses, Agents

(* Whoever asks, what is written is a row, done only when unblocked, and   *)
(* one that waits when blocked.                                            *)
LEMMA OutcomeWrites ==
    ASSUME NEW ask \in Asks, NEW row \in Rows, row.status = "absent" => row = Absent,
           ask.actor = "creator" <=> row = Absent,
           NEW blocked \in BOOLEAN, NEW new \in Outcomes(ask, row, blocked)
    PROVE  /\ new \in Rows /\ new.status # "absent"
           /\ new.status = "done" /\ row.status # "done" /\ row # Absent => ~blocked
           /\ blocked => WaitsIfBlocked(ask.actor, ask.deps, new)
  <1> USE DEF WaitsIfBlocked
  <1>1. CASE ask.actor = "creator"
    BY <1>1, CreatorWrites DEF Outcomes
  <1>2. CASE ask.actor = "admin"
    BY <1>2, AdminWrites DEF Outcomes
  <1>3. CASE ask.actor = "agent"
    BY <1>3, AgentWrites DEF Outcomes
  <1>4. CASE ask.actor = "lead"
    BY <1>4, LeadWrites DEF Outcomes
  <1> QED BY <1>1, <1>2, <1>3, <1>4, AskFields DEF Actors

-----------------------------------------------------------------------------
LEMMA FreeType ==
    /\ Absent \in Rows /\ Free \in Req /\ Free.pc = "idle" /\ Free.task \notin Tasks
    /\ Free.row = Absent
  BY TaskBoardAssumption DEF Free, Absent, Rows, Agents, Req

LEMMA TypeInit == Init => TypeInv
  <1> SUFFICES ASSUME Init PROVE TypeInv
    OBVIOUS
  <1>1. rows \in [Tasks -> Rows]
    BY DEF Init, Rows, Statuses, Agents, Absent
  <1>2. deps \in [Tasks -> SUBSET Tasks] /\ \A t \in Tasks : \A u \in deps[t] : Exists(t) /\ Exists(u)
    BY DEF Init
  <1>3. \A t \in Tasks : rows[t].status = "absent" => rows[t] = Absent
    BY DEF Init
  <1>4. \A t \in Tasks : t \notin deps[t]
    BY DEF Init
  <1>5. approvals \in [Tasks -> SUBSET {"pending", "approved"}]
    BY DEF Init
  <1>6. req \in [Requests -> Req] /\ \A r \in Requests : RequestOK(r)
    BY FreeType DEF Init, RequestOK
  <1>7. /\ late \in [Requests -> SUBSET {"rows", "deps"}]
        /\ excused \subseteq Tasks /\ raced \in BOOLEAN
        /\ served \in 0..MaxRequests
    <2>1. 0 \in 0..MaxRequests
      BY TaskBoardAssumption
    <2> QED BY <2>1 DEF Init
  <1> QED BY <1>1, <1>2, <1>3, <1>4, <1>5, <1>6, <1>7
       DEF TypeInv, TasksOK, RestOK, RequestsOK, Exists

LEMMA RefuseOK ==
    ASSUME RequestsOK, NEW r \in Requests, Refuse(r)
    PROVE  RequestsOK'
  BY FreeType DEF Refuse, RequestsOK, RequestOK

LEMMA LoadType ==
    ASSUME TypeInv, NEW r \in Requests, NEW t \in Tasks, Load(r, t)
    PROVE  TypeInv'
  <1>1. TasksOK' /\ RestOK'
    <2>1. served' \in 0..MaxRequests
      BY TaskBoardAssumption DEF TypeInv, RestOK, Load
    <2> QED BY <2>1 DEF Load, TypeInv, TasksOK, RestOK, history
  <1>2. RequestsOK'
    <2> DEFINE new == [Free EXCEPT !.pc = "check", !.task = t, !.row = rows[t]]
    <2>1. new \in Req /\ new.pc = "check" /\ new.task = t /\ new.row = rows[t]
      BY FreeType DEF Free, Req, TypeInv, TasksOK
    <2>2. req' = [req EXCEPT ![r] = new]
      BY DEF Load
    <2> QED BY <2>1, <2>2 DEF TypeInv, RequestsOK, RequestOK, TasksOK
  <1> QED BY <1>1, <1>2 DEF TypeInv

(* A request that passes the check is about to save what it may write, has *)
(* its new dependencies validated, and found the gates open if it is to    *)
(* make the task done.                                                     *)
LEMMA CheckPasses ==
    ASSUME TypeInv, NEW r \in Requests, NEW ask \in Asks, Check(r, ask)
    PROVE  \/ Refuse(r)
           \/ /\ req[r].pc = "check" /\ ask.task = req[r].task
              /\ ask.actor = "creator" <=> req[r].row = Absent
              /\ ask.deps # Keep => Valid(ask)
              /\ \E new \in Rows, gated \in BOOLEAN :
                    /\ new.status # "absent"
                    /\ ApprovalForDone /\ ReviewBeforeDone /\ req[r].row # Absent
                       /\ new.status = "done" /\ req[r].row.status # "done" => gated
                    /\ BlockedBy(NewDeps(ask)) => WaitsIfBlocked(ask.actor, ask.deps, new)
                    /\ req' = [req EXCEPT ![r] = [req[r] EXCEPT
                          !.pc = "save", !.actor = ask.actor, !.new = new, !.deps = ask.deps,
                          !.cut = IF ask.deps = Keep THEN {} ELSE deps[ask.task], !.gated = gated]]
  <1> DEFINE row == req[r].row
             blocked == BlockedBy(NewDeps(ask))
             gated == row.status = "review" /\ ~blocked /\ "approved" \in approvals[ask.task]
             allowed == IF ask.deps # Keep /\ (row.status = "done" \/ ~Valid(ask)) THEN {}
                        ELSE {new \in Outcomes(ask, row, blocked) :
                                ask.actor # "creator" => Passes(ask, row, new)}
             saved(new) == [req EXCEPT ![r] = [req[r] EXCEPT
                          !.pc = "save", !.actor = ask.actor, !.new = new, !.deps = ask.deps,
                          !.cut = IF ask.deps = Keep THEN {} ELSE deps[ask.task], !.gated = gated]]
  <1>1. /\ req[r].pc = "check" /\ ask.task = req[r].task
        /\ ask.actor = "creator" <=> row = Absent
        /\ row \in Rows /\ (row.status = "absent" => row = Absent)
        /\ blocked \in BOOLEAN
    BY DEF Check, TypeInv, RequestsOK, RequestOK, Req, BlockedBy
  <1>2. Refuse(r) \/ \E new \in allowed : req' = saved(new)
    BY DEF Check, TypeInv, RequestsOK
  <1>3. ASSUME NEW new \in allowed
        PROVE  /\ new \in Rows /\ new.status # "absent"
               /\ ask.deps # Keep => Valid(ask)
               /\ ApprovalForDone /\ ReviewBeforeDone /\ row # Absent
                  /\ new.status = "done" /\ row.status # "done" => gated
               /\ blocked => WaitsIfBlocked(ask.actor, ask.deps, new)
    <2>1. new \in Outcomes(ask, row, blocked) /\ (ask.deps # Keep => Valid(ask))
          /\ (ask.actor # "creator" => Passes(ask, row, new))
      OBVIOUS
    <2>2. /\ new \in Rows /\ new.status # "absent"
          /\ new.status = "done" /\ row.status # "done" /\ row # Absent => ~blocked
          /\ blocked => WaitsIfBlocked(ask.actor, ask.deps, new)
      BY <1>1, <2>1, OutcomeWrites
    <2>3. /\ ApprovalForDone /\ ReviewBeforeDone /\ row # Absent
             /\ new.status = "done" /\ row.status # "done" => gated
      BY <1>1, <2>1, <2>2 DEF Passes
    <2> QED BY <2>1, <2>2, <2>3
  <1>4. gated \in BOOLEAN
    OBVIOUS
  <1> HIDE DEF allowed, gated, row
  <1> QED BY <1>1, <1>2, <1>3, <1>4 DEF row

LEMMA CheckType ==
    ASSUME TypeInv, NEW r \in Requests, NEW ask \in Asks, Check(r, ask)
    PROVE  TypeInv'
  <1>1. TasksOK' /\ RestOK'
    BY DEF Check, TypeInv, TasksOK, RestOK, history
  <1>2. RequestsOK'
    <2>1. CASE Refuse(r)
      BY <2>1, RefuseOK DEF TypeInv
    <2>2. CASE ~Refuse(r)
      <3>1. /\ req[r].pc = "check" /\ ask.task = req[r].task
            /\ ask.actor = "creator" <=> req[r].row = Absent
            /\ ask.deps # Keep => ask.task \notin ask.deps
        BY <2>2, CheckPasses DEF Valid
      <3>2. PICK new \in Rows, gated \in BOOLEAN :
              /\ new.status # "absent"
              /\ ApprovalForDone /\ ReviewBeforeDone /\ req[r].row # Absent
                 /\ new.status = "done" /\ req[r].row.status # "done" => gated
              /\ BlockedBy(NewDeps(ask)) => WaitsIfBlocked(ask.actor, ask.deps, new)
              /\ req' = [req EXCEPT ![r] = [req[r] EXCEPT
                    !.pc = "save", !.actor = ask.actor, !.new = new, !.deps = ask.deps,
                    !.cut = IF ask.deps = Keep THEN {} ELSE deps[ask.task], !.gated = gated]]
        BY <2>2, CheckPasses
      <3> DEFINE cut == IF ask.deps = Keep THEN {} ELSE deps[ask.task]
      <3>3. ask.task \notin ask.deps
        BY <3>1, AskFields, TaskBoardAssumption DEF Keep
      <3>4. cut \in SUBSET Tasks
        BY AskFields DEF TypeInv, TasksOK
      <3>5. ask.actor \in Actors /\ ask.deps \in (SUBSET Tasks) \cup {Keep} /\ ask.task \in Tasks
        BY AskFields
      <3>6. req \in [Requests -> Req] /\ req[r] \in Req /\ \A q \in Requests : RequestOK(q)
        BY DEF TypeInv, RequestsOK
      <3>7. req' = [req EXCEPT ![r] = [req[r] EXCEPT
                  !.pc = "save", !.actor = ask.actor, !.new = new, !.deps = ask.deps,
                  !.cut = cut, !.gated = gated]]
        BY <3>2
      <3> HIDE DEF cut
      <3> DEFINE saved == [req[r] EXCEPT
                  !.pc = "save", !.actor = ask.actor, !.new = new, !.deps = ask.deps,
                  !.cut = cut, !.gated = gated]
      <3>8. /\ saved \in Req /\ saved.pc = "save" /\ saved.actor = ask.actor
            /\ saved.new = new /\ saved.deps = ask.deps
            /\ saved.row = req[r].row /\ saved.task = req[r].task
        BY <3>4, <3>5, <3>6 DEF Req
      <3>9. req' = [req EXCEPT ![r] = saved]
        BY <3>7
      <3> HIDE DEF saved
      <3> QED BY <3>1, <3>2, <3>3, <3>5, <3>6, <3>8, <3>9 DEF RequestsOK, RequestOK
    <2> QED BY <2>1, <2>2
  <1> QED BY <1>1, <1>2 DEF TypeInv

LEMMA WroteType ==
    ASSUME RestOK, NEW kinds \in SUBSET {"rows", "deps"}, NEW r \in Requests, Wrote(kinds, r)
    PROVE  late' \in [Requests -> SUBSET {"rows", "deps"}]
  BY DEF Wrote, RestOK

LEMMA ExcuseType ==
    ASSUME RestOK, NEW tasks \in SUBSET Tasks, Excuse(tasks)
    PROVE  excused' \subseteq Tasks
  BY DEF Excuse, RestOK

(* A reset changes only tasks that are there, as a task that is not there  *)
(* depends on nothing.                                                     *)
LEMMA ResetType ==
    ASSUME TasksOK, NEW t \in Tasks, NEW after \in [Tasks -> Rows]
    PROVE  /\ Reset(t, after) \in [Tasks -> Rows]
           /\ \A d \in Tasks : Reset(t, after)[d].status = "absent" => Reset(t, after)[d] = after[d]
           /\ \A d \in Tasks : after[d].status # "absent" => Reset(t, after)[d].status # "absent"
  <1> DEFINE waiting == [status |-> "inbox", agent |-> "nobody"]
  <1>1. waiting \in Rows /\ waiting.status # "absent"
    BY DEF Rows, Statuses, Agents
  <1> QED BY <1>1 DEF Reset

(* What a request saves is a task that is there. *)
LEMMA WrittenType ==
    ASSUME TypeInv, NEW r \in Requests, req[r].pc = "save", CanSave(r)
    PROVE  /\ req[r].task \in Tasks
           /\ Written(r, rows[req[r].task]) \in Rows
           /\ Written(r, rows[req[r].task]).status # "absent"
  <1> DEFINE t == req[r].task
  <1>1. t \in Tasks /\ rows[t] \in Rows /\ req[r].new \in Rows /\ req[r].row \in Rows
        /\ req[r].new.status # "absent"
    BY DEF TypeInv, TasksOK, RequestsOK, RequestOK, Req
  <1>2. req[r].actor = "creator" => req[r].row.status = "absent"
    BY DEF TypeInv, RequestsOK, RequestOK, Absent
  <1>3. req[r].actor # "creator" => rows[t].status # "absent"
    BY DEF CanSave, Exists
  <1> HIDE DEF t
  <1>4. Written(r, rows[t]) \in Rows
    BY <1>1 DEF Written, Rows
  <1>5. Written(r, rows[t]).status # "absent"
    BY <1>1, <1>2, <1>3 DEF Written
  <1> QED BY <1>1, <1>4, <1>5 DEF t

LEMMA SaveType ==
    ASSUME TypeInv, NEW r \in Requests, Save(r)
    PROVE  TypeInv'
  <1> DEFINE t == req[r].task
             row == Written(r, rows[t])
             after == [rows EXCEPT ![t] = row]
  <1>1. CASE ~CanSave(r)
    <2>1. Refuse(r) /\ UNCHANGED <<rows, deps, late, excused, raced, approvals, served>>
      BY <1>1 DEF Save
    <2> QED BY <2>1, RefuseOK DEF TypeInv, TasksOK, RestOK
  <1>2. CASE CanSave(r)
    <2>1. req[r].pc = "save" /\ t \in Tasks /\ row \in Rows /\ row.status # "absent"
      BY <1>2, WrittenType DEF Save
    <2>2. /\ rows' \in {after, Reset(t, after)}
          /\ deps' = IF req[r].deps = Keep THEN deps
                     ELSE [deps EXCEPT ![t] = (deps[t] \ req[r].cut) \cup req[r].deps]
          /\ \E done \in {Free, [Free EXCEPT !.pc = "reset", !.task = t]} : req' = [req EXCEPT ![r] = done]
          /\ \E kinds \in SUBSET {"rows", "deps"} : Wrote(kinds, r)
          /\ \E tasks \in SUBSET Tasks : Excuse(tasks)
          /\ raced' = (raced \/ (req[r].deps # Keep /\ "deps" \in late[r]))
          /\ UNCHANGED <<approvals, served>>
      <3>1. \A p \in Tasks : {t} \cup {d \in Dependents(p) : rows[p].status = "done" /\ req[r].row.status # "done"}
                              \in SUBSET Tasks
        BY <2>1 DEF Dependents
      <3>2. \E tasks \in SUBSET Tasks : Excuse(tasks)
        BY <1>2, <2>1, <3>1 DEF Save
      <3> QED BY <1>2, <2>1, <3>2 DEF Save, TypeInv, TasksOK
    <2>3. RestOK'
      <3>1. late' \in [Requests -> SUBSET {"rows", "deps"}]
        BY <2>2, WroteType DEF TypeInv
      <3>2. excused' \subseteq Tasks
        BY <2>1, <2>2, ExcuseType DEF TypeInv
      <3> QED BY <2>2, <3>1, <3>2 DEF TypeInv, RestOK
    <2>4. TasksOK'
      <3>1. after \in [Tasks -> Rows]
        BY <2>1 DEF TypeInv, TasksOK
      <3>2. /\ \A d \in Tasks : after[d].status = "absent" => d # t /\ after[d] = rows[d]
            /\ \A d \in Tasks : rows[d].status # "absent" => after[d].status # "absent"
            /\ after[t].status # "absent"
        BY <2>1 DEF TypeInv, TasksOK
      <3>3. /\ rows' \in [Tasks -> Rows]
            /\ \A d \in Tasks : rows'[d].status = "absent" => d # t /\ rows'[d] = rows[d]
            /\ \A d \in Tasks : rows[d].status # "absent" => rows'[d].status # "absent"
        <4>1. CASE rows' = after
          BY <3>1, <3>2, <4>1
        <4>2. CASE rows' = Reset(t, after)
          <5> HIDE DEF after
          <5> QED BY <2>1, <3>1, <3>2, <4>2, ResetType DEF TypeInv
        <4> QED BY <2>2, <4>1, <4>2
      <3> HIDE DEF row, after
      <3>4. req[r].deps # Keep => /\ req[r].deps \in SUBSET Tasks /\ t \notin req[r].deps
                                  /\ \A d \in req[r].deps : rows[d].status # "absent"
        BY <1>2, <2>1 DEF CanSave, Exists, TypeInv, RequestsOK, RequestOK, Req
      <3>5. /\ deps' \in [Tasks -> SUBSET Tasks] /\ \A d \in Tasks : d # t => deps'[d] = deps[d]
            /\ \A d \in Tasks : d \notin deps'[d]
            /\ \A d \in Tasks : \A e \in deps'[d] : rows[e].status # "absent"
        <4>1. CASE req[r].deps = Keep
          BY <2>2, <4>1 DEF TypeInv, TasksOK
        <4>2. CASE req[r].deps # Keep
          <5>1. deps' = [deps EXCEPT ![t] = (deps[t] \ req[r].cut) \cup req[r].deps]
            BY <2>2, <4>2
          <5>2. /\ deps \in [Tasks -> SUBSET Tasks] /\ \A d \in Tasks : d \notin deps[d]
                /\ \A d \in Tasks : \A e \in deps[d] : rows[e].status # "absent"
            BY DEF TypeInv, TasksOK
          <5> HIDE DEF t
          <5> QED BY <2>1, <3>4, <4>2, <5>1, <5>2
        <4> QED BY <4>1, <4>2
      <3> HIDE DEF t
      <3>6. \A d \in Tasks : rows'[d].status = "absent" => rows'[d] = Absent /\ deps'[d] = {}
        BY <3>3, <3>5 DEF TypeInv, TasksOK
      <3> QED BY <3>3, <3>5, <3>6 DEF TasksOK
    <2>5. RequestsOK'
      <3>1. \A done \in {Free, [Free EXCEPT !.pc = "reset", !.task = t]} :
               done \in Req /\ done.row = Absent /\ done.pc # "save" /\ (done.pc # "idle" => done.task \in Tasks)
        BY <2>1, FreeType DEF Free, Req
      <3> QED BY <2>2, <3>1 DEF TypeInv, RequestsOK, RequestOK
    <2> QED BY <2>3, <2>4, <2>5 DEF TypeInv
  <1> QED BY <1>1, <1>2

LEMMA ResetDependentsType ==
    ASSUME TypeInv, NEW r \in Requests, ResetDependents(r)
    PROVE  TypeInv'
  <1>1. req[r].task \in Tasks /\ rows' = Reset(req[r].task, rows) /\ deps' = deps
    BY DEF ResetDependents, TypeInv, RequestsOK, RequestOK
  <1>2. TasksOK'
    BY <1>1, ResetType DEF TypeInv, TasksOK
  <1>3. RestOK'
    <2>1. late' \in [Requests -> SUBSET {"rows", "deps"}]
      BY WroteType DEF TypeInv, ResetDependents
    <2>2. excused' \subseteq Tasks
      BY ExcuseType DEF TypeInv, ResetDependents
    <2> QED BY <2>1, <2>2 DEF TypeInv, RestOK, ResetDependents
  <1>4. RequestsOK'
    BY RefuseOK DEF TypeInv, ResetDependents, Refuse
  <1> QED BY <1>2, <1>3, <1>4 DEF TypeInv

LEMMA CrashType ==
    ASSUME TypeInv, NEW r \in Requests, Crash(r)
    PROVE  TypeInv'
  <1>1. TasksOK'
    BY DEF Crash, TypeInv, TasksOK
  <1>2. RestOK'
    <2>1. late' \in [Requests -> SUBSET {"rows", "deps"}]
      BY DEF TypeInv, RestOK, Crash
    <2>2. excused' \subseteq Tasks
      BY ExcuseType DEF TypeInv, Crash, Dependents
    <2> QED BY <2>1, <2>2 DEF TypeInv, RestOK, Crash
  <1>3. RequestsOK'
    BY RefuseOK DEF TypeInv, Crash, Refuse
  <1> QED BY <1>1, <1>2, <1>3 DEF TypeInv

LEMMA DeleteType ==
    ASSUME TypeInv, NEW t \in Tasks, Delete(t)
    PROVE  TypeInv'
  <1>1. TasksOK'
    <2>1. rows' = [rows EXCEPT ![t] = Absent] /\ deps' = [d \in Tasks |-> IF d = t THEN {} ELSE deps[d] \ {t}]
      BY DEF Delete, Without
    <2> QED BY <2>1, FreeType DEF TypeInv, TasksOK
  <1>2. RestOK'
    <2>1. late' \in [Requests -> SUBSET {"rows", "deps"}]
      BY DEF Delete
    <2>2. excused' \subseteq Tasks
      BY ExcuseType DEF TypeInv, Delete
    <2>3. served' \in 0..MaxRequests
      BY TaskBoardAssumption DEF TypeInv, RestOK, Delete
    <2> QED BY <2>1, <2>2, <2>3 DEF TypeInv, RestOK, Delete
  <1>3. RequestsOK'
    BY DEF TypeInv, Delete, RequestsOK, RequestOK
  <1> QED BY <1>1, <1>2, <1>3 DEF TypeInv

LEMMA ChangeApprovalsType ==
    ASSUME TypeInv, NEW t \in Tasks, ChangeApprovals(t)
    PROVE  TypeInv'
  <1>1. served' \in 0..MaxRequests
    BY TaskBoardAssumption DEF TypeInv, RestOK, ChangeApprovals
  <1>2. approvals' \in [Tasks -> SUBSET {"pending", "approved"}]
    BY DEF TypeInv, RestOK, ChangeApprovals
  <1> QED BY <1>1, <1>2 DEF ChangeApprovals, TypeInv, TasksOK, RestOK, RequestsOK, RequestOK

LEMMA TypeNext == TypeInv /\ [Next]_board => TypeInv'
  <1> SUFFICES ASSUME TypeInv, [Next]_board PROVE TypeInv'
    OBVIOUS
  <1>1. CASE UNCHANGED board
    BY <1>1 DEF board, history, TypeInv, TasksOK, RestOK, RequestsOK, RequestOK
  <1>2. ASSUME NEW r \in Requests, NEW t \in Tasks, Load(r, t) PROVE TypeInv'
    BY <1>2, LoadType
  <1>3. ASSUME NEW r \in Requests, NEW ask \in Asks, Check(r, ask) PROVE TypeInv'
    BY <1>3, CheckType
  <1>4. ASSUME NEW r \in Requests, Save(r) PROVE TypeInv'
    BY <1>4, SaveType
  <1>5. ASSUME NEW r \in Requests, ResetDependents(r) PROVE TypeInv'
    BY <1>5, ResetDependentsType
  <1>6. ASSUME NEW r \in Requests, Crash(r) PROVE TypeInv'
    BY <1>6, CrashType
  <1>7. ASSUME NEW t \in Tasks, Delete(t) PROVE TypeInv'
    BY <1>7, DeleteType
  <1>8. ASSUME NEW t \in Tasks, ChangeApprovals(t) PROVE TypeInv'
    BY <1>8, ChangeApprovalsType
  <1> QED BY <1>1, <1>2, <1>3, <1>4, <1>5, <1>6, <1>7, <1>8 DEF Next

LEMMA TypeInvariant == Spec => []TypeInv
  BY TypeInit, TypeNext, PTL DEF Spec

(* Whatever requests and deletions do, tasks, dependencies and what        *)
(* requests remember of them keep their types; in particular no            *)
(* dependency leads to a task that is gone, and no task depends on itself. *)
THEOREM TypeCorrect == Spec => []TypeOK
  <1>1. TypeInv => TypeOK
    BY DEF TypeInv, TasksOK, RestOK, RequestsOK, Req, TypeOK
  <1> QED BY <1>1, TypeInvariant, PTL

-----------------------------------------------------------------------------
(* What the requests under way know of the board stays true.               *)
Knows == \A r \in Requests : CreatesNew(r) /\ Gated(r) /\ EdgesChecked(r)

LEMMA KnowsInit == Init => Knows
  BY FreeType DEF Init, Knows, CreatesNew, Gated, EdgesChecked

LEMMA IdleKnows ==
    ASSUME NEW r \in Requests, req'[r].pc \in {"idle", "reset"}
    PROVE  CreatesNew(r)' /\ Gated(r)' /\ EdgesChecked(r)'
  BY DEF CreatesNew, Gated, EdgesChecked

(* Requests that do not move keep what they know if no task appears where  *)
(* they create theirs, and changed dependencies are noted.                 *)
LEMMA OthersKnow ==
    ASSUME TypeInv, Knows, NEW r \in Requests, req'[r] = req[r],
           req[r].pc \in {"check", "save"} /\ req[r].row = Absent =>
               /\ ~Exists(req[r].task)'
               /\ \A q \in Requests \ {r} : req'[q].task # req[r].task,
           req[r].pc = "save" => \/ "deps" \in late'[r]
                                 \/ deps' = deps /\ late[r] \subseteq late'[r]
    PROVE  CreatesNew(r)' /\ Gated(r)' /\ EdgesChecked(r)'
  BY DEF Knows, CreatesNew, Gated, EdgesChecked

LEMMA LoadKnows ==
    ASSUME TypeInv, Knows, NEW r \in Requests, NEW t \in Tasks, Load(r, t)
    PROVE  Knows'
  <1> DEFINE new == [Free EXCEPT !.pc = "check", !.task = t, !.row = rows[t]]
  <1>1. /\ req' = [req EXCEPT ![r] = new] /\ rows' = rows /\ deps' = deps
        /\ late' = [late EXCEPT ![r] = {}]
        /\ ~Exists(t) => \A q \in Requests : req[q].task # t
    BY DEF Load
  <1>2. new.pc = "check" /\ new.task = t /\ new.row = rows[t]
    BY DEF Free
  <1>3. req \in [Requests -> Req] /\ late \in [Requests -> SUBSET {"rows", "deps"}]
    BY DEF TypeInv, RequestsOK, RestOK
  <1> HIDE DEF new
  <1>4. CreatesNew(r)' /\ Gated(r)' /\ EdgesChecked(r)'
    BY <1>1, <1>2, <1>3 DEF CreatesNew, Gated, EdgesChecked, Exists, Absent
  <1>5. ASSUME NEW q \in Requests, q # r PROVE CreatesNew(q)' /\ Gated(q)' /\ EdgesChecked(q)'
    <2>1. req'[q] = req[q] /\ late'[q] = late[q] /\ req'[r].task = t
      BY <1>1, <1>2, <1>3, <1>5
    <2>2. req[q].pc \in {"check", "save"} /\ req[q].row = Absent =>
              /\ ~Exists(req[q].task) /\ req[q].task # t
              /\ \A p \in Requests \ {q} : req[p].task # req[q].task
      BY <1>1 DEF Knows, CreatesNew
    <2>3. \A p \in Requests : p # r => req'[p] = req[p]
      BY <1>1, <1>3
    <2> QED BY <1>1, <2>1, <2>2, <2>3, OthersKnow DEF Exists
  <1> QED BY <1>4, <1>5 DEF Knows

LEMMA CheckKnows ==
    ASSUME TypeInv, Knows, NEW r \in Requests, NEW ask \in Asks, Check(r, ask)
    PROVE  Knows'
  <1>1. rows' = rows /\ deps' = deps /\ late' = late /\ req \in [Requests -> Req]
        /\ (\A q \in Requests : req[q].pc # "idle" => req[q].task \in Tasks)
    BY DEF Check, TypeInv, RequestsOK, RequestOK
  <1>2. /\ \A q \in Requests : q # r => req'[q] = req[q]
        /\ req'[r].task = req[r].task \/ req'[r].task \notin Tasks
        /\ CreatesNew(r)' /\ Gated(r)' /\ EdgesChecked(r)'
    <2>1. CASE Refuse(r)
      BY <1>1, <2>1, IdleKnows, FreeType DEF Refuse
    <2>2. CASE ~Refuse(r)
      <3>1. /\ req[r].pc = "check" /\ ask.task = req[r].task
            /\ ask.actor = "creator" <=> req[r].row = Absent
            /\ ask.deps # Keep => Valid(ask)
        BY <2>2, CheckPasses
      <3>2. PICK new \in Rows, gated \in BOOLEAN :
              /\ new.status # "absent"
              /\ ApprovalForDone /\ ReviewBeforeDone /\ req[r].row # Absent
                 /\ new.status = "done" /\ req[r].row.status # "done" => gated
              /\ BlockedBy(NewDeps(ask)) => WaitsIfBlocked(ask.actor, ask.deps, new)
              /\ req' = [req EXCEPT ![r] = [req[r] EXCEPT
                    !.pc = "save", !.actor = ask.actor, !.new = new, !.deps = ask.deps,
                    !.cut = IF ask.deps = Keep THEN {} ELSE deps[ask.task], !.gated = gated]]
        BY <2>2, CheckPasses
      <3> DEFINE cut == IF ask.deps = Keep THEN {} ELSE deps[ask.task]
      <3>3. cut = IF ask.deps = Keep THEN {} ELSE deps[ask.task]
        OBVIOUS
      <3>4. req' = [req EXCEPT ![r] = [req[r] EXCEPT
                  !.pc = "save", !.actor = ask.actor, !.new = new, !.deps = ask.deps,
                  !.cut = cut, !.gated = gated]]
        BY <3>2
      <3> HIDE DEF cut
      <3> DEFINE saved == [req[r] EXCEPT
                  !.pc = "save", !.actor = ask.actor, !.new = new, !.deps = ask.deps,
                  !.cut = cut, !.gated = gated]
      <3>5. /\ saved.pc = "save" /\ saved.row = req[r].row /\ saved.task = req[r].task
            /\ saved.new = new /\ saved.deps = ask.deps /\ saved.cut = cut /\ saved.gated = gated
        BY <1>1 DEF Req
      <3>6. req' = [req EXCEPT ![r] = saved]
        BY <3>4
      <3> HIDE DEF saved
      <3>7. req'[r] = saved /\ \A q \in Requests : q # r => req'[q] = req[q]
        BY <1>1, <3>6
      <3>8. CreatesNew(r)'
        BY <1>1, <3>1, <3>5, <3>7 DEF Knows, CreatesNew, Exists
      <3>9. Gated(r)'
        BY <3>2, <3>5, <3>7 DEF Gated, Strict
      <3>10. EdgesChecked(r)'
        BY <1>1, <3>1, <3>3, <3>5, <3>7 DEF EdgesChecked, Valid
      <3> QED BY <3>5, <3>7, <3>8, <3>9, <3>10
    <2> QED BY <2>1, <2>2
  <1>3. ASSUME NEW q \in Requests, q # r PROVE CreatesNew(q)' /\ Gated(q)' /\ EdgesChecked(q)'
    <2>1. req'[q] = req[q] /\ late[q] \subseteq late'[q]
      BY <1>1, <1>2, <1>3
    <2>2. req[q].pc \in {"check", "save"} /\ req[q].row = Absent =>
              /\ ~Exists(req[q].task) /\ req[q].task \in Tasks
              /\ \A p \in Requests \ {q} : req[p].task # req[q].task
      BY <1>1 DEF Knows, CreatesNew
    <2> QED BY <1>1, <1>2, <2>1, <2>2, OthersKnow DEF Exists
  <1> QED BY <1>2, <1>3 DEF Knows

(* What the end of a request of a task leaves to the others. *)
LEMMA EndKnows ==
    ASSUME TypeInv, Knows, NEW r \in Requests,
           req[r].pc \in {"save", "reset"},
           NEW done \in Req, done.pc \in {"idle", "reset"}, done.task \in {Same, req[r].task},
           req' = [req EXCEPT ![r] = done],
           \A d \in Tasks : d # req[r].task /\ ~Exists(d) => ~Exists(d)',
           \A q \in Requests : q # r /\ req[q].pc = "save" =>
               "deps" \in late'[q] \/ (deps' = deps /\ late[q] \subseteq late'[q])
    PROVE  Knows'
  <1>1. /\ req \in [Requests -> Req] /\ Same \notin Tasks
        /\ (\A q \in Requests : req[q].pc # "idle" => req[q].task \in Tasks)
    BY TaskBoardAssumption DEF TypeInv, RequestsOK, RequestOK
  <1>2. req'[r] = done /\ \A q \in Requests : q # r => req'[q] = req[q]
    BY <1>1
  <1>3. CreatesNew(r)' /\ Gated(r)' /\ EdgesChecked(r)'
    BY <1>2, IdleKnows
  <1>4. ASSUME NEW q \in Requests, q # r PROVE CreatesNew(q)' /\ Gated(q)' /\ EdgesChecked(q)'
    <2>1. req[q].pc \in {"check", "save"} /\ req[q].row = Absent =>
              /\ ~Exists(req[q].task) /\ req[q].task \in Tasks /\ req[q].task # req[r].task
              /\ \A p \in Requests \ {q} : req[p].task # req[q].task
      BY <1>1, <1>4 DEF Knows, CreatesNew
    <2>2. req[q].pc \in {"check", "save"} /\ req[q].row = Absent =>
              /\ ~Exists(req[q].task)'
              /\ \A p \in Requests \ {q} : req'[p].task # req[q].task
      BY <1>1, <1>2, <1>4, <2>1 DEF Exists
    <2> QED BY <1>2, <1>4, <2>2, OthersKnow
  <1> QED BY <1>3, <1>4 DEF Knows

LEMMA SaveKnows ==
    ASSUME TypeInv, Knows, NEW r \in Requests, Save(r)
    PROVE  Knows'
  <1> DEFINE t == req[r].task
             after == [rows EXCEPT ![t] = Written(r, rows[t])]
  <1>1. req[r].pc = "save" /\ t \in Tasks /\ rows \in [Tasks -> Rows]
    BY DEF Save, TypeInv, TasksOK, RequestsOK, RequestOK
  <1>2. CASE ~CanSave(r)
    <2>1. req' = [req EXCEPT ![r] = Free] /\ UNCHANGED <<rows, deps, late>>
      BY <1>2 DEF Save, Refuse
    <2>2. Free \in Req /\ Free.pc = "idle" /\ Free.task = Same
      BY FreeType DEF Free
    <2> QED BY <1>1, <2>1, <2>2, EndKnows DEF Exists
  <1>3. CASE CanSave(r)
    <2>1. /\ rows' \in {after, Reset(t, after)}
          /\ \E done \in {Free, [Free EXCEPT !.pc = "reset", !.task = t]} : req' = [req EXCEPT ![r] = done]
          /\ Wrote({"rows"} \cup (IF deps' # deps THEN {"deps"} ELSE {}), r)
      BY <1>3 DEF Save
    <2>2. after \in [Tasks -> Rows] /\ \A d \in Tasks : d # t => after[d] = rows[d]
      BY <1>1, <1>3, WrittenType
    <2>3. \A d \in Tasks : d # t /\ ~Exists(d) => rows'[d].status = "absent"
      <3> HIDE DEF after, t
      <3>1. CASE rows' = after
        BY <2>2, <3>1 DEF Exists
      <3>2. CASE rows' = Reset(t, after)
        <4>1. \A d \in Tasks : ~Exists(d) => d \notin Resettable(t)
          BY DEF Exists, Resettable, Dependents, TypeInv, TasksOK
        <4> QED BY <2>2, <3>2, <4>1 DEF Reset, Exists
      <3> QED BY <2>1, <3>1, <3>2
    <2>4. \A d \in Tasks : d # req[r].task /\ ~Exists(d) => ~Exists(d)'
      BY <2>3 DEF Exists
    <2>5. \A q \in Requests : q # r /\ req[q].pc = "save" =>
              "deps" \in late'[q] \/ (deps' = deps /\ late[q] \subseteq late'[q])
      BY <2>1 DEF Wrote
    <2>6. \A done \in {Free, [Free EXCEPT !.pc = "reset", !.task = t]} :
              done \in Req /\ done.pc \in {"idle", "reset"} /\ done.task \in {Same, t}
      BY <1>1, FreeType DEF Free, Req
    <2> QED BY <1>1, <2>1, <2>4, <2>5, <2>6, EndKnows
  <1> QED BY <1>2, <1>3

LEMMA ResetKnows ==
    ASSUME TypeInv, Knows, NEW r \in Requests, ResetDependents(r) \/ Crash(r)
    PROVE  Knows'
  <1>1. /\ req[r].pc = "reset" /\ req' = [req EXCEPT ![r] = Free] /\ deps' = deps
        /\ rows' \in {rows, Reset(req[r].task, rows)}
    BY DEF ResetDependents, Crash
  <1>2. \A d \in Tasks : ~Exists(d) => rows'[d].status = "absent"
    BY <1>1 DEF Exists, Reset, Resettable, Dependents, TypeInv, TasksOK
  <1>3. \A q \in Requests : q # r /\ req[q].pc = "save" => late[q] \subseteq late'[q]
    BY DEF ResetDependents, Crash, Wrote, TypeInv, RestOK
  <1>4. Free \in Req /\ Free.pc = "idle" /\ Free.task = Same
    BY FreeType DEF Free
  <1>5. \A d \in Tasks : d # req[r].task /\ ~Exists(d) => ~Exists(d)'
    BY <1>2 DEF Exists
  <1> QED BY <1>1, <1>3, <1>4, <1>5, EndKnows

LEMMA DeleteKnows ==
    ASSUME TypeInv, Knows, NEW t \in Tasks, Delete(t) \/ ChangeApprovals(t)
    PROVE  Knows'
  <1>1. req' = req /\ \A d \in Tasks : ~Exists(d) => rows'[d].status = "absent"
    BY DEF Delete, ChangeApprovals, TypeInv, TasksOK, Exists, Absent
  <1>2. \A q \in Requests : req[q].pc = "save" =>
            "deps" \in late'[q] \/ (deps' = deps /\ late[q] \subseteq late'[q])
    BY DEF Delete, ChangeApprovals
  <1>3. ASSUME NEW q \in Requests PROVE CreatesNew(q)' /\ Gated(q)' /\ EdgesChecked(q)'
    <2>1. req[q].pc \in {"check", "save"} /\ req[q].row = Absent =>
              /\ ~Exists(req[q].task)'
              /\ \A p \in Requests \ {q} : req'[p].task # req[q].task
      BY <1>1 DEF Knows, CreatesNew, Exists, TypeInv, RequestsOK, RequestOK
    <2> QED BY <1>1, <1>2, <2>1, OthersKnow
  <1> QED BY <1>3 DEF Knows

LEMMA KnowsNext == TypeInv /\ Knows /\ [Next]_board => Knows'
  <1> SUFFICES ASSUME TypeInv, Knows, [Next]_board PROVE Knows'
    OBVIOUS
  <1>1. CASE UNCHANGED board
    BY <1>1 DEF board, history, Knows, CreatesNew, Gated, EdgesChecked, Exists
  <1>2. ASSUME NEW r \in Requests, NEW t \in Tasks, Load(r, t) PROVE Knows'
    BY <1>2, LoadKnows
  <1>3. ASSUME NEW r \in Requests, NEW ask \in Asks, Check(r, ask) PROVE Knows'
    BY <1>3, CheckKnows
  <1>4. ASSUME NEW r \in Requests, Save(r) PROVE Knows'
    BY <1>4, SaveKnows
  <1>5. ASSUME NEW r \in Requests, ResetDependents(r) \/ Crash(r) PROVE Knows'
    BY <1>5, ResetKnows
  <1>6. ASSUME NEW t \in Tasks, Delete(t) \/ ChangeApprovals(t) PROVE Knows'
    BY <1>6, DeleteKnows
  <1> QED BY <1>1, <1>2, <1>3, <1>4, <1>5, <1>6 DEF Next

LEMMA KnowsInvariant == Spec => [](TypeInv /\ Knows)
  BY TypeInit, TypeNext, KnowsInit, KnowsNext, PTL DEF Spec

-----------------------------------------------------------------------------
(* A step that makes a task done saves a request that found it in review.  *)
LEMMA DoneStep ==
    ASSUME Strict, TypeInv, Knows, [Next]_board, NEW t \in Tasks,
           rows[t].status \notin {"done", "absent"}, rows'[t].status = "done"
    PROVE  \E r \in Requests : /\ req[r].pc = "save" /\ req'[r].pc # "save"
                               /\ req[r].task = t /\ req[r].gated
  <1>1. rows' # rows
    OBVIOUS
  <1>2. ASSUME NEW d \in Tasks, NEW after, Reset(d, after)[t].status = "done"
        PROVE  after[t].status = "done"
    BY <1>2 DEF Reset
  <1>3. ASSUME NEW r \in Requests, Save(r)
        PROVE  req[r].pc = "save" /\ req'[r].pc # "save" /\ req[r].task = t /\ req[r].gated
    <2> DEFINE row == Written(r, rows[req[r].task])
               after == [rows EXCEPT ![req[r].task] = row]
    <2>1. req[r].pc = "save" /\ CanSave(r) /\ req[r].task \in Tasks
      BY <1>1, <1>3 DEF Save, TypeInv, RequestsOK, RequestOK
    <2>2. /\ rows' \in {after, Reset(req[r].task, after)}
          /\ \E done \in {Free, [Free EXCEPT !.pc = "reset", !.task = req[r].task]} :
                 req' = [req EXCEPT ![r] = done]
      BY <1>3, <2>1 DEF Save
    <2>3. req'[r].pc # "save"
      BY <2>2, FreeType DEF Free, TypeInv, RequestsOK
    <2>4. after[t].status = "done"
      <3> HIDE DEF after
      <3> QED BY <1>2, <2>1, <2>2
    <2>5. req[r].task = t /\ row.status = "done"
      <3> HIDE DEF row
      <3> QED BY <2>4 DEF TypeInv, TasksOK
    <2>6. req[r].new.status = "done" /\ req[r].row.status # "done"
      BY <2>5 DEF Written
    <2>7. req[r].row # Absent
      BY <2>1, <2>5 DEF Knows, CreatesNew, Exists
    <2> QED BY <2>1, <2>3, <2>5, <2>6, <2>7 DEF Knows, Gated
  <1>4. ASSUME NEW r \in Requests, ResetDependents(r) PROVE FALSE
    BY <1>2, <1>4 DEF ResetDependents, TypeInv, RequestsOK, RequestOK
  <1>5. ASSUME NEW d \in Tasks, Delete(d) PROVE FALSE
    BY <1>5 DEF Delete, Absent, TypeInv, TasksOK
  <1>6. PICK r \in Requests : Save(r)
    <2>1. UNCHANGED board => rows' = rows
      BY DEF board
    <2>2. \A q \in Requests, d \in Tasks : Load(q, d) => rows' = rows
      BY DEF Load
    <2>3. \A q \in Requests, ask \in Asks : Check(q, ask) => rows' = rows
      BY DEF Check
    <2>4. \A q \in Requests : Crash(q) => rows' = rows
      BY DEF Crash
    <2>5. \A d \in Tasks : ChangeApprovals(d) => rows' = rows
      BY DEF ChangeApprovals
    <2> QED BY <1>1, <1>4, <1>5, <2>1, <2>2, <2>3, <2>4, <2>5 DEF Next
  <1> QED BY <1>3, <1>6

(* On a board that requires an approval and a review before done, no step  *)
(* makes a task done unless its request had found the task in review,      *)
(* unblocked and approved, however many requests overlap.                  *)
THEOREM GatesHold ==
    ASSUME ApprovalForDone, ReviewBeforeDone
    PROVE  Spec => DoneIsGated
  <1>1. TypeInv /\ Knows /\ [Next]_board =>
          [\A t \in Tasks :
              rows[t].status \notin {"done", "absent"} /\ rows'[t].status = "done" =>
                  \E r \in Requests : /\ req[r].pc = "save" /\ req'[r].pc # "save"
                                      /\ req[r].task = t /\ req[r].gated]_board
    BY DoneStep DEF Strict
  <1> QED BY <1>1, KnowsInvariant, PTL DEF Spec, DoneIsGated

-----------------------------------------------------------------------------
LEMMA FewerEdges ==
    ASSUME NEW old \in [Tasks -> SUBSET Tasks], NEW new \in [Tasks -> SUBSET Tasks],
           \A t \in Tasks : new[t] \subseteq old[t], HasCycle(new)
    PROVE  HasCycle(old)
  <1>1. PICK ts \in (SUBSET Tasks) \ {{}} : \A t \in ts : new[t] \cap ts # {}
    BY DEF HasCycle
  <1>2. \A t \in ts : old[t] \cap ts # {}
    BY <1>1
  <1> QED BY <1>1, <1>2 DEF HasCycle

LEMMA AcyclicInit == Init => CyclesNeedARace
  <1> SUFFICES ASSUME Init, HasCycle(deps) PROVE FALSE
    BY DEF CyclesNeedARace
  <1>1. PICK ts \in (SUBSET Tasks) \ {{}} : \A t \in ts : deps[t] \cap ts # {}
    BY DEF HasCycle
  <1>2. PICK t \in Tasks, u \in Tasks :
            deps \in {[v \in Tasks |-> {}], [v \in Tasks |-> IF v = t THEN {u} ELSE {}]}
    BY DEF Init
  <1>3. \A v \in ts : v = t /\ u \in ts
    BY <1>1, <1>2
  <1>4. t \in deps[t]
    BY <1>1, <1>2, <1>3
  <1> QED BY <1>4 DEF Init

(* A task left without dependencies closes no cycle. *)
LEMMA NoEdgeNoCycle ==
    ASSUME NEW edges \in [Tasks -> SUBSET Tasks], NEW t \in Tasks, ~HasCycle(edges)
    PROVE  ~HasCycle([edges EXCEPT ![t] = {}])
  <1> DEFINE cut == [edges EXCEPT ![t] = {}]
  <1> SUFFICES ASSUME NEW ts \in (SUBSET Tasks) \ {{}}, \A u \in ts : cut[u] \cap ts # {}
               PROVE  FALSE
    BY DEF HasCycle
  <1>1. t \notin ts
    OBVIOUS
  <1>2. \A u \in ts : edges[u] \cap ts # {}
    BY <1>1
  <1> QED BY <1>2 DEF HasCycle

LEMMA AcyclicNext == TypeInv /\ Knows /\ CyclesNeedARace /\ [Next]_board => CyclesNeedARace'
  <1> SUFFICES ASSUME TypeInv, Knows, CyclesNeedARace, [Next]_board PROVE CyclesNeedARace'
    OBVIOUS
  <1>1. ASSUME NEW r \in Requests, Save(r) PROVE CyclesNeedARace'
    <2>1. CASE deps' = deps
      BY <1>1, <2>1 DEF Save, CyclesNeedARace
    <2>2. CASE deps' # deps /\ ~raced'
      <3> DEFINE t == req[r].task
      <3>1. /\ req[r].pc = "save" /\ req[r].deps # Keep /\ "deps" \notin late[r]
            /\ deps' = [deps EXCEPT ![t] = (deps[t] \ req[r].cut) \cup req[r].deps]
        BY <1>1, <2>2 DEF Save, TypeInv, TasksOK
      <3>2. /\ req[r].cut = deps[t]
            /\ req[r].deps # {} => ~HasCycle([deps EXCEPT ![t] = req[r].deps])
        BY <3>1 DEF Knows, EdgesChecked
      <3>3. deps' = [deps EXCEPT ![t] = req[r].deps]
        <4>1. (deps[t] \ req[r].cut) \cup req[r].deps = {} \cup req[r].deps
          BY <3>2
        <4>2. {} \cup req[r].deps = req[r].deps
          BY <3>1 DEF TypeInv, RequestsOK, Req
        <4> QED BY <3>1, <4>1, <4>2
      <3>4. deps \in [Tasks -> SUBSET Tasks] /\ t \in Tasks
        BY <3>1 DEF TypeInv, TasksOK, RequestsOK, RequestOK
      <3>5. CASE req[r].deps = {}
        <4>1. ~HasCycle(deps)
          BY <1>1, <2>2 DEF Save, CyclesNeedARace
        <4> HIDE DEF t
        <4> QED BY <3>3, <3>4, <3>5, <4>1, NoEdgeNoCycle DEF CyclesNeedARace
      <3> QED BY <3>2, <3>3, <3>5 DEF CyclesNeedARace
    <2>3. CASE raced'
      BY <2>3 DEF CyclesNeedARace
    <2> QED BY <2>1, <2>2, <2>3
  <1>2. ASSUME NEW t \in Tasks, Delete(t) PROVE CyclesNeedARace'
    <2>1. deps' = Without(t) /\ raced' = raced
      BY <1>2 DEF Delete
    <2>2. /\ Without(t) \in [Tasks -> SUBSET Tasks] /\ deps \in [Tasks -> SUBSET Tasks]
          /\ \A d \in Tasks : Without(t)[d] \subseteq deps[d]
      BY DEF Without, TypeInv, TasksOK
    <2>3. HasCycle(Without(t)) => HasCycle(deps)
      BY <2>2, FewerEdges
    <2> QED BY <2>1, <2>3 DEF CyclesNeedARace
  <1>3. CASE deps' = deps /\ raced' = raced
    BY <1>3 DEF CyclesNeedARace
  <1>4. UNCHANGED board => deps' = deps /\ raced' = raced
    BY DEF board, history
  <1>5. \A q \in Requests, d \in Tasks : Load(q, d) => deps' = deps /\ raced' = raced
    BY DEF Load, history
  <1>6. \A q \in Requests, ask \in Asks : Check(q, ask) => deps' = deps /\ raced' = raced
    BY DEF Check, history
  <1>7. \A q \in Requests : ResetDependents(q) \/ Crash(q) => deps' = deps /\ raced' = raced
    BY DEF ResetDependents, Crash
  <1>8. \A d \in Tasks : ChangeApprovals(d) => deps' = deps /\ raced' = raced
    BY DEF ChangeApprovals
  <1> QED BY <1>1, <1>2, <1>3, <1>4, <1>5, <1>6, <1>7, <1>8 DEF Next

(* Dependencies form a cycle only after a change of them was saved over    *)
(* another that it was not checked against.                                *)
THEOREM CyclesAreRaces == Spec => []CyclesNeedARace
  BY AcyclicInit, AcyclicNext, KnowsInvariant, PTL DEF Spec

-----------------------------------------------------------------------------
(* Blocked tasks wait. A request nobody has written past knows its task,   *)
(* and what it is about to write lets a blocked task wait.                 *)
NewEdges(r) == IF req[r].deps = Keep THEN deps[req[r].task] ELSE req[r].deps

Unmoved(r) ==
    late[r] = {} =>
        /\ req[r].pc \in {"check", "save"} => req[r].row = rows[req[r].task]
        /\ req[r].pc = "save" /\ BlockedBy(NewEdges(r)) =>
               WaitsIfBlocked(req[r].actor, req[r].deps, req[r].new)

(* For every open dependency of a task at work, not only for one of them, *)
(* the reset of the dependents is to come.                                *)
ResetUnderWay(d) == \E r \in Requests : req[r].pc = "reset" /\ req[r].task = d

OpenCovered == \A t \in Tasks : BlockedAtWork(t) /\ t \notin excused =>
    \A d \in deps[t] : rows[d].status # "done" => ResetUnderWay(d)

AllUnmoved == \A r \in Requests : Unmoved(r)

LEMMA WaitInit == Init => AllUnmoved /\ OpenCovered
  BY FreeType DEF Init, AllUnmoved, Unmoved, OpenCovered

LEMMA UnmovedStays ==
    ASSUME NEW r \in Requests, Unmoved(r), req'[r] = req[r],
           late'[r] = {} => \/ req[r].pc = "idle"
                            \/ late[r] = {} /\ rows' = rows /\ deps' = deps
    PROVE  Unmoved(r)'
  BY DEF Unmoved, BlockedBy, NewEdges

LEMMA UnmovedCheck ==
    ASSUME TypeInv, AllUnmoved, NEW r \in Requests, NEW ask \in Asks, Check(r, ask)
    PROVE  AllUnmoved'
  <1>1. rows' = rows /\ deps' = deps /\ late' = late /\ req \in [Requests -> Req]
    BY DEF Check, TypeInv, RequestsOK
  <1>2. CASE Refuse(r)
    <2>1. req'[r].pc = "idle" /\ \A q \in Requests \ {r} : req'[q] = req[q]
      BY <1>1, <1>2, FreeType DEF Refuse
    <2> QED BY <1>1, <2>1, UnmovedStays DEF AllUnmoved, Unmoved
  <1>3. CASE ~Refuse(r)
    <2>1. req[r].pc = "check" /\ ask.task = req[r].task
      BY <1>3, CheckPasses
    <2>2. PICK new \in Rows, gated \in BOOLEAN :
              /\ new.status # "absent"
              /\ ApprovalForDone /\ ReviewBeforeDone /\ req[r].row # Absent
                 /\ new.status = "done" /\ req[r].row.status # "done" => gated
              /\ BlockedBy(NewDeps(ask)) => WaitsIfBlocked(ask.actor, ask.deps, new)
              /\ req' = [req EXCEPT ![r] = [req[r] EXCEPT
                    !.pc = "save", !.actor = ask.actor, !.new = new, !.deps = ask.deps,
                    !.cut = IF ask.deps = Keep THEN {} ELSE deps[ask.task], !.gated = gated]]
      BY <1>3, CheckPasses
    <2>3. /\ req'[r].row = req[r].row /\ req'[r].task = req[r].task
          /\ req'[r].actor = ask.actor /\ req'[r].deps = ask.deps /\ req'[r].new = new
          /\ \A q \in Requests \ {r} : req'[q] = req[q]
      <3> DEFINE cut == IF ask.deps = Keep THEN {} ELSE deps[ask.task]
                 saved == [req[r] EXCEPT
                    !.pc = "save", !.actor = ask.actor, !.new = new, !.deps = ask.deps,
                    !.cut = cut, !.gated = gated]
      <3>1. req' = [req EXCEPT ![r] = saved]
        BY <2>2
      <3> HIDE DEF cut
      <3>2. /\ saved.row = req[r].row /\ saved.task = req[r].task
            /\ saved.actor = ask.actor /\ saved.deps = ask.deps /\ saved.new = new
        BY <1>1 DEF Req
      <3> HIDE DEF saved
      <3> QED BY <1>1, <3>1, <3>2
    <2>4. Unmoved(r)'
      <3>1. NewEdges(r)' = NewDeps(ask)
        BY <1>1, <2>1, <2>3 DEF NewEdges, NewDeps
      <3>2. BlockedBy(NewEdges(r))' = BlockedBy(NewDeps(ask))
        BY <1>1, <3>1 DEF BlockedBy
      <3> QED BY <1>1, <2>1, <2>2, <2>3, <3>2 DEF AllUnmoved, Unmoved
    <2> QED BY <1>1, <2>3, <2>4, UnmovedStays DEF AllUnmoved
  <1> QED BY <1>2, <1>3

LEMMA UnmovedNext == TypeInv /\ AllUnmoved /\ [Next]_board => AllUnmoved'
  <1> SUFFICES ASSUME TypeInv, AllUnmoved, [Next]_board PROVE AllUnmoved'
    OBVIOUS
  <1>0. req \in [Requests -> Req] /\ late \in [Requests -> SUBSET {"rows", "deps"}]
    BY DEF TypeInv, RequestsOK, RestOK
  <1>1. CASE UNCHANGED board
    BY <1>1, UnmovedStays DEF board, AllUnmoved
  <1>2. ASSUME NEW r \in Requests, NEW t \in Tasks, Load(r, t) PROVE AllUnmoved'
    <2> DEFINE new == [Free EXCEPT !.pc = "check", !.task = t, !.row = rows[t]]
    <2>1. /\ req' = [req EXCEPT ![r] = new] /\ late' = [late EXCEPT ![r] = {}]
          /\ rows' = rows /\ deps' = deps
      BY <1>2 DEF Load
    <2>2. new.pc = "check" /\ new.task = t /\ new.row = rows[t]
      BY DEF Free
    <2> HIDE DEF new
    <2>3. Unmoved(r)'
      BY <1>0, <2>1, <2>2 DEF Unmoved
    <2> QED BY <1>0, <2>1, <2>3, UnmovedStays DEF AllUnmoved
  <1>3. ASSUME NEW r \in Requests, NEW ask \in Asks, Check(r, ask) PROVE AllUnmoved'
    BY <1>3, UnmovedCheck
  <1>4. ASSUME NEW r \in Requests, Save(r) PROVE AllUnmoved'
    <2>1. /\ \E end \in {Free, [Free EXCEPT !.pc = "reset", !.task = req[r].task]} :
                 req' = [req EXCEPT ![r] = end]
          /\ UNCHANGED <<rows, deps, late>> \/ \E kinds : Wrote({"rows"} \cup kinds, r)
      BY <1>4 DEF Save, Refuse
    <2>2. Unmoved(r)'
      BY <1>0, <2>1, FreeType DEF Free, Unmoved
    <2>3. \A q \in Requests \ {r} : req'[q] = req[q]
      BY <1>0, <2>1
    <2>4. \A q \in Requests \ {r} : late'[q] = {} =>
              req[q].pc = "idle" \/ (late[q] = {} /\ rows' = rows /\ deps' = deps)
      BY <2>1 DEF Wrote
    <2> QED BY <2>2, <2>3, <2>4, UnmovedStays DEF AllUnmoved
  <1>5. ASSUME NEW r \in Requests, ResetDependents(r) \/ Crash(r) PROVE AllUnmoved'
    <2>1. /\ req' = [req EXCEPT ![r] = Free] /\ deps' = deps
          /\ \/ late' = [late EXCEPT ![r] = {}] /\ rows' = rows
             \/ Wrote(IF rows' # rows THEN {"rows"} ELSE {}, r)
      BY <1>5 DEF ResetDependents, Crash
    <2>2. Unmoved(r)'
      BY <1>0, <2>1, FreeType DEF Unmoved
    <2>3. \A q \in Requests \ {r} : req'[q] = req[q]
      BY <1>0, <2>1
    <2>4. \A q \in Requests \ {r} : late'[q] = {} =>
              req[q].pc = "idle" \/ (late[q] = {} /\ rows' = rows /\ deps' = deps)
      BY <1>0, <2>1 DEF Wrote
    <2> QED BY <2>2, <2>3, <2>4, UnmovedStays DEF AllUnmoved
  <1>6. ASSUME NEW t \in Tasks, Delete(t) \/ ChangeApprovals(t) PROVE AllUnmoved'
    BY <1>6, UnmovedStays DEF Delete, ChangeApprovals, AllUnmoved
  <1> QED BY <1>1, <1>2, <1>3, <1>4, <1>5, <1>6 DEF Next

(* A task that stays out of the excused stays blocked at work if only its  *)
(* own columns and open dependencies are as they were.                     *)
LEMMA CoveredStays ==
    ASSUME TypeInv, OpenCovered, NEW t \in Tasks,
           rows'[t] = rows[t], BlockedAtWork(t)', t \notin excused,
           NEW d \in deps[t], rows[d].status # "done"
    PROVE  ResetUnderWay(d)
  BY DEF OpenCovered, BlockedAtWork, BlockedBy, Exists, AtWork

LEMMA ExcuseKeeps ==
    ASSUME NEW tasks, Excuse(tasks), NEW t, t \notin excused', BlockedAtWork(t)'
    PROVE  t \notin excused /\ t \notin tasks
  BY DEF Excuse

(* Neither a save nor a reset after it puts a task to work that waits, or  *)
(* reopens a task other than the one saved.                                *)
LEMMA SavedRows ==
    ASSUME TypeInv, NEW t \in Tasks, NEW row \in Rows,
           rows' \in {[rows EXCEPT ![t] = row], Reset(t, [rows EXCEPT ![t] = row])}
    PROVE  /\ rows'[t] = row
           /\ \A u \in Tasks \ {t} : rows'[u] = rows[u] \/ rows'[u] = Waiting
           /\ \A u \in Tasks \ {t} : rows[u].status = "done" => rows'[u].status = "done"
  <1> DEFINE after == [rows EXCEPT ![t] = row]
  <1>1. after[t] = row /\ \A u \in Tasks \ {t} : after[u] = rows[u]
    BY DEF TypeInv, TasksOK
  <1>2. rows' \in {after, Reset(t, after)}
    OBVIOUS
  <1>3. t \notin Resettable(t) /\ \A u \in Tasks : rows[u].status = "done" => u \notin Resettable(t)
    BY DEF Resettable, Dependents, TypeInv, TasksOK
  <1> HIDE DEF after
  <1> QED BY <1>1, <1>2, <1>3 DEF Reset, Waiting

LEMMA CoveredSave ==
    ASSUME TypeInv, Knows, AllUnmoved, OpenCovered, NEW r \in Requests, Save(r)
    PROVE  OpenCovered'
  <1>0. req \in [Requests -> Req] /\ req[r].pc = "save" /\ req[r].task \in Tasks
    BY DEF Save, TypeInv, RequestsOK, RequestOK
  <1>1. CASE ~CanSave(r)
    <2>1. UNCHANGED <<rows, deps, excused>> /\ req' = [req EXCEPT ![r] = Free]
      BY <1>1 DEF Save, Refuse
    <2> QED BY <1>0, <2>1 DEF OpenCovered, ResetUnderWay, BlockedAtWork, BlockedBy, Exists, AtWork
  <1>2. CASE CanSave(r)
    <2> DEFINE row == Written(r, rows[req[r].task])
               after == [rows EXCEPT ![req[r].task] = row]
    <2>0. PICK t \in Tasks : t = req[r].task
      BY <1>0
    <2>1. /\ rows' = IF req[r].actor = "lead" /\ Reopened(req[r].row.status, req[r].new.status)
                     THEN Reset(t, after) ELSE after
          /\ req[r].actor # "lead" /\ Reopened(req[r].row.status, row.status) =>
                 req' = [req EXCEPT ![r] = [Free EXCEPT !.pc = "reset", !.task = t]]
          /\ Excuse(IF late[r] # {}
                    THEN {t} \cup {d \in Dependents(t) : rows[t].status = "done"
                                                        /\ req[r].row.status # "done"}
                    ELSE IF req[r].actor = "lead" /\ req[r].deps # Keep THEN {t} ELSE {})
          /\ \E end \in Req : req' = [req EXCEPT ![r] = end]
      <3>1. Free \in Req /\ [Free EXCEPT !.pc = "reset", !.task = t] \in Req
        BY <2>0, FreeType DEF Free, Req
      <3> QED BY <1>2, <2>0, <3>1 DEF Save
    <2>2. deps' = IF req[r].deps = Keep THEN deps
                  ELSE [deps EXCEPT ![t] = (deps[t] \ req[r].cut) \cup req[r].deps]
      BY <1>0, <1>2, <2>0 DEF Save, TypeInv, TasksOK
    <2>3. row \in Rows
      BY <1>0, <1>2, WrittenType
    <2>4. /\ rows'[t] = row
          /\ \A u \in Tasks \ {t} : rows'[u] = rows[u] \/ rows'[u] = Waiting
          /\ \A u \in Tasks \ {t} : rows[u].status = "done" => rows'[u].status = "done"
      <3> HIDE DEF row
      <3> QED BY <2>0, <2>1, <2>3, SavedRows
    <2>5. \A q \in Requests : req[q].pc = "reset" => req'[q] = req[q]
      BY <1>0, <2>1
    <2>6. rows[t] \in Rows /\ req[r].new \in Rows /\ req[r].row \in Rows
          /\ t \notin deps[t] /\ deps[t] \subseteq Tasks
      BY <1>0, <2>0 DEF TypeInv, TasksOK, Req
    <2> SUFFICES ASSUME NEW u \in Tasks, BlockedAtWork(u)', u \notin excused',
                        NEW d \in deps'[u], rows'[d].status # "done"
                 PROVE  ResetUnderWay(d)'
      BY DEF OpenCovered
    <2>7. u \notin excused /\ rows'[u] # Waiting /\ rows'[u].status # "done"
      <3>1. u \notin excused
        BY <2>1, ExcuseKeeps
      <3>2. rows'[u] # Waiting /\ rows'[u].status # "done"
        BY DEF BlockedAtWork, AtWork, Waiting
      <3> QED BY <3>1, <3>2
    <2>8. CASE u = t
      <3>1. late[r] = {} /\ ~(req[r].actor = "lead" /\ req[r].deps # Keep)
        BY <2>1, <2>8, ExcuseKeeps
      <3>2. req[r].row = rows[t]
        BY <1>0, <2>0, <3>1 DEF AllUnmoved, Unmoved
      <3>3. row = req[r].new
        <4>1. row.status = req[r].new.status /\ row.agent = req[r].new.agent
          BY <2>0, <3>2 DEF Written
        <4> HIDE DEF row
        <4> QED BY <2>3, <2>6, <4>1 DEF Rows
      <3>4. deps'[t] = NewEdges(r) /\ NewEdges(r) \subseteq Tasks /\ t \notin NewEdges(r)
        <4>1. CASE req[r].deps = Keep
          BY <2>0, <2>2, <2>6, <4>1 DEF NewEdges
        <4>2. CASE req[r].deps # Keep
          <5>1. req[r].cut = deps[t]
            BY <1>0, <2>0, <3>1, <4>2 DEF Knows, EdgesChecked
          <5>2. deps'[t] = (deps[t] \ req[r].cut) \cup req[r].deps
            BY <2>2, <4>2 DEF TypeInv, TasksOK
          <5>3. req[r].deps \subseteq Tasks /\ t \notin req[r].deps
            BY <1>0, <2>0, <4>2 DEF TypeInv, RequestsOK, RequestOK, Req
          <5>4. (deps[t] \ req[r].cut) \cup req[r].deps = req[r].deps
            BY <5>1, <5>3
          <5> QED BY <4>2, <5>2, <5>3, <5>4 DEF NewEdges
        <4> QED BY <4>1, <4>2
      <3>5. d \in NewEdges(r) /\ rows[d].status # "done"
        BY <2>4, <2>8, <3>4
      <3>6. WaitsIfBlocked(req[r].actor, req[r].deps, req[r].new)
        BY <1>0, <3>1, <3>5 DEF AllUnmoved, Unmoved, BlockedBy
      <3> QED BY <2>4, <2>7, <2>8, <3>1, <3>3, <3>6 DEF WaitsIfBlocked
    <2>9. CASE u # t
      <3>1. rows'[u] = rows[u] /\ deps'[u] = deps[u] /\ d \in deps[u] /\ deps[u] \subseteq Tasks
        BY <2>2, <2>4, <2>7, <2>9 DEF TypeInv, TasksOK
      <3>2. CASE rows[d].status # "done"
        <4>1. ResetUnderWay(d)
          BY <2>7, <3>1, <3>2, CoveredStays
        <4> QED BY <2>5, <4>1 DEF ResetUnderWay
      <3>3. CASE rows[d].status = "done"
        <4>1. d = t /\ u \in Dependents(t) /\ row.status # "done"
          BY <2>4, <3>1, <3>3 DEF Dependents
        <4>2. row.status = req[r].new.status
          BY <2>0, <3>3, <4>1 DEF Written
        <4>3. req[r].row.status = "done"
          <5>1. CASE late[r] # {}
            BY <2>1, <3>3, <4>1, <5>1, ExcuseKeeps
          <5>2. CASE late[r] = {}
            BY <1>0, <2>0, <3>3, <4>1, <5>2 DEF AllUnmoved, Unmoved
          <5> QED BY <5>1, <5>2
        <4>4. CASE req[r].actor = "lead"
          <5>1. rows' = Reset(t, after) /\ u \in Resettable(t)
            BY <2>1, <2>7, <3>1, <4>1, <4>2, <4>3, <4>4 DEF Reopened, Resettable
          <5>2. rows'[u] = Waiting
            BY <5>1 DEF Reset, Waiting
          <5> QED BY <2>7, <5>2
        <4>5. CASE req[r].actor # "lead"
          <5>1. req' = [req EXCEPT ![r] = [Free EXCEPT !.pc = "reset", !.task = t]]
            BY <2>1, <4>1, <4>3, <4>5 DEF Reopened
          <5>2. req'[r].pc = "reset" /\ req'[r].task = t
            BY <1>0, <5>1 DEF Free
          <5> QED BY <4>1, <5>2 DEF ResetUnderWay
        <4> QED BY <4>4, <4>5
      <3> QED BY <3>2, <3>3
    <2> QED BY <2>8, <2>9
  <1> QED BY <1>1, <1>2

LEMMA CoveredNext ==
    TypeInv /\ Knows /\ AllUnmoved /\ OpenCovered /\ [Next]_board => OpenCovered'
  <1> SUFFICES ASSUME TypeInv, Knows, AllUnmoved, OpenCovered, [Next]_board
               PROVE  OpenCovered'
    OBVIOUS
  <1>0. req \in [Requests -> Req] /\ rows \in [Tasks -> Rows] /\ deps \in [Tasks -> SUBSET Tasks]
    BY DEF TypeInv, TasksOK, RequestsOK
  <1>1. CASE /\ rows' = rows /\ deps' = deps /\ excused' = excused
             /\ \A q \in Requests : req[q].pc = "reset" => req'[q] = req[q]
    BY <1>1 DEF OpenCovered, ResetUnderWay, BlockedAtWork, BlockedBy, Exists, AtWork
  <1>2. UNCHANGED board => <1>1!1
    BY DEF board, history
  <1>3. \A r \in Requests, t \in Tasks : Load(r, t) => <1>1!1
    BY <1>0 DEF Load, history
  <1>4. \A r \in Requests, ask \in Asks : Check(r, ask) => <1>1!1
    BY <1>0 DEF Check, Refuse, history
  <1>5. \A t \in Tasks : ChangeApprovals(t) => <1>1!1
    BY DEF ChangeApprovals
  <1>6. ASSUME NEW r \in Requests, Save(r) PROVE OpenCovered'
    BY <1>6, CoveredSave
  <1>7. ASSUME NEW r \in Requests, ResetDependents(r) PROVE OpenCovered'
    <2>0. PICK t \in Tasks : t = req[r].task
      BY <1>7 DEF ResetDependents, TypeInv, RequestsOK, RequestOK
    <2>1. rows' = Reset(t, rows) /\ deps' = deps /\ Excuse({}) /\ req' = [req EXCEPT ![r] = Free]
      BY <1>7, <2>0 DEF ResetDependents
    <2> SUFFICES ASSUME NEW u \in Tasks, BlockedAtWork(u)', u \notin excused',
                        NEW d \in deps'[u], rows'[d].status # "done"
                 PROVE  ResetUnderWay(d)'
      BY DEF OpenCovered
    <2>2. u \notin excused /\ rows'[u] # Waiting /\ rows'[u].status # "done"
      <3>1. u \notin excused
        BY <2>1, ExcuseKeeps
      <3>2. rows'[u] # Waiting /\ rows'[u].status # "done"
        BY DEF BlockedAtWork, AtWork, Waiting
      <3> QED BY <3>1, <3>2
    <2>3. u \notin Resettable(t) /\ rows'[u] = rows[u] /\ d \in deps[u]
      BY <2>1, <2>2 DEF Reset, Waiting
    <2>4. t \notin deps[u]
      BY <2>2, <2>3 DEF Resettable, Dependents
    <2>5. d \in Tasks /\ rows[d].status # "done"
      BY <1>0, <2>1, <2>3 DEF Reset, Resettable
    <2>6. ResetUnderWay(d)
      BY <2>2, <2>3, <2>5, CoveredStays
    <2>7. PICK q \in Requests : req[q].pc = "reset" /\ req[q].task = d
      BY <2>6 DEF ResetUnderWay
    <2>8. q # r
      BY <2>0, <2>3, <2>4, <2>7
    <2>9. req'[q] = req[q]
      BY <1>0, <2>1, <2>8
    <2> QED BY <2>7, <2>9 DEF ResetUnderWay
  <1>8. ASSUME NEW r \in Requests, Crash(r) PROVE OpenCovered'
    <2>1. /\ rows' = rows /\ deps' = deps /\ Excuse(Dependents(req[r].task))
          /\ req' = [req EXCEPT ![r] = Free]
      BY <1>8 DEF Crash
    <2> SUFFICES ASSUME NEW u \in Tasks, BlockedAtWork(u)', u \notin excused',
                        NEW d \in deps'[u], rows'[d].status # "done"
                 PROVE  ResetUnderWay(d)'
      BY DEF OpenCovered
    <2>2. u \notin excused /\ u \notin Dependents(req[r].task)
      BY <2>1, ExcuseKeeps
    <2>3. ResetUnderWay(d)
      BY <2>1, <2>2, CoveredStays
    <2>4. PICK q \in Requests : req[q].pc = "reset" /\ req[q].task = d
      BY <2>3 DEF ResetUnderWay
    <2>5. q # r
      BY <2>1, <2>2, <2>4 DEF Dependents
    <2>6. req'[q] = req[q]
      BY <1>0, <2>1, <2>5
    <2> QED BY <2>4, <2>6 DEF ResetUnderWay
  <1>9. ASSUME NEW t \in Tasks, Delete(t) PROVE OpenCovered'
    <2>1. /\ rows' = [rows EXCEPT ![t] = Absent] /\ deps' = Without(t) /\ Excuse({}) /\ req' = req
      BY <1>9 DEF Delete
    <2> SUFFICES ASSUME NEW u \in Tasks, BlockedAtWork(u)', u \notin excused',
                        NEW d \in deps'[u], rows'[d].status # "done"
                 PROVE  ResetUnderWay(d)'
      BY DEF OpenCovered
    <2>2. u \notin excused /\ u # t
      BY <1>0, <2>1, ExcuseKeeps DEF BlockedAtWork, Exists, Absent
    <2>3. rows'[u] = rows[u] /\ d \in deps[u] /\ d # t /\ d \in Tasks
      BY <1>0, <2>1, <2>2 DEF Without
    <2>4. rows[d].status # "done"
      BY <1>0, <2>1, <2>3
    <2>5. ResetUnderWay(d)
      BY <2>2, <2>3, <2>4, CoveredStays
    <2> QED BY <2>1, <2>5 DEF ResetUnderWay
  <1> QED BY <1>1, <1>2, <1>3, <1>4, <1>5, <1>6, <1>7, <1>8, <1>9 DEF Next

(* A task with an open dependency waits in the inbox, assigned to nobody,  *)
(* unless the reset of the dependents is still to come or a cause is known *)
(* why it is at work all the same, however many requests overlap.          *)
THEOREM BlockedWait == Spec => []BlockedTasksWait
  <1>1. /\ TypeInv /\ Knows /\ AllUnmoved /\ OpenCovered /\ [Next]_board
           => AllUnmoved' /\ OpenCovered'
    BY UnmovedNext, CoveredNext
  <1>2. OpenCovered => BlockedTasksWait
    BY DEF OpenCovered, BlockedTasksWait, BlockedAtWork, BlockedBy, ResetUnderWay, ResetToCome
  <1> QED BY WaitInit, <1>1, <1>2, KnowsInvariant, PTL DEF Spec
=============================================================================
