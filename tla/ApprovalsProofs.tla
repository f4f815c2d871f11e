--------------------------- MODULE ApprovalsProofs ---------------------------
(***************************************************************************)
(* Proofs about Approvals for any set of tasks, approvals and requests:    *)
(* type correctness, that no task ever has two pending approvals, and that *)
(* the board lead is told of every outcome.                                *)
(***************************************************************************)
EXTENDS Approvals, FiniteSetTheorems, WellFoundedInduction, TLAPS

(* A guarded request passes through "lock" and "check", not "share". *)
GuardedFirst == \A r \in Requests :
    /\ pc[r] \in {"lock", "check"} => Guarded(r)
    /\ pc[r] = "share" => ~Guarded(r)

(* From the check to the commit it owns the tasks of its approval. *)
HoldsLocks == \A r \in Requests :
    pc[r] \in {"check", "create", "update"} /\ Guarded(r)
        => \A t \in wanted[r] : owner[t] = r

(* What the check found stays true until the commit. *)
CheckHolds == \A r \in Requests :
    pc[r] \in {"create", "update"} /\ Guarded(r) => Conflicts(r) = {}

(* An approval to be inserted belongs to one request; the links of one to  *)
(* be updated do not change.                                               *)
Creating(r) ==
    /\ status[approval[r]] = "absent"
    /\ \A q \in Requests \ {r} : pc[q] # "idle" => approval[q] # approval[r]
    /\ pc[r] \in {"lock", "check", "share", "create"}

Updating(r) ==
    /\ status[approval[r]] # "absent"
    /\ wanted[r] = links[approval[r]]
    /\ pc[r] \in {"lock", "check", "update", "notify"}

Tracked == \A r \in Requests : pc[r] # "idle" =>
    IF loaded[r] = "absent" THEN Creating(r) ELSE Updating(r)

IInv == TypeOK /\ GuardedFirst /\ HoldsLocks /\ CheckHolds /\ Tracked /\ OnePendingPerTask

-----------------------------------------------------------------------------
LEMMA IInvInit == Init => IInv
  <1> SUFFICES ASSUME Init PROVE IInv
    OBVIOUS
  <1>1. TypeOK
    BY ApprovalsAssumption DEF Init, TypeOK, ListsOK, PCs, Statuses, Resolved
  <1> QED BY <1>1 DEF Init, IInv, GuardedFirst, HoldsLocks, CheckHolds, Tracked,
                      OnePendingPerTask

LEMMA ListsNext == TypeOK /\ [Next]_vars => ListsOK'
  <1> SUFFICES ASSUME TypeOK, [Next]_vars PROVE ListsOK'
    OBVIOUS
  <1> USE DEF Goto
  <1>0. pc \in [Requests -> PCs] /\ ListsOK
    BY DEF TypeOK
  (* A step that leaves the lists alone, and after which nobody is new in  *)
  (* "share".                                                              *)
  <1>1. CASE left' = left /\ \A q \in Requests : pc'[q] = "share" => pc[q] = "share"
    BY <1>0, <1>1 DEF ListsOK
  <1>2. UNCHANGED vars => <1>1!1
    BY DEF vars, locks
  <1>3. \A r \in Requests :
           LockTask(r) \/ Check(r) \/ Abort(r) \/ Insert(r) \/ Save(r) \/ Notify(r) => <1>1!1
    BY <1>0 DEF LockTask, Check, Finish, Abort, Insert, Save, Notify, locks
  <1>4. ASSUME NEW r \in Requests, NEW ids \in Seq(Tasks), left' = [left EXCEPT ![r] = ids],
               pc'[r] = "share" => ids # <<>>, \A q \in Requests \ {r} : pc'[q] = pc[q]
        PROVE  ListsOK'
    BY <1>0, <1>4 DEF ListsOK
  <1>5. ASSUME NEW r \in Requests, CreateApproval(r) PROVE ListsOK'
    <2>1. PICK a \in Approvals, to \in Statuses, ts \in SUBSET Tasks :
             \E ids \in [1..Cardinality(ts) -> ts] : Start(r, a, "absent", to, ts, ids)
      BY <1>5 DEF CreateApproval
    <2>2. PICK ids \in [1..Cardinality(ts) -> ts] : Start(r, a, "absent", to, ts, ids)
      BY <2>1
    <2>3. Cardinality(ts) \in Nat
      BY ApprovalsAssumption, FS_Subset, FS_CardinalityType
    <2>4. ids \in Seq(ts)
      BY <2>3
    <2>5. ids \in Seq(Tasks)
      BY <2>4
    <2> HIDE <2>1
    <2>6. pc'[r] = "share" => ids # <<>>
      BY <1>0, <2>2 DEF Start
    <2> QED BY <1>0, <1>4, <2>2, <2>5, <2>6 DEF Start
  <1>6. ASSUME NEW r \in Requests, UpdateApproval(r) PROVE ListsOK'
    <2>1. PICK a \in Approvals, to \in Statuses : Start(r, a, status[a], to, links[a], <<>>)
      BY <1>6 DEF UpdateApproval
    <2>2. pc'[r] # "share" /\ <<>> \in Seq(Tasks)
      BY <1>0, <2>1 DEF Start
    <2> QED BY <1>0, <1>4, <2>1, <2>2 DEF Start
  <1>7. ASSUME NEW r \in Requests, ShareTask(r) PROVE ListsOK'
    <2>1. left[r] \in Seq(Tasks) /\ left[r] # <<>>
      BY <1>0, <1>7 DEF ShareTask, ListsOK
    <2>2. Tail(left[r]) \in Seq(Tasks)
      BY <2>1
    <2>3. pc'[r] = "share" => Tail(left[r]) # <<>>
      BY <1>0, <1>7 DEF ShareTask
    <2> QED BY <1>0, <1>4, <1>7, <2>2, <2>3 DEF ShareTask
  <1> QED BY <1>1, <1>2, <1>3, <1>5, <1>6, <1>7 DEF Next, Step

LEMMA TypeNext == TypeOK /\ [Next]_vars => TypeOK'
  <1> SUFFICES ASSUME TypeOK, [Next]_vars PROVE TypeOK'
    OBVIOUS
  <1>0. ListsOK'
    BY ListsNext
  <1> USE <1>0, ApprovalsAssumption DEF TypeOK, PCs, Statuses, Goto, request, locks
  <1>1. CASE UNCHANGED vars
    BY <1>1 DEF vars
  <1>2. ASSUME NEW r \in Requests, CreateApproval(r) PROVE TypeOK'
    BY <1>2 DEF CreateApproval, Start
  <1>3. ASSUME NEW r \in Requests, UpdateApproval(r) PROVE TypeOK'
    BY <1>3 DEF UpdateApproval, Start
  <1>4. ASSUME NEW r \in Requests, LockTask(r) PROVE TypeOK'
    BY <1>4 DEF LockTask
  <1>5. ASSUME NEW r \in Requests, Check(r) PROVE TypeOK'
    BY <1>5 DEF Check, EndTransaction, Finish
  <1>6. ASSUME NEW r \in Requests, Insert(r) PROVE TypeOK'
    BY <1>6 DEF Insert, EndTransaction
  <1>7. ASSUME NEW r \in Requests, Save(r) PROVE TypeOK'
    BY <1>7 DEF Save, EndTransaction
  <1>8. ASSUME NEW r \in Requests, Notify(r) PROVE TypeOK'
    BY <1>8 DEF Notify, ResolvedByRequest
  <1>9. ASSUME NEW r \in Requests, ShareTask(r) PROVE TypeOK'
    <2> DEFINE t == Head(left[r])
    <2>1. sharers' = [sharers EXCEPT ![t] = @ \cup {r}]
      BY <1>9 DEF ShareTask
    <2> HIDE DEF t
    <2>2. sharers' \in [Tasks -> SUBSET Requests]
      BY <2>1
    <2> QED BY <1>9, <2>2 DEF ShareTask
  <1>10. ASSUME NEW r \in Requests, Abort(r) PROVE TypeOK'
    BY <1>10 DEF Abort, EndTransaction
  <1> QED BY <1>1, <1>2, <1>3, <1>4, <1>5, <1>6, <1>7, <1>8, <1>9, <1>10 DEF Next, Step

-----------------------------------------------------------------------------
(* One lemma per kind of step: starting, locking, checking, writing.       *)

LEMMA StartKeeps ==
    ASSUME IInv, TypeOK', NEW r \in Requests, CreateApproval(r) \/ UpdateApproval(r)
    PROVE  IInv'
  <1> USE DEF IInv, TypeOK
  <1>0. PICK a \in Approvals, from \in Statuses \cup {"absent"}, to \in Statuses,
             ts \in SUBSET Tasks :
             /\ \E ids : Start(r, a, from, to, ts, ids) /\ (from # "absent" => ids = <<>>)
             /\ from = status[a]
             /\ from = "absent" => \A q \in Requests : pc[q] # "idle" => approval[q] # a
             /\ from # "absent" => ts = links[a]
    <2>1. CASE CreateApproval(r)
      BY <2>1 DEF CreateApproval, Statuses
    <2>2. CASE UpdateApproval(r)
      BY <2>2 DEF UpdateApproval
    <2> QED BY <2>1, <2>2
  <1>1. PICK ids : Start(r, a, from, to, ts, ids) /\ (from # "absent" => ids = <<>>)
    BY <1>0
  <1>2. /\ pc[r] = "idle" /\ UNCHANGED <<status, links, owner>>
        /\ approval'[r] = a /\ loaded'[r] = from /\ target'[r] = to /\ wanted'[r] = ts
        /\ pc'[r] = IF to = "pending" /\ from # "pending" /\ ts # {} THEN "lock"
                    ELSE IF ids # <<>> THEN "share"
                    ELSE IF from = "absent" THEN "create" ELSE "update"
    BY <1>1 DEF Start, Goto
  <1>3. \A q \in Requests \ {r} :
           /\ pc'[q] = pc[q] /\ approval'[q] = approval[q] /\ loaded'[q] = loaded[q]
           /\ target'[q] = target[q] /\ wanted'[q] = wanted[q]
    BY <1>1 DEF Start, Goto
  <1>4. GuardedFirst' /\ HoldsLocks'
    <2>1. /\ pc'[r] = "lock" <=> Guarded(r)'
          /\ pc'[r] # "check"
      BY <1>2 DEF Guarded
    <2>2. \A q \in Requests \ {r} : Guarded(q)' <=> Guarded(q)
      BY <1>3 DEF Guarded
    <2>3. GuardedFirst'
      BY <1>3, <2>1, <2>2 DEF GuardedFirst
    <2>4. HoldsLocks'
      BY <1>2, <1>3, <2>1, <2>2 DEF HoldsLocks
    <2> QED BY <2>3, <2>4
  <1>5. CheckHolds'
    <2> SUFFICES ASSUME NEW q \in Requests, pc'[q] \in {"create", "update"}, Guarded(q)'
                 PROVE  Conflicts(q)' = {}
      BY DEF CheckHolds
    <2>1. q # r
      BY <1>2 DEF Guarded
    <2> QED BY <1>2, <1>3, <2>1 DEF CheckHolds, Guarded, Conflicts
  <1>6. Tracked'
    <2> SUFFICES ASSUME NEW q \in Requests, pc'[q] # "idle"
                 PROVE  IF loaded'[q] = "absent" THEN Creating(q)' ELSE Updating(q)'
      BY DEF Tracked
    <2>1. CASE q = r
      BY <1>0, <1>1, <1>2, <1>3, <2>1 DEF Creating, Updating
    <2>2. CASE q # r
      <3>1. CASE loaded[q] = "absent"
        <4>1. Creating(q)
          BY <1>3, <2>2, <3>1 DEF Tracked
        <4>2. approval[q] # a
          BY <1>0, <1>2, <1>3, <2>2, <4>1 DEF Creating
        <4> QED BY <1>2, <1>3, <2>2, <3>1, <4>1, <4>2 DEF Creating
      <3>2. CASE loaded[q] # "absent"
        <4>1. Updating(q)
          BY <1>3, <2>2, <3>2 DEF Tracked
        <4> QED BY <1>2, <1>3, <2>2, <3>2, <4>1 DEF Updating
      <3> QED BY <3>1, <3>2
    <2> QED BY <2>1, <2>2
  <1>7. OnePendingPerTask'
    BY <1>2 DEF OnePendingPerTask
  <1> QED BY <1>4, <1>5, <1>6, <1>7

LEMMA LockKeeps ==
    ASSUME IInv, TypeOK', NEW r \in Requests, LockTask(r)
    PROVE  IInv'
  <1> USE DEF IInv, TypeOK
  <1>1. PICK t \in wanted[r] :
          /\ owner[t] = None
          /\ \A u \in wanted[r] : u < t => owner[u] = r
          /\ owner' = [owner EXCEPT ![t] = r]
          /\ IF \A u \in wanted[r] : u <= t THEN Goto(r, "check") ELSE UNCHANGED pc
    BY DEF LockTask
  <1>2. /\ pc[r] = "lock" /\ pc'[r] \in {"lock", "check"}
        /\ UNCHANGED <<status, links, approval, target, loaded, wanted>>
        /\ \A q \in Requests \ {r} : pc'[q] = pc[q]
    BY <1>1 DEF LockTask, Goto, request
  <1>3. GuardedFirst'
    BY <1>2 DEF GuardedFirst, Guarded
  <1>4. HoldsLocks'
    <2> SUFFICES ASSUME NEW q \in Requests, pc'[q] \in {"check", "create", "update"},
                        Guarded(q)', NEW u \in wanted'[q]
                 PROVE  owner'[u] = q
      BY DEF HoldsLocks
    <2>1. u \in Tasks /\ t \in Tasks /\ u \in Nat /\ t \in Nat
      BY <1>2, ApprovalsAssumption
    <2>2. CASE q = r
      <3>1. u <= t
        BY <1>1, <1>2, <2>2
      <3>2. CASE u = t
        BY <1>1, <2>1, <2>2, <3>2
      <3>3. CASE u < t
        BY <1>1, <1>2, <2>1, <2>2, <3>3
      <3> QED BY <2>1, <3>1, <3>2, <3>3
    <2>3. CASE q # r
      <3>1. owner[u] = q
        BY <1>2, <2>3 DEF HoldsLocks, Guarded
      <3>2. u # t
        BY <1>1, <3>1, ApprovalsAssumption
      <3> QED BY <1>1, <2>1, <3>1, <3>2
    <2> QED BY <2>2, <2>3
  <1>5. CheckHolds'
    BY <1>2 DEF CheckHolds, Guarded, Conflicts
  <1>6. Tracked'
    BY <1>2 DEF Tracked, Creating, Updating
  <1>7. OnePendingPerTask'
    BY <1>2 DEF OnePendingPerTask
  <1> QED BY <1>3, <1>4, <1>5, <1>6, <1>7

LEMMA CheckKeeps ==
    ASSUME IInv, TypeOK', NEW r \in Requests, Check(r)
    PROVE  IInv'
  <1> USE DEF IInv, TypeOK
  <1>1. /\ pc[r] = "check"
        /\ UNCHANGED <<status, links, approval, target, loaded, wanted>>
        /\ \A q \in Requests \ {r} : pc'[q] = pc[q]
        /\ \A q \in Requests \ {r}, t \in Tasks : owner[t] = q => owner'[t] = q
    BY DEF Check, Goto, EndTransaction, request
  <1>2. \/ pc'[r] = Finish(r) /\ Conflicts(r) = {} /\ owner' = owner
        \/ pc'[r] = "idle"
    BY DEF Check, Goto
  <1>3. pc'[r] \in {"idle", "create", "update"}
    BY <1>2 DEF Finish
  <1>4. GuardedFirst'
    BY <1>1, <1>3 DEF GuardedFirst, Guarded
  <1>5. HoldsLocks'
    <2> SUFFICES ASSUME NEW q \in Requests, pc'[q] \in {"check", "create", "update"},
                        Guarded(q)', NEW u \in wanted'[q]
                 PROVE  owner'[u] = q
      BY DEF HoldsLocks
    <2>1. owner[u] = q /\ u \in Tasks
      BY <1>1 DEF HoldsLocks, Guarded
    <2> QED BY <1>1, <1>2, <2>1
  <1>6. CheckHolds'
    BY <1>1, <1>2 DEF CheckHolds, Guarded, Conflicts
  <1>7. Tracked'
    BY <1>1, <1>2 DEF Tracked, Creating, Updating, Finish
  <1>8. OnePendingPerTask'
    BY <1>1 DEF OnePendingPerTask
  <1> QED BY <1>4, <1>5, <1>6, <1>7, <1>8

-----------------------------------------------------------------------------
(* A write makes its approval pending only if it was already, or if no     *)
(* other pending approval shares a task with it and the tasks are owned.   *)
LEMMA WriteIsSafe ==
    ASSUME IInv, NEW r \in Requests, Insert(r) \/ Save(r)
    PROVE  /\ approval[r] \in Approvals
           /\ \A b \in Approvals \ {approval[r]} :
                 status'[b] = status[b] /\ links'[b] = links[b]
           /\ status'[approval[r]] = "pending" =>
                \/ status[approval[r]] = "pending" /\ links' = links
                \/ links'[approval[r]] = {}
                \/ Guarded(r) /\ Conflicts(r) = {} /\ links'[approval[r]] = wanted[r]
  <1> USE DEF IInv, TypeOK
  <1>1. CASE Insert(r)
    <2>1. pc[r] = "create" /\ loaded[r] = "absent"
      BY <1>1 DEF Insert, Tracked, Updating
    <2> QED BY <1>1, <2>1 DEF Insert, CheckHolds, Guarded
  <1>2. CASE Save(r)
    <2>1. pc[r] = "update" /\ loaded[r] # "absent"
      BY <1>2 DEF Save, Tracked, Creating
    <2>2. wanted[r] = links[approval[r]]
      BY <2>1 DEF Tracked, Updating
    <2> QED BY <1>2, <2>1, <2>2 DEF Save, CheckHolds, Guarded
  <1> QED BY <1>1, <1>2

LEMMA WriteKeeps ==
    ASSUME IInv, TypeOK', NEW r \in Requests, Insert(r) \/ Save(r)
    PROVE  IInv'
  <1> USE DEF IInv, TypeOK
  <1>1. /\ pc[r] \in {"create", "update"} /\ pc'[r] \in {"idle", "notify"}
        /\ pc'[r] = "notify" <=> pc[r] = "update"
        /\ UNCHANGED <<approval, target, loaded, wanted>>
        /\ \A q \in Requests \ {r} : pc'[q] = pc[q]
        /\ \A q \in Requests \ {r}, t \in Tasks : owner[t] = q => owner'[t] = q
    BY DEF Insert, Save, Goto, EndTransaction, request
  <1>2. GuardedFirst'
    BY <1>1 DEF GuardedFirst, Guarded
  <1>3. HoldsLocks'
    <2> SUFFICES ASSUME NEW q \in Requests, pc'[q] \in {"check", "create", "update"},
                        Guarded(q)', NEW u \in wanted'[q]
                 PROVE  owner'[u] = q
      BY DEF HoldsLocks
    <2>1. q # r /\ owner[u] = q /\ u \in Tasks
      BY <1>1 DEF HoldsLocks, Guarded
    <2> QED BY <1>1, <2>1
  <1>4. CheckHolds'
    <2> SUFFICES ASSUME NEW q \in Requests, pc'[q] \in {"create", "update"}, Guarded(q)',
                        NEW b \in Conflicts(q)'
                 PROVE  FALSE
      BY DEF CheckHolds
    <2>1. q # r /\ Guarded(q) /\ pc[q] \in {"create", "update"} /\ Conflicts(q) = {}
      BY <1>1 DEF CheckHolds, Guarded
    <2>2. /\ b \in Approvals /\ b # approval[q] /\ status'[b] = "pending"
          /\ links'[b] \cap wanted[q] # {}
      BY <1>1 DEF Conflicts
    <2>3. b = approval[r]
      BY <2>1, <2>2, WriteIsSafe DEF Conflicts
    <2>4. ~(status[b] = "pending" /\ links' = links)
      BY <2>1, <2>2 DEF Conflicts
    <2>5. Guarded(r) /\ links'[b] = wanted[r]
      BY <2>2, <2>3, <2>4, WriteIsSafe
    <2>6. PICK t \in Tasks : t \in wanted[r] /\ t \in wanted[q]
      BY <2>2, <2>5
    <2>7. owner[t] = r /\ owner[t] = q
      BY <1>1, <2>1, <2>5, <2>6 DEF HoldsLocks
    <2> QED BY <2>1, <2>7
  <1>5. Tracked'
    <2> SUFFICES ASSUME NEW q \in Requests, pc'[q] # "idle"
                 PROVE  IF loaded'[q] = "absent" THEN Creating(q)' ELSE Updating(q)'
      BY DEF Tracked
    <2>1. CASE q = r
      <3>1. pc[r] = "update" /\ Save(r)
        BY <1>1, <2>1 DEF Insert
      <3>2. loaded[r] # "absent" /\ Updating(r)
        BY <3>1 DEF Tracked, Creating
      <3>3. approval[r] \in Approvals /\ target[r] \in Statuses
        BY <3>1
      <3>4. links' = links /\ status'[approval[r]] # "absent"
        BY <3>1, <3>2, <3>3 DEF Save, Updating, Statuses, Resolved
      <3> QED BY <1>1, <2>1, <3>2, <3>4 DEF Updating
    <2>2. CASE q # r /\ loaded[q] = "absent"
      <3>1. Creating(q)
        BY <1>1, <2>2 DEF Tracked
      <3>2. approval[q] # approval[r] /\ approval[q] \in Approvals
        BY <1>1, <2>2, <3>1 DEF Creating
      <3>3. status'[approval[q]] = "absent"
        BY <3>1, <3>2, WriteIsSafe DEF Creating
      <3> QED BY <1>1, <2>2, <3>1, <3>3 DEF Creating
    <2>3. CASE q # r /\ loaded[q] # "absent"
      <3>1. Updating(q) /\ approval[q] \in Approvals
        BY <1>1, <2>3 DEF Tracked
      <3>2. CASE approval[q] # approval[r]
        BY <1>1, <2>3, <3>1, <3>2, WriteIsSafe DEF Updating
      <3>3. CASE approval[q] = approval[r]
        <4>1. pc[r] = "update" /\ Save(r)
          BY <1>1, <3>1, <3>3 DEF Updating, Tracked, Creating, Insert
        <4>2. links' = links /\ status'[approval[r]] # "absent"
          BY <3>1, <3>3, <4>1 DEF Save, Updating, Statuses, Resolved
        <4> QED BY <1>1, <2>3, <3>1, <3>3, <4>2 DEF Updating
      <3> QED BY <3>2, <3>3
    <2> QED BY <2>1, <2>2, <2>3
  <1>6. OnePendingPerTask'
    <2> SUFFICES ASSUME NEW a \in Approvals, NEW b \in Approvals,
                        status'[a] = "pending", status'[b] = "pending",
                        links'[a] \cap links'[b] # {}, a = approval[r], a # b
                 PROVE  FALSE
      <3>1. \A a, b \in Approvals \ {approval[r]} :
               status'[a] = "pending" /\ status'[b] = "pending" /\ links'[a] \cap links'[b] # {}
                 => a = b
        BY WriteIsSafe DEF OnePendingPerTask
      <3> QED BY <3>1 DEF OnePendingPerTask
    <2>1. status[b] = "pending" /\ links'[b] = links[b]
      BY WriteIsSafe
    <2>2. ~(status[a] = "pending" /\ links' = links)
      BY <2>1 DEF OnePendingPerTask
    <2>3. Conflicts(r) = {} /\ links'[a] = wanted[r]
      BY <2>2, WriteIsSafe
    <2> QED BY <2>1, <2>3 DEF Conflicts
  <1> QED BY <1>2, <1>3, <1>4, <1>5, <1>6

LEMMA NotifyKeeps ==
    ASSUME IInv, TypeOK', NEW r \in Requests, Notify(r)
    PROVE  IInv'
  <1>1. /\ pc' = [pc EXCEPT ![r] = "idle"]
        /\ UNCHANGED <<status, links, owner, approval, target, loaded, wanted>>
    BY DEF Notify, Goto, request, locks
  <1> QED BY <1>1 DEF IInv, TypeOK, GuardedFirst, HoldsLocks, CheckHolds, Tracked,
                      Creating, Updating, Guarded, Conflicts, OnePendingPerTask

LEMMA ShareKeeps ==
    ASSUME IInv, TypeOK', NEW r \in Requests, ShareTask(r)
    PROVE  IInv'
  <1>1. /\ pc[r] = "share" /\ pc'[r] \in {"share", "create"}
        /\ \A q \in Requests \ {r} : pc'[q] = pc[q]
        /\ UNCHANGED <<status, links, owner, approval, target, loaded, wanted>>
    BY DEF ShareTask, Goto, request, IInv, TypeOK
  <1> QED BY <1>1 DEF IInv, GuardedFirst, HoldsLocks, CheckHolds, Tracked,
                      Creating, Updating, Guarded, Conflicts, OnePendingPerTask

(* Who is aborted waits for a lock. *)
LEMMA AbortWaits ==
    ASSUME NEW r, Deadlocked(r)
    PROVE  pc[r] \in {"lock", "share"}
  <1> SUFFICES ASSUME pc[r] \notin {"lock", "share"} PROVE FALSE
    OBVIOUS
  <1>1. \A p \in {r}, q \in Requests : ~WaitsFor(p, q)
    BY DEF WaitsFor
  <1>2. {} \in SUBSET Requests /\ {} \cup {r} = {r} /\ r \notin {}
    OBVIOUS
  <1> QED BY <1>1, <1>2 DEF Deadlocked

LEMMA AbortKeeps ==
    ASSUME IInv, TypeOK', NEW r \in Requests, Abort(r)
    PROVE  IInv'
  <1>1. /\ pc' = [pc EXCEPT ![r] = "idle"]
        /\ UNCHANGED <<status, links, approval, target, loaded, wanted>>
        /\ \A q \in Requests \ {r}, t \in Tasks : owner[t] = q => owner'[t] = q
    BY DEF Abort, EndTransaction, Goto, request
  <1> USE DEF IInv, TypeOK
  <1>2. /\ \A q \in Requests \ {r} : pc'[q] = pc[q]
        /\ pc'[r] = "idle"
    BY <1>1
  <1>3. GuardedFirst'
    BY <1>1, <1>2 DEF GuardedFirst, Guarded
  <1>4. HoldsLocks'
    BY <1>1, <1>2 DEF HoldsLocks, Guarded
  <1>5. CheckHolds' /\ OnePendingPerTask'
    BY <1>1, <1>2 DEF CheckHolds, Guarded, Conflicts, OnePendingPerTask
  <1>6. Tracked'
    BY <1>1, <1>2 DEF Tracked, Creating, Updating
  <1> QED BY <1>3, <1>4, <1>5, <1>6

LEMMA IInvNext == IInv /\ [Next]_vars => IInv'
  <1> SUFFICES ASSUME IInv, [Next]_vars PROVE IInv'
    OBVIOUS
  <1>1. TypeOK'
    BY TypeNext DEF IInv
  <1>2. CASE UNCHANGED vars
    BY <1>1, <1>2 DEF vars, locks, request, IInv, GuardedFirst, HoldsLocks, CheckHolds,
       Tracked, Creating, Updating, Guarded, Conflicts, OnePendingPerTask
  <1>3. ASSUME NEW r \in Requests, CreateApproval(r) \/ UpdateApproval(r) \/ Step(r)
        PROVE  IInv'
    BY <1>1, <1>3, StartKeeps, LockKeeps, CheckKeeps, WriteKeeps, NotifyKeeps,
       ShareKeeps, AbortKeeps DEF Step
  <1> QED BY <1>2, <1>3 DEF Next

LEMMA IInvAlways == Spec => []IInv
  BY IInvInit, IInvNext, PTL DEF Spec

(* Every variable keeps its type. *)
THEOREM TypeCorrect == Spec => []TypeOK
  <1>1. IInv => TypeOK
    BY DEF IInv
  <1> QED BY <1>1, IInvAlways, PTL

(* No task ever has two pending approvals: the row locks of                *)
(* lock_tasks_for_approval make the check for conflicts hold until the     *)
(* commit, though no constraint of the database forbids a second one.      *)
THEOREM TasksHaveOnePending == Spec => []OnePendingPerTask
  <1>1. IInv => OnePendingPerTask
    BY DEF IInv
  <1> QED BY <1>1, IInvAlways, PTL

-----------------------------------------------------------------------------
(* An outcome the lead was not told of is about to be noticed: the request *)
(* that wrote it last has yet to notify, and had loaded another status.    *)
Notices(r, a) == pc[r] = "notify" /\ approval[r] = a /\ loaded[r] # status[a]

OutcomeNoticed == \A a \in Approvals :
    status[a] \in Resolved /\ status[a] # born[a]
        => status[a] \in told[a] \/ \E r \in Requests : Notices(r, a)

LEMMA NoticedInit == Init => OutcomeNoticed
  BY DEF Init, OutcomeNoticed

LEMMA NoticedNext == IInv /\ IInv' /\ OutcomeNoticed /\ [Next]_vars => OutcomeNoticed'
  <1> SUFFICES ASSUME IInv, IInv', OutcomeNoticed, [Next]_vars,
                      NEW a \in Approvals, status'[a] \in Resolved, status'[a] # born'[a]
               PROVE  status'[a] \in told'[a] \/ \E r \in Requests : Notices(r, a)'
    BY DEF OutcomeNoticed
  <1> USE DEF IInv, TypeOK
  (* Steps of requests that do not notify, and that write no status.       *)
  <1>1. CASE /\ UNCHANGED <<status, born, told>>
             /\ \A q \in Requests : pc[q] = "notify" =>
                   pc'[q] = "notify" /\ approval'[q] = approval[q] /\ loaded'[q] = loaded[q]
    BY <1>1 DEF OutcomeNoticed, Notices
  <1>2. UNCHANGED vars => <1>1!1
    BY DEF vars, locks, request
  <1>3. \A r \in Requests : CreateApproval(r) \/ UpdateApproval(r) => <1>1!1
    BY DEF CreateApproval, UpdateApproval, Start, Goto
  <1>4. \A r \in Requests : LockTask(r) \/ Check(r) \/ ShareTask(r) => <1>1!1
    BY DEF LockTask, Check, ShareTask, Goto, request
  <1>5. ASSUME NEW r \in Requests, Insert(r)
        PROVE  status'[a] \in told'[a] \/ \E q \in Requests : Notices(q, a)'
    <2>1. /\ approval[r] \in Approvals /\ status'[approval[r]] = born'[approval[r]]
          /\ \A b \in Approvals \ {approval[r]} : status'[b] = status[b] /\ born'[b] = born[b]
          /\ UNCHANGED <<told, approval, loaded>>
          /\ \A q \in Requests : pc[q] = "notify" => pc'[q] = "notify"
      BY <1>5 DEF Insert, Goto, request
    <2> QED BY <2>1 DEF OutcomeNoticed, Notices
  <1>6. ASSUME NEW r \in Requests, Save(r)
        PROVE  status'[a] \in told'[a] \/ \E q \in Requests : Notices(q, a)'
    <2>1. /\ approval[r] \in Approvals /\ pc'[r] = "notify"
          /\ UNCHANGED <<born, told, approval, loaded>>
          /\ \A q \in Requests : pc[q] = "notify" => pc'[q] = "notify"
      BY <1>6 DEF Save, Goto, request
    <2>2. CASE status'[a] = status[a]
      BY <2>1, <2>2 DEF OutcomeNoticed, Notices
    <2>3. CASE status'[a] # status[a]
      <3>1. a = approval[r] /\ status'[a] # loaded[r]
        BY <1>6, <2>1, <2>3 DEF Save
      <3> QED BY <2>1, <3>1 DEF Notices
    <2> QED BY <2>2, <2>3
  <1>7. ASSUME NEW r \in Requests, Notify(r)
        PROVE  status'[a] \in told'[a] \/ \E q \in Requests : Notices(q, a)'
    <2>1. /\ approval[r] \in Approvals /\ told[a] \subseteq told'[a]
          /\ UNCHANGED <<status, born, approval, loaded>>
          /\ \A q \in Requests \ {r} : pc'[q] = pc[q]
      BY <1>7 DEF Notify, Goto, request, locks
    <2>2. CASE Notices(r, a)
      <3>1. told' = [told EXCEPT ![a] = @ \cup {status[a]}]
        BY <1>7, <2>1, <2>2 DEF Notify, Notices, ResolvedByRequest
      <3> QED BY <2>1, <3>1
    <2>3. CASE ~Notices(r, a)
      BY <2>1, <2>3 DEF OutcomeNoticed, Notices
    <2> QED BY <2>2, <2>3
  <1>8. \A r \in Requests : Abort(r) => <1>1!1
    BY AbortWaits DEF Abort, Goto, request
  <1> QED BY <1>1, <1>2, <1>3, <1>4, <1>5, <1>6, <1>7, <1>8 DEF Next, Step

(* Once no request works on an approval, the lead has been told of its     *)
(* outcome if an update brought it about, however the updates raced.       *)
THEOREM LeadIsTold == Spec => []LeadToldOfOutcome
  <1>1. IInv /\ OutcomeNoticed /\ [Next]_vars => OutcomeNoticed'
    BY IInvNext, NoticedNext
  <1>2. OutcomeNoticed => LeadToldOfOutcome
    BY DEF OutcomeNoticed, Notices, LeadToldOfOutcome
  <1> QED BY <1>1, <1>2, NoticedInit, IInvAlways, PTL DEF Spec

-----------------------------------------------------------------------------
(* Who owns a task wants it, and whoever is still locking has locked all   *)
(* that it wants before it.                                                *)
LocksInOrder == \A r \in Requests : \A t \in Tasks : owner[t] = r =>
    /\ pc[r] \in {"lock", "check", "create", "update"} /\ t \in wanted[r]
    /\ pc[r] = "lock" => \A u \in wanted[r] : u < t => owner[u] = r

(* Shares are held by those who insert, and not beside a FOR UPDATE. *)
SharesToInsert == \A r \in Requests : \A t \in Tasks :
    r \in sharers[t] => pc[r] \in {"share", "create"}

Exclusive == \A t \in Tasks : owner[t] # None => sharers[t] = {}

LockInv == LocksInOrder /\ SharesToInsert /\ Exclusive

LEMMA LockInvInit == Init => LockInv
  BY ApprovalsAssumption DEF Init, LockInv, LocksInOrder, SharesToInsert, Exclusive

LEMMA InOrderNext == TypeOK /\ LocksInOrder /\ [Next]_vars => LocksInOrder'
  <1> SUFFICES ASSUME TypeOK, LocksInOrder, [Next]_vars PROVE LocksInOrder'
    OBVIOUS
  <1> USE DEF Goto, request, locks
  <1>1. CASE UNCHANGED vars
    BY <1>1 DEF vars, locks, LocksInOrder
  <1>2. ASSUME NEW r \in Requests, CreateApproval(r) \/ UpdateApproval(r)
        PROVE  LocksInOrder'
    <2>1. PICK ts \in SUBSET Tasks, p \in {"lock", "share", "create", "update"} :
             pc' = [pc EXCEPT ![r] = p] /\ wanted' = [wanted EXCEPT ![r] = ts]
      BY <1>2 DEF TypeOK, CreateApproval, UpdateApproval, Start
    <2>2. pc[r] = "idle" /\ owner' = owner
      BY <1>2 DEF CreateApproval, UpdateApproval, Start
    <2>3. \A t \in Tasks : owner[t] # r
      BY <2>2 DEF LocksInOrder
    <2> QED BY <2>1, <2>2, <2>3 DEF TypeOK, LocksInOrder
  <1>3. ASSUME NEW r \in Requests, LockTask(r) PROVE LocksInOrder'
    <2>1. PICK t \in wanted[r] :
            /\ owner[t] = None /\ \A u \in wanted[r] : u < t => owner[u] = r
            /\ owner' = [owner EXCEPT ![t] = r]
            /\ pc' = pc \/ pc' = [pc EXCEPT ![r] = "check"]
      BY <1>3 DEF LockTask
    <2>2. t \in Tasks /\ pc[r] = "lock" /\ wanted' = wanted
      BY <1>3 DEF LockTask, TypeOK
    <2>3. \A u \in Tasks : owner'[u] = IF u = t THEN r ELSE owner[u]
      BY <2>1, <2>2 DEF TypeOK
    <2>4. \A q \in Requests : pc'[q] = pc[q] \/ (q = r /\ pc'[r] = "check")
      <3>1. CASE pc' = pc
        BY <3>1
      <3>2. CASE pc' = [pc EXCEPT ![r] = "check"]
        BY <3>2 DEF TypeOK
      <3> QED BY <2>1, <3>1, <3>2
    <2> SUFFICES ASSUME NEW q \in Requests, NEW u \in Tasks, owner'[u] = q
                 PROVE  /\ pc'[q] \in {"lock", "check", "create", "update"} /\ u \in wanted[q]
                        /\ pc'[q] = "lock" => \A v \in wanted[q] : v < u => owner'[v] = q
      BY <2>2 DEF LocksInOrder
    <2>5. wanted[q] \subseteq Tasks /\ wanted[r] \subseteq Tasks
      BY DEF TypeOK
    <2>6. CASE u = t
      BY <2>1, <2>2, <2>3, <2>4, <2>5, <2>6
    <2>7. CASE u # t
      <3>1. owner[u] = q
        BY <2>3, <2>7
      <3>2. /\ pc[q] \in {"lock", "check", "create", "update"} /\ u \in wanted[q]
            /\ pc[q] = "lock" => \A v \in wanted[q] : v < u => owner[v] = q
        BY <3>1 DEF LocksInOrder
      <3>3. pc'[q] = "lock" => \A v \in wanted[q] : v < u => owner'[v] = q
        <4> SUFFICES ASSUME pc'[q] = "lock", NEW v \in wanted[q], v < u PROVE owner'[v] = q
          OBVIOUS
        <4>1. owner[v] = q
          BY <2>4, <3>2
        <4>2. v # t
          BY <2>1, <4>1, ApprovalsAssumption
        <4> QED BY <2>3, <2>5, <4>1, <4>2
      <3> QED BY <2>4, <3>2, <3>3
    <2> QED BY <2>6, <2>7
  <1>4. ASSUME NEW r \in Requests, Check(r) \/ Insert(r) \/ Save(r) PROVE LocksInOrder'
    <2>1. /\ pc[r] \in {"check", "create", "update"} /\ wanted' = wanted
          /\ \/ EndTransaction(r) /\ \E p \in {"idle", "notify"} : pc' = [pc EXCEPT ![r] = p]
             \/ owner' = owner /\ \E p \in {"create", "update"} : pc' = [pc EXCEPT ![r] = p]
      BY <1>4 DEF Check, Insert, Save, Finish
    <2>2. CASE owner' = owner /\ \E p \in {"create", "update"} : pc' = [pc EXCEPT ![r] = p]
      BY <2>1, <2>2 DEF TypeOK, LocksInOrder
    <2>3. CASE EndTransaction(r) /\ \E p \in {"idle", "notify"} : pc' = [pc EXCEPT ![r] = p]
      <3>1. \A t \in Tasks : owner'[t] = IF owner[t] = r THEN None ELSE owner[t]
        BY <2>3 DEF EndTransaction
      <3>2. \A q \in Requests \ {r} : pc'[q] = pc[q]
        BY <2>3 DEF TypeOK
      <3> SUFFICES ASSUME NEW q \in Requests, NEW t \in Tasks, owner'[t] = q
                   PROVE  /\ pc'[q] \in {"lock", "check", "create", "update"} /\ t \in wanted[q]
                          /\ pc'[q] = "lock" => \A u \in wanted[q] : u < t => owner'[u] = q
        BY <2>1 DEF LocksInOrder
      <3>3. owner[t] = q /\ q # r
        BY <3>1, ApprovalsAssumption
      <3>4. /\ pc[q] \in {"lock", "check", "create", "update"} /\ t \in wanted[q]
            /\ pc[q] = "lock" => \A u \in wanted[q] : u < t => owner[u] = q
        BY <3>3 DEF LocksInOrder
      <3>5. wanted[q] \subseteq Tasks
        BY DEF TypeOK
      <3> QED BY <3>1, <3>2, <3>3, <3>4, <3>5
    <2> QED BY <2>1, <2>2, <2>3
  <1>5. ASSUME NEW r \in Requests, Notify(r) PROVE LocksInOrder'
    <2>1. pc[r] = "notify" /\ pc' = [pc EXCEPT ![r] = "idle"] /\ UNCHANGED <<owner, wanted>>
      BY <1>5 DEF Notify
    <2>2. \A t \in Tasks : owner[t] # r
      BY <2>1 DEF LocksInOrder
    <2> QED BY <2>1, <2>2 DEF TypeOK, LocksInOrder
  <1>6. ASSUME NEW r \in Requests, ShareTask(r) PROVE LocksInOrder'
    <2>1. /\ pc[r] = "share" /\ pc' \in {pc, [pc EXCEPT ![r] = "create"]}
          /\ UNCHANGED <<owner, wanted>>
      BY <1>6 DEF ShareTask
    <2>2. \A t \in Tasks : owner[t] # r
      BY <2>1 DEF LocksInOrder
    <2> QED BY <2>1, <2>2 DEF TypeOK, LocksInOrder
  <1>7. ASSUME NEW r \in Requests, Abort(r) PROVE LocksInOrder'
    <2>1. /\ wanted' = wanted /\ pc' = [pc EXCEPT ![r] = "idle"]
          /\ owner' = [t \in Tasks |-> IF owner[t] = r THEN None ELSE owner[t]]
      BY <1>7 DEF Abort, EndTransaction
    <2> SUFFICES ASSUME NEW q \in Requests, NEW t \in Tasks, owner'[t] = q
                 PROVE  /\ pc'[q] \in {"lock", "check", "create", "update"} /\ t \in wanted[q]
                        /\ pc'[q] = "lock" => \A u \in wanted[q] : u < t => owner'[u] = q
      BY <2>1 DEF LocksInOrder
    <2>2. owner[t] = q /\ q # r
      BY <2>1, ApprovalsAssumption
    <2>3. wanted[q] \subseteq Tasks /\ pc'[q] = pc[q]
      BY <2>1, <2>2 DEF TypeOK
    <2> QED BY <2>1, <2>2, <2>3 DEF LocksInOrder
  <1> QED BY <1>1, <1>2, <1>3, <1>4, <1>5, <1>6, <1>7 DEF Next, Step

LEMMA SharesNext ==
    TypeOK /\ SharesToInsert /\ Exclusive /\ [Next]_vars => (SharesToInsert /\ Exclusive)'
  <1> SUFFICES ASSUME TypeOK, SharesToInsert, Exclusive, [Next]_vars
               PROVE  (SharesToInsert /\ Exclusive)'
    OBVIOUS
  <1> USE DEF Goto, request, TypeOK
  <1>1. CASE UNCHANGED vars
    BY <1>1 DEF vars, locks, SharesToInsert, Exclusive
  <1>2. ASSUME NEW r \in Requests, CreateApproval(r) \/ UpdateApproval(r)
        PROVE  (SharesToInsert /\ Exclusive)'
    <2>1. /\ pc[r] = "idle" /\ UNCHANGED <<owner, sharers>>
          /\ \A q \in Requests \ {r} : pc'[q] = pc[q]
      BY <1>2 DEF CreateApproval, UpdateApproval, Start
    <2> QED BY <2>1 DEF SharesToInsert, Exclusive
  <1>3. ASSUME NEW r \in Requests, LockTask(r) PROVE (SharesToInsert /\ Exclusive)'
    <2>1. PICK t \in wanted[r] : sharers[t] = {} /\ owner' = [owner EXCEPT ![t] = r]
      BY <1>3 DEF LockTask
    <2>2. /\ pc[r] = "lock" /\ sharers' = sharers
          /\ \A q \in Requests \ {r} : pc'[q] = pc[q]
      BY <1>3 DEF LockTask
    <2> QED BY <2>1, <2>2 DEF SharesToInsert, Exclusive
  <1>4. ASSUME NEW r \in Requests, Check(r) \/ Insert(r) \/ Save(r) \/ Abort(r)
        PROVE  (SharesToInsert /\ Exclusive)'
    <2>1. /\ EndTransaction(r) \/ (pc[r] = "check" /\ UNCHANGED <<owner, sharers>>)
          /\ \A q \in Requests \ {r} : pc'[q] = pc[q]
      BY <1>4 DEF Check, Insert, Save, Abort
    <2> QED BY <2>1, ApprovalsAssumption DEF SharesToInsert, Exclusive, EndTransaction
  <1>5. ASSUME NEW r \in Requests, ShareTask(r) PROVE (SharesToInsert /\ Exclusive)'
    <2> DEFINE t == Head(left[r])
    <2>1. /\ pc[r] = "share" /\ pc'[r] \in {"share", "create"} /\ owner[t] = None
          /\ owner' = owner /\ sharers' = [sharers EXCEPT ![t] = @ \cup {r}]
          /\ \A q \in Requests \ {r} : pc'[q] = pc[q]
      BY <1>5 DEF ShareTask
    <2> HIDE DEF t
    <2> QED BY <2>1 DEF SharesToInsert, Exclusive
  <1>6. ASSUME NEW r \in Requests, Notify(r) PROVE (SharesToInsert /\ Exclusive)'
    <2>1. /\ pc[r] = "notify" /\ UNCHANGED <<owner, sharers>>
          /\ \A q \in Requests \ {r} : pc'[q] = pc[q]
      BY <1>6 DEF Notify, locks
    <2> QED BY <2>1 DEF SharesToInsert, Exclusive
  <1> QED BY <1>1, <1>2, <1>3, <1>4, <1>5, <1>6 DEF Next, Step

(* In a finite group where everybody waits for a task, somebody waits for  *)
(* the last one.                                                           *)
LEMMA LastOne ==
    ASSUME NEW S, IsFiniteSet(S), S # {}, NEW f \in [S -> Nat]
    PROVE  \E m \in S : \A r \in S : f[r] <= f[m]
  <1> DEFINE Above(r) == {q \in S : f[q] >= f[r]}
             T == {Above(r) : r \in S}
             R == StrictSubsetOrdering(S)
  <1>1. IsWellFoundedOn(R, SUBSET S)
    BY FS_StrictSubsetOrderingWellFounded, FS_FiniteSubsetsOfFinite
  <1>2. T \subseteq SUBSET S /\ T # {}
    <2>1. \E r \in S : Above(r) \in T
      OBVIOUS
    <2> QED BY <2>1
  <1>3. PICK x \in T : \A y \in T : ~(<<y, x>> \in R)
    <2> HIDE DEF T, R
    <2> QED BY <1>1, <1>2, WFMin
  <1>4. PICK m \in S : x = Above(m)
    BY <1>3
  <1>5. ASSUME NEW r \in S, f[r] > f[m] PROVE FALSE
    <2>1. Above(r) \in SUBSET S /\ Above(m) \in SUBSET S
      OBVIOUS
    <2>2. Above(r) \subseteq Above(m) /\ m \in Above(m) /\ m \notin Above(r)
      BY <1>5
    <2> HIDE DEF Above
    <2>3. <<Above(r), Above(m)>> \in R
      BY <2>1, <2>2 DEF StrictSubsetOrdering
    <2> QED BY <1>3, <1>4, <2>3
  <1> QED BY <1>5

LEMMA OrderIsSafe == TypeOK /\ LockInv => OnlyUnsortedInsertsDeadlock
  <1> SUFFICES ASSUME TypeOK, LockInv, NEW S \in SUBSET Requests, Circle(S),
                      \A r \in S, t \in Tasks :
                         pc[r] = "share" /\ r \in sharers[t] => ~(t > Head(left[r]))
               PROVE  FALSE
    BY DEF OnlyUnsortedInsertsDeadlock
  <1> USE DEF LockInv
  (* t is the task that r waits for.                                       *)
  <1> DEFINE Locking(r, t) == /\ pc[r] = "lock" /\ t \in wanted[r] /\ owner[t] # r
                              /\ \A u \in wanted[r] : u < t => owner[u] = r
                              /\ \E q \in S \ {r} : owner[t] = q \/ q \in sharers[t]
             Sharing(r, t) == /\ pc[r] = "share" /\ t = Head(left[r])
                              /\ \E q \in S \ {r} : owner[t] = q
             Blocks(r, t) == Locking(r, t) \/ Sharing(r, t)
             f == [r \in S |-> CHOOSE t : Blocks(r, t)]
  <1>1. \A r \in S : Blocks(r, f[r])
    <2> SUFFICES ASSUME NEW r \in S PROVE Blocks(r, f[r])
      OBVIOUS
    <2>1. PICK q \in S \ {r} : WaitsFor(r, q)
      BY DEF Circle
    <2>2. \E t : Blocks(r, t)
      BY <2>1 DEF WaitsFor
    <2> HIDE DEF Blocks
    <2>3. Blocks(r, CHOOSE t : Blocks(r, t))
      BY <2>2, Zenon
    <2> QED BY <2>3
  <1> HIDE DEF f
  <1>2. ASSUME NEW r \in S PROVE f[r] \in Tasks /\ f[r] \in Nat
    <2>1. CASE Locking(r, f[r])
      BY <2>1, ApprovalsAssumption DEF TypeOK
    <2>2. CASE Sharing(r, f[r])
      <3>1. left[r] \in Seq(Tasks) /\ left[r] # <<>>
        BY <2>2 DEF TypeOK, ListsOK
      <3>2. Head(left[r]) \in Tasks
        BY <3>1
      <3> QED BY <2>2, <3>2, ApprovalsAssumption
    <2> QED BY <1>1, <2>1, <2>2
  <1>3. f \in [S -> Nat]
    BY <1>2 DEF f
  <1>4. IsFiniteSet(S) /\ S # {}
    BY ApprovalsAssumption, FS_Subset DEF Circle
  <1>5. PICK m \in S : \A r \in S : f[r] <= f[m]
    BY <1>3, <1>4, LastOne
  <1>6. PICK q \in S \ {m} : owner[f[m]] = q \/ q \in sharers[f[m]]
    BY <1>1
  <1>7. f[m] \in Tasks /\ f[m] \in Nat /\ f[q] \in Tasks /\ f[q] \in Nat /\ f[q] <= f[m]
    BY <1>2, <1>5
  (* Its owner would have locked what it waits for before it.              *)
  <1>8. CASE owner[f[m]] = q
    <2>1. pc[q] = "lock"
      BY <1>1, <1>7, <1>8 DEF LocksInOrder
    <2>2. f[q] \in wanted[q] /\ owner[f[q]] # q
      BY <1>1, <2>1
    <2>3. f[m] \in wanted[q] /\ \A u \in wanted[q] : u < f[m] => owner[u] = q
      BY <1>7, <1>8, <2>1 DEF LocksInOrder
    <2>4. f[m] = f[q]
      BY <1>7, <2>2, <2>3
    <2> QED BY <1>8, <2>2, <2>4
  (* Who shares it waits for a task that is owned, so not for this one.    *)
  <1>9. CASE q \in sharers[f[m]]
    <2>1. pc[q] = "share"
      BY <1>1, <1>7, <1>9 DEF SharesToInsert
    <2>2. f[q] = Head(left[q]) /\ owner[f[q]] \in Requests
      BY <1>1, <2>1
    <2>3. ~(f[m] > f[q])
      BY <1>7, <1>9, <2>1, <2>2
    <2>4. f[m] = f[q]
      BY <1>7, <2>3
    <2> QED BY <1>7, <1>9, <2>2, <2>4, ApprovalsAssumption DEF Exclusive
  <1> QED BY <1>6, <1>8, <1>9

(* For any number of requests and tasks, the order in which                *)
(* lock_tasks_for_approval takes its locks lets no circle of waiting       *)
(* requests come about (approval_task_links.py:125-141), except through an *)
(* insert that is not checked and whose foreign keys take theirs in        *)
(* another order.                                                          *)
THEOREM OnlyUnsortedInserts == Spec => []OnlyUnsortedInsertsDeadlock
  <1>1. TypeOK /\ LockInv /\ [Next]_vars => (TypeOK /\ LockInv)'
    BY TypeNext, InOrderNext, SharesNext DEF LockInv
  <1>2. Init => TypeOK /\ LockInv
    BY IInvInit, LockInvInit DEF IInv
  <1> QED BY <1>1, <1>2, OrderIsSafe, PTL DEF Spec
=============================================================================
