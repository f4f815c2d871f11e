-------------------------- MODULE AgentLifecycleProofs --------------------------
(***************************************************************************)
(* Proofs about AgentLifecycle for any number of sessions and any bounds:   *)
(* its type invariant; with one reconciler, the limit on its wakes and that *)
(* it repeats no committed generation; while nothing fails, the job behind  *)
(* every wait; and that only a race or a failure locks the agent out.       *)
(***************************************************************************)
EXTENDS AgentLifecycle, TLAPS

-----------------------------------------------------------------------------
(* The columns of a merged row: those that were changed come from the copy. *)
LEMMA MergeColumns ==
    ASSUME NEW r \in Rows, NEW from \in Rows, NEW to \in Rows
    PROVE  /\ Merge(r, from, to) \in Rows
           /\ Merge(r, from, to).wakes = IF to.wakes # from.wakes THEN to.wakes ELSE r.wakes
           /\ Merge(r, from, to).generation =
                IF to.generation # from.generation THEN to.generation ELSE r.generation
           /\ Merge(r, from, to).seen = IF to.seen # from.seen THEN to.seen ELSE r.seen
           /\ Merge(r, from, to).wake = IF to.wake # from.wake THEN to.wake ELSE r.wake
           /\ Merge(r, from, to).deadline =
                IF to.deadline # from.deadline THEN to.deadline ELSE r.deadline
  BY DEF Merge, Rows, Statuses

(* A reconciler that is under way has a job. *)
HasJob == \A r \in Reconcilers :
    pc[r] \in {"begin", "gateway", "commit", "enqueue", "offline"} => job[r] \in Jobs

TypeInv == TypeOK /\ HasJob

LEMMA TypeInit == Init => TypeInv
  <1>1. InitialRow \in Rows
    BY DEF InitialRow, Rows, Statuses, Never
  <1>2. Init => raced \in BOOLEAN
    BY DEF Init
  <1> QED BY <1>1, <1>2, LifecycleAssumption DEF Init, TypeInv, TypeOK, HasJob, PCs, Sessions, Never

LEMMA TypeRaces ==
    ASSUME NEW b, RacesIf(b)
    PROVE  raced' \in BOOLEAN /\ UNCHANGED <<woken, undone, reran, heard>>
  BY DEF RacesIf

LEMMA TypeLoad ==
    ASSUME TypeInv, NEW s \in Sessions,
           UpdateLoad(s) \/ SyncLoad(s) \/ AgentCalls(s) \/ AssignTask(s) \/ Refresh(s),
           s \notin Reconcilers
    PROVE  TypeInv'
  <1>1. orm' \in [Sessions -> Rows] /\ base' \in [Sessions -> Rows]
    BY DEF TypeInv, TypeOK, UpdateLoad, SyncLoad, AgentCalls, AssignTask, Refresh, Holds
  <1>2. budget' \in [{"updates", "syncs", "beats", "errors", "timeouts", "faults"} -> Nat]
    BY DEF TypeInv, TypeOK, UpdateLoad, SyncLoad, AgentCalls, AssignTask, Refresh, Spend
  <1>3. \E p \in {"mint", "tools", "checkin", "touch", "assign", "begin"} :
           pc' = [pc EXCEPT ![s] = p]
    BY DEF UpdateLoad, SyncLoad, AgentCalls, AssignTask, Refresh, Goto
  <1>4. pc[s] \in {"idle", "refresh"}
    BY DEF UpdateLoad, SyncLoad, AgentCalls, AssignTask, Refresh
  <1>5. UNCHANGED <<row, tx, lock, token, job, queue, gateway, clock, passed, minted, history>>
    BY DEF UpdateLoad, SyncLoad, AgentCalls, AssignTask, Refresh
  <1> QED BY <1>1, <1>2, <1>3, <1>4, <1>5 DEF TypeInv, TypeOK, HasJob, PCs, history

LEMMA TypeTools ==
    ASSUME TypeInv, NEW s \in Sessions \ Reconcilers, ReadTools(s)
    PROVE  TypeInv'
  <1>1. pc[s] = "tools" /\ \E p \in {"begin", "mint", "idle"} : pc' = [pc EXCEPT ![s] = p]
    BY DEF ReadTools, Goto
  <1>2. token' \in [Sessions -> Nat]
    BY DEF TypeInv, TypeOK, ReadTools
  <1>3. raced' \in BOOLEAN /\ UNCHANGED <<row, tx, lock, orm, base, job, queue, gateway, clock,
                                       passed, minted, budget, woken, undone, reran, heard>>
    BY TypeRaces DEF TypeInv, TypeOK, ReadTools, history
  <1>4. pc' \in [Sessions -> PCs] /\ \A q \in Sessions : pc'[q] \in {"gateway", "commit"} <=> lock' = q
    BY <1>1, <1>3 DEF TypeInv, TypeOK, PCs
  <1>5. HasJob'
    BY <1>1, <1>3 DEF TypeInv, TypeOK, HasJob
  <1> QED BY <1>2, <1>3, <1>4, <1>5 DEF TypeInv, TypeOK

LEMMA TypeMint ==
    ASSUME TypeInv, NEW s \in Sessions, MintToken(s)
    PROVE  TypeInv'
  <1> DEFINE copy == [orm[s] EXCEPT !.token = minted']
  <1>1. minted' \in Nat
    BY DEF TypeInv, TypeOK, HasJob, MintToken, HashStored
  <1>2. copy \in Rows
    BY <1>1 DEF TypeInv, TypeOK, HasJob, Rows
  <1>3. row' \in Rows
    BY <1>2, MergeColumns DEF TypeInv, TypeOK, HasJob, MintToken, HashStored
  <1>4. raced' \in BOOLEAN /\ UNCHANGED <<woken, undone, reran, heard>>
    BY TypeRaces DEF MintToken
  <1> QED BY <1>1, <1>3, <1>4 DEF TypeInv, TypeOK, HasJob, MintToken, Goto, PCs

LEMMA TypeBegin ==
    ASSUME TypeInv, NEW s \in Sessions, RunBegin(s)
    PROVE  TypeInv'
  <1> DEFINE requested ==
             [orm[s] EXCEPT
                !.token = IF s \in Reconcilers THEN minted' ELSE @,
                !.status = "updating",
                !.generation = @ + 1,
                !.error = FALSE,
                !.deadline = IF Wakes(s) THEN clock' ELSE Never,
                !.wakes = IF Wakes(s) THEN @ + 1 ELSE @,
                !.wake = IF Wakes(s) THEN clock' ELSE @]
  <1>1. clock' \in Nat /\ minted' \in Nat /\ token' \in [Sessions -> Nat] /\ passed' \in 0..clock'
    BY DEF TypeInv, TypeOK, HasJob, RunBegin
  <1>2. requested \in Rows
    <2>1. orm[s] \in Rows
      BY DEF TypeInv, TypeOK
    <2>2. orm[s].generation + 1 \in Nat /\ orm[s].wakes + 1 \in Nat /\ Never \in Nat
      BY <2>1 DEF Rows, Never
    <2> QED BY <1>1, <2>1, <2>2 DEF Rows, Statuses
  <1>3. orm' = [orm EXCEPT ![s] = requested] /\ base' = [base EXCEPT ![s] = requested]
        /\ tx' = Merge(row, base[s], requested)
    BY DEF RunBegin, Holds
  <1>4. tx' \in Rows
    BY <1>2, <1>3, MergeColumns DEF TypeInv, TypeOK, HasJob
  <1> HIDE DEF requested
  <1>5. orm' \in [Sessions -> Rows] /\ base' \in [Sessions -> Rows]
    BY <1>2, <1>3 DEF TypeInv, TypeOK, HasJob
  <1>6. \A q \in Sessions : pc'[q] \in {"gateway", "commit"} <=> lock' = q
    BY LifecycleAssumption DEF TypeInv, TypeOK, HasJob, RunBegin, Unlocked, Goto
  <1>7. HasJob'
    BY DEF TypeInv, TypeOK, HasJob, RunBegin, Goto
  <1>8. pc' \in [Sessions -> PCs]
    BY DEF TypeInv, TypeOK, RunBegin, Goto, PCs
  <1>9. lock' \in Sessions \cup {NoSession}
        /\ UNCHANGED <<row, job, queue, gateway, passed, budget>>
    BY DEF RunBegin
  <1>10. raced' \in BOOLEAN /\ UNCHANGED <<woken, undone, reran, heard>>
    BY TypeRaces DEF RunBegin
  <1> QED BY <1>1, <1>4, <1>5, <1>6, <1>7, <1>8, <1>9, <1>10 DEF TypeInv, TypeOK

LEMMA TypeApply ==
    ASSUME TypeInv, NEW s \in Sessions, RunApply(s)
    PROVE  TypeInv'
  BY DEF TypeInv, TypeOK, HasJob, RunApply, Goto, PCs

LEMMA TypeCount ==
    ASSUME TypeInv, NEW s \in Sessions, NEW sent \in 0..1, CountRun(s, sent),
           s \in Reconcilers => job[s].generation \in Nat
    PROVE  woken' \in Nat /\ undone' \in Nat /\ reran' \subseteq Nat /\ heard' \in Nat
  <1>1. woken \in Nat /\ undone \in Nat /\ reran \subseteq Nat /\ heard \in Nat
    BY DEF TypeInv, TypeOK
  <1>2. woken' \in Nat /\ undone' \in Nat /\ heard' \in Nat
    BY <1>1 DEF CountRun
  <1>3. reran' \subseteq Nat
    BY <1>1 DEF CountRun
  <1> QED BY <1>2, <1>3

LEMMA TypeRollBack ==
    ASSUME TypeInv, NEW s \in Sessions, RolledBack(s)
    PROVE  raced' \in BOOLEAN /\ undone' \in Nat /\ UNCHANGED <<woken, reran, heard>>
  BY DEF RolledBack, TypeInv, TypeOK

LEMMA TypeCommit ==
    ASSUME TypeInv, NEW s \in Sessions, RunCommit(s)
    PROVE  TypeInv'
  <1> DEFINE done == [orm[s] EXCEPT !.status = "online", !.error = FALSE,
                        !.deadline = IF Wakes(s) THEN clock' ELSE Never]
  <1>1. clock' \in Nat /\ passed' \in 0..clock'
    BY DEF TypeInv, TypeOK, RunCommit
  <1>2. done \in Rows
    BY <1>1 DEF TypeInv, TypeOK, Rows, Statuses, Never
  <1>3. row' \in Rows
    BY <1>2, MergeColumns DEF TypeInv, TypeOK, RunCommit
  <1>4. woken' \in Nat /\ undone' \in Nat /\ reran' \subseteq Nat /\ heard' \in Nat
    BY TypeCount DEF TypeInv, HasJob, RunCommit, Jobs
  <1>5. \A q \in Sessions : pc'[q] \in {"gateway", "commit"} <=> lock' = q
    BY LifecycleAssumption DEF TypeInv, TypeOK, RunCommit, Goto
  <1>6. pc' \in [Sessions -> PCs] /\ HasJob'
    BY DEF TypeInv, TypeOK, HasJob, RunCommit, Goto, PCs
  <1> QED BY <1>1, <1>3, <1>4, <1>5, <1>6 DEF TypeInv, TypeOK, RunCommit

LEMMA TypeEnqueue ==
    ASSUME TypeInv, NEW s \in Sessions, RunEnqueue(s)
    PROVE  TypeInv'
  <1>1. queue' \subseteq Jobs
    BY LifecycleAssumption DEF TypeInv, TypeOK, RunEnqueue, Rows, Jobs
  <1>2. budget' \in [{"updates", "syncs", "beats", "errors", "timeouts", "faults"} -> Nat]
    BY DEF TypeInv, TypeOK, RunEnqueue, Spend
  <1>3. orm' \in [Sessions -> Rows] /\ base' \in [Sessions -> Rows]
    BY DEF TypeInv, TypeOK, RunEnqueue, Holds
  <1>4. pc' \in [Sessions -> PCs] /\ \A q \in Sessions : pc'[q] \in {"gateway", "commit"} <=> lock' = q
    BY DEF TypeInv, TypeOK, RunEnqueue, Goto, PCs
  <1>5. job' \in [Reconcilers -> Jobs \cup {NoJob}] /\ HasJob'
    BY DEF TypeInv, TypeOK, HasJob, RunEnqueue, Goto, Sessions
  <1>6. UNCHANGED <<row, tx, lock, token, gateway, clock, passed, minted, history>>
    BY DEF RunEnqueue
  <1> QED BY <1>1, <1>2, <1>3, <1>4, <1>5, <1>6 DEF TypeInv, TypeOK, history

LEMMA MoreAttempts ==
    ASSUME NEW j \in Jobs, j.attempts + 1 <= MaxRetries
    PROVE  [j EXCEPT !.attempts = @ + 1, !.at = Never] \in Jobs
  <1>1. j.attempts + 1 \in 0..MaxRetries /\ Never \in Nat
    BY LifecycleAssumption DEF Jobs, Never
  <1> QED BY <1>1 DEF Jobs

LEMMA TypeRetry ==
    ASSUME TypeInv, NEW s \in Reconcilers, Retry(s), job[s] \in Jobs
    PROVE  /\ queue' \subseteq Jobs /\ job' \in [Reconcilers -> Jobs \cup {NoJob}]
           /\ pc' = [pc EXCEPT ![s] = "idle"]
           /\ \A r \in Reconcilers \ {s} : job'[r] = job[r]
  <1> DEFINE again == [job[s] EXCEPT !.attempts = @ + 1, !.at = Never]
  <1>1. job[s].attempts + 1 <= MaxRetries => again \in Jobs
    BY LifecycleAssumption, MoreAttempts
  <1>2. queue' \subseteq Jobs
    <2>1. CASE job[s].attempts + 1 > MaxRetries
      BY <2>1 DEF Retry, TypeInv, TypeOK
    <2>2. CASE ~(job[s].attempts + 1 > MaxRetries)
      <3>1. again \in Jobs
        BY <1>1, <2>2, LifecycleAssumption DEF Jobs
      <3> QED BY <2>2, <3>1 DEF Retry, TypeInv, TypeOK
    <2> QED BY <2>1, <2>2
  <1> QED BY <1>2 DEF Retry, TypeInv, TypeOK, Goto

LEMMA TypeFail ==
    ASSUME TypeInv, NEW s \in Sessions, RunFail(s), s \in Reconcilers \cup Updaters \cup Syncers
    PROVE  TypeInv'
  <1> DEFINE failed == [orm[s] EXCEPT !.error = TRUE]
  <1>1. failed \in Rows
    BY DEF TypeInv, TypeOK, Rows
  <1>2. row' \in Rows
    BY <1>1, MergeColumns DEF TypeInv, TypeOK, RunFail
  <1>3. gateway' \in Nat /\ orm' \in [Sessions -> Rows] /\ base' \in [Sessions -> Rows]
    BY <1>2 DEF TypeInv, TypeOK, RunFail, Holds
  <1>4. budget' \in [{"updates", "syncs", "beats", "errors", "timeouts", "faults"} -> Nat]
    BY DEF TypeInv, TypeOK, RunFail, Spend
  <1>5. woken' \in Nat /\ undone' \in Nat /\ reran' \subseteq Nat /\ heard' \in Nat
    BY TypeCount DEF TypeInv, HasJob, RunFail, Jobs
  <1>6. PICK p \in {"idle", "begin"} :
            /\ pc' = [pc EXCEPT ![s] = p]
            /\ s \in Reconcilers => p = "idle"
            /\ queue' \subseteq Jobs /\ job' \in [Reconcilers -> Jobs \cup {NoJob}]
            /\ \A r \in Reconcilers \ {s} : job'[r] = job[r]
    <2>1. CASE s \in Reconcilers
      BY <2>1, TypeRetry DEF TypeInv, HasJob, RunFail
    <2>2. CASE s \notin Reconcilers
      BY <2>2 DEF TypeInv, TypeOK, RunFail, Goto
    <2> QED BY <2>1, <2>2
  <1>7. \A q \in Sessions : pc'[q] \in {"gateway", "commit"} <=> lock' = q
    BY <1>6, LifecycleAssumption DEF TypeInv, TypeOK, RunFail
  <1>8. pc' \in [Sessions -> PCs] /\ HasJob'
    BY <1>6 DEF TypeInv, TypeOK, HasJob, PCs, Sessions
  <1>9. lock' = NoSession /\ raced' \in BOOLEAN /\ UNCHANGED <<tx, token, clock, passed, minted>>
    BY DEF RunFail
  <1> QED BY <1>2, <1>3, <1>4, <1>5, <1>6, <1>7, <1>8, <1>9 DEF TypeInv, TypeOK

LEMMA TypeTimeout ==
    ASSUME TypeInv, NEW s \in Sessions, RunTimeout(s)
    PROVE  TypeInv'
  <1>1. /\ queue' \subseteq Jobs /\ job' \in [Reconcilers -> Jobs \cup {NoJob}]
        /\ pc' = [pc EXCEPT ![s] = "idle"]
        /\ \A r \in Reconcilers \ {s} : job'[r] = job[r]
    BY TypeRetry DEF TypeInv, HasJob, RunTimeout
  <1>2. gateway' \in Nat
    BY DEF TypeInv, TypeOK, RunTimeout
  <1>3. budget' \in [{"updates", "syncs", "beats", "errors", "timeouts", "faults"} -> Nat]
    BY DEF TypeInv, TypeOK, RunTimeout, Spend
  <1>4. pc' \in [Sessions -> PCs] /\ \A q \in Sessions : pc'[q] \in {"gateway", "commit"} <=> lock' = q
    BY <1>1, LifecycleAssumption DEF TypeInv, TypeOK, RunTimeout, PCs
  <1>5. HasJob'
    BY <1>1 DEF TypeInv, TypeOK, HasJob, Sessions
  <1>6. lock' \in {lock, NoSession} /\ lock' # s
        /\ UNCHANGED <<row, tx, orm, base, token, clock, passed, minted>>
    BY LifecycleAssumption DEF RunTimeout
  <1>7. raced' \in BOOLEAN /\ undone' \in Nat /\ UNCHANGED <<woken, reran, heard>>
    BY TypeRollBack DEF RunTimeout
  <1> QED BY <1>1, <1>2, <1>3, <1>4, <1>5, <1>6, <1>7 DEF TypeInv, TypeOK

LEMMA TypeReconcile ==
    ASSUME TypeInv, NEW s \in Reconcilers, Reconcile(s)
    PROVE  TypeInv'
  <1>1. PICK j \in queue :
           LET deadline == IF row.deadline # Never THEN row.deadline ELSE j.deadline
               waiting  == ~Stale(j) /\ ~CheckedIn(row)
           IN
           \/ /\ ~waiting
              /\ queue' = queue \ {j}
              /\ UNCHANGED <<pc, job, orm, base>>
           \/ /\ waiting /\ deadline > passed
              /\ Postponed(j, deadline)
              /\ UNCHANGED <<pc, job, orm, base>>
           \/ /\ waiting /\ deadline <= passed
              /\ Goto(s, IF WakesUsedUp THEN "offline" ELSE "begin")
              /\ job' = [job EXCEPT ![s] = j]
              /\ Holds(s, row)
              /\ queue' = queue \ {j}
    BY DEF Reconcile
  <1> DEFINE deadline == IF row.deadline # Never THEN row.deadline ELSE j.deadline
  <1>2. j \in Jobs /\ deadline \in Nat
    BY DEF TypeInv, TypeOK, Rows, Jobs
  <1>3. [j EXCEPT !.at = deadline] \in Jobs
    BY <1>2 DEF Jobs
  <1>4. queue' \subseteq Jobs
    BY <1>1, <1>2, <1>3 DEF TypeInv, TypeOK, Postponed
  <1>5. /\ orm' \in [Sessions -> Rows] /\ base' \in [Sessions -> Rows]
        /\ job' \in [Reconcilers -> Jobs \cup {NoJob}]
    BY <1>1, <1>2 DEF TypeInv, TypeOK, Holds
  <1>6. pc[s] = "idle" /\ UNCHANGED <<row, tx, lock, token, gateway, clock, passed, minted,
                                     budget, history>>
    BY DEF Reconcile
  <1>7. \/ pc' = pc /\ job' = job
        \/ \E p \in {"begin", "offline"} : pc' = [pc EXCEPT ![s] = p]
                                          /\ job' = [job EXCEPT ![s] = j]
    BY <1>1 DEF Goto
  <1>8. pc' \in [Sessions -> PCs] /\ \A q \in Sessions : pc'[q] \in {"gateway", "commit"} <=> lock' = q
    BY <1>6, <1>7 DEF TypeInv, TypeOK, PCs
  <1>9. HasJob'
    BY <1>2, <1>7 DEF TypeInv, TypeOK, HasJob, Sessions
  <1> QED BY <1>4, <1>5, <1>6, <1>8, <1>9 DEF TypeInv, TypeOK, history

LEMMA TypeOffline ==
    ASSUME TypeInv, NEW s \in Reconcilers, MarkOffline(s)
    PROVE  TypeInv'
  <1> DEFINE offline == [orm[s] EXCEPT !.status = "offline", !.deadline = Never, !.error = TRUE]
  <1>1. s \in Sessions
    BY DEF Sessions
  <1>2. offline \in Rows
    BY <1>1 DEF TypeInv, TypeOK, Rows, Statuses, Never
  <1>3. row' \in Rows
    BY <1>1, <1>2, MergeColumns DEF TypeInv, TypeOK, MarkOffline
  <1>4. job' \in [Reconcilers -> Jobs \cup {NoJob}]
    BY DEF TypeInv, TypeOK, MarkOffline
  <1>5. pc' \in [Sessions -> PCs] /\ \A q \in Sessions : pc'[q] \in {"gateway", "commit"} <=> lock' = q
    BY <1>1 DEF TypeInv, TypeOK, MarkOffline, Goto, PCs
  <1>6. HasJob'
    BY <1>1 DEF TypeInv, TypeOK, HasJob, MarkOffline, Goto
  <1> QED BY <1>3, <1>4, <1>5, <1>6 DEF TypeInv, TypeOK, MarkOffline, history

LEMMA TypeRedeliver ==
    ASSUME TypeInv, Redeliver
    PROVE  TypeInv'
  <1>1. budget' \in [{"updates", "syncs", "beats", "errors", "timeouts", "faults"} -> Nat]
    BY DEF TypeInv, TypeOK, Redeliver, Spend
  <1>2. PICK s \in Reconcilers : job[s] # NoJob /\ queue' = queue \cup {[job[s] EXCEPT !.at = Never]}
    BY DEF Redeliver
  <1>3. job[s] \in Jobs
    BY <1>2 DEF TypeInv, TypeOK
  <1>4. [job[s] EXCEPT !.at = Never] \in Jobs
    BY <1>3 DEF Jobs, Never
  <1> QED BY <1>1, <1>2, <1>4 DEF TypeInv, TypeOK, HasJob, Redeliver, sessions, history

LEMMA TypeCrash ==
    ASSUME TypeInv, NEW s \in Sessions, Crash(s)
    PROVE  TypeInv'
  <1>1. budget' \in [{"updates", "syncs", "beats", "errors", "timeouts", "faults"} -> Nat]
    BY DEF TypeInv, TypeOK, Crash, Spend
  <1>2. job' \in [Reconcilers -> Jobs \cup {NoJob}] /\ HasJob'
    BY DEF TypeInv, TypeOK, HasJob, Crash, Goto, Sessions
  <1>3. lock' \in Sessions \cup {NoSession} /\ pc' \in [Sessions -> PCs]
    BY DEF TypeInv, TypeOK, Crash, Goto, PCs
  <1>4. \A q \in Sessions : pc'[q] \in {"gateway", "commit"} <=> lock' = q
    BY LifecycleAssumption DEF TypeInv, TypeOK, Crash, Goto
  <1>5. raced' \in BOOLEAN /\ undone' \in Nat /\ UNCHANGED <<woken, reran, heard>>
    BY TypeRollBack DEF Crash
  <1> QED BY <1>1, <1>2, <1>3, <1>4, <1>5 DEF TypeInv, TypeOK, Crash

(* The columns a presence request changes in its copy. *)
LEMMA TouchColumns ==
    ASSUME NEW r \in Rows, clock' \in Nat
    PROVE  /\ Touched(r) \in Rows
           /\ SentStatuses(r) \subseteq Statuses /\ "online" \in Statuses
           /\ Touched(r).generation = r.generation /\ Touched(r).wake = r.wake
           /\ Touched(r).wakes = r.wakes /\ Touched(r).deadline = r.deadline
           /\ \A status \in Statuses :
                LET x == CheckIn(r, status) IN
                /\ x \in Rows
                /\ x.generation = r.generation /\ x.wake = r.wake /\ x.deadline = Never
  BY DEF Touched, CheckIn, SentStatuses, Rows, Statuses, Never

LEMMA TypePresent ==
    ASSUME TypeInv, NEW s \in Beats, Present(s)
    PROVE  TypeInv'
  <1>1. s \in Sessions /\ clock' \in Nat /\ passed' \in 0..clock'
    BY DEF Sessions, TypeInv, TypeOK, Present
  <1>2. orm[s] \in Rows
    BY <1>1 DEF TypeInv, TypeOK
  <1>3. \E r \in Rows : orm' = [orm EXCEPT ![s] = r]
    BY <1>1, <1>2, TouchColumns DEF Present
  <1>4. orm' \in [Sessions -> Rows]
    BY <1>3 DEF TypeInv, TypeOK
  <1>5. pc[s] \in {"touch", "checkin", "assign"}
        /\ \E p \in {"commit-touch", "commit-beat"} : pc' = [pc EXCEPT ![s] = p]
    BY DEF Present, Goto
  <1>6. UNCHANGED <<row, tx, lock, base, token, job, queue, gateway, passed, minted, budget, history>>
    BY DEF Present
  <1>7. pc' \in [Sessions -> PCs] /\ \A q \in Sessions : pc'[q] \in {"gateway", "commit"} <=> lock' = q
    BY <1>1, <1>5, <1>6 DEF TypeInv, TypeOK, PCs
  <1>8. HasJob'
    BY <1>1, <1>5, <1>6 DEF TypeInv, TypeOK, HasJob
  <1> QED BY <1>1, <1>4, <1>6, <1>7, <1>8 DEF TypeInv, TypeOK, history

LEMMA TypePresenceCommit ==
    ASSUME TypeInv, NEW s \in Beats, PresenceCommit(s)
    PROVE  TypeInv'
  <1>1. s \in Sessions /\ orm[s] \in Rows /\ base[s] \in Rows /\ row \in Rows
    BY DEF Sessions, TypeInv, TypeOK
  <1>2. row' \in Rows
    BY <1>1, MergeColumns DEF PresenceCommit
  <1>3. heard' \in Nat /\ woken' \in Nat /\ undone' \in Nat
    BY <1>1 DEF TypeInv, TypeOK, PresenceCommit, Rows
  <1>4. pc' \in [Sessions -> PCs] /\ \A q \in Sessions : pc'[q] \in {"gateway", "commit"} <=> lock' = q
    BY <1>1 DEF TypeInv, TypeOK, PresenceCommit, Goto, PCs
  <1>5. HasJob'
    BY <1>1 DEF TypeInv, TypeOK, HasJob, PresenceCommit, Goto
  <1> QED BY <1>2, <1>3, <1>4, <1>5 DEF TypeInv, TypeOK, PresenceCommit

LEMMA TypeTime ==
    ASSUME TypeInv, TimePasses \/ UNCHANGED vars
    PROVE  TypeInv'
  <1>1. clock' = clock /\ passed' \in 0..clock
    BY DEF TypeInv, TypeOK, TimePasses, vars
  <1>2. UNCHANGED <<row, tx, lock, orm, base, pc, token, job, queue, gateway, clock, minted,
                    budget, woken, undone, reran, heard, raced>>
    BY DEF TimePasses, vars, sessions, history
  <1> QED BY <1>1, <1>2 DEF TypeInv, TypeOK, HasJob

LEMMA TypeNext == TypeInv /\ [Next]_vars => TypeInv'
  <1> SUFFICES ASSUME TypeInv, [Next]_vars PROVE TypeInv'
    OBVIOUS
  <1>1. ASSUME NEW s \in Sessions, Request(s) PROVE TypeInv'
    <2>1. s \in Updaters \cup Syncers /\ s \notin Reconcilers
      BY <1>1, LifecycleAssumption DEF Request
    <2> QED BY <1>1, <2>1, TypeLoad, TypeTools, TypeMint, TypeBegin, TypeApply, TypeCommit,
               TypeEnqueue, TypeFail DEF Request, Run
  <1>2. ASSUME NEW s \in Sessions, Worker(s) PROVE TypeInv'
    BY <1>2, TypeReconcile, TypeOffline, TypeBegin, TypeApply, TypeCommit, TypeEnqueue, TypeFail
       DEF Worker, Run
  <1>3. ASSUME NEW s \in Sessions, Presence(s) PROVE TypeInv'
    <2>1. s \in Beats /\ s \notin Reconcilers
      BY <1>3, LifecycleAssumption DEF Presence
    <2> QED BY <1>3, <2>1, TypeLoad, TypePresent, TypePresenceCommit DEF Presence
  <1> QED BY <1>1, <1>2, <1>3, TypeTime, TypeRedeliver, TypeTimeout, TypeCrash DEF Next

LEMMA TypeAlways == Spec => []TypeInv
  BY TypeInit, TypeNext, PTL DEF Spec

(* The state of sessions, row and queue is well formed: in particular the   *)
(* row lock is held exactly by the session between flush and commit.        *)
THEOREM TypeCorrect == Spec => []TypeOK
  BY TypeAlways, PTL DEF TypeInv

-----------------------------------------------------------------------------
(* Sessions' copies of the row *)


(* A session's copy of the row differs from what it loaded or flushed only  *)
(* between a presence stamp and its commit, and only in the columns that    *)
(* such a request sets.                                                     *)
CopyOK(s) ==
    /\ pc[s] \notin {"idle", "commit-touch", "commit-beat"} => orm[s] = base[s]
    /\ pc[s] \in {"commit-touch", "commit-beat"} =>
         orm[s].generation = base[s].generation /\ orm[s].wake = base[s].wake
    /\ pc[s] = "commit-touch" =>
         orm[s].wakes = base[s].wakes /\ orm[s].deadline = base[s].deadline
    /\ pc[s] = "commit-beat" => orm[s].deadline = Never

Copies == \A s \in Sessions : CopyOK(s)

LEMMA CopiesOthers ==
    ASSUME Copies, NEW s \in Sessions, CopyOK(s)',
           \A q \in Sessions \ {s} : pc'[q] = pc[q] /\ orm'[q] = orm[q] /\ base'[q] = base[q]
    PROVE  Copies'
  BY DEF Copies, CopyOK

LEMMA CopiesHeld ==
    ASSUME TypeInv, Copies, NEW s \in Sessions, NEW r, Holds(s, r), NEW p, Goto(s, p),
           p \notin {"commit-touch", "commit-beat"}
    PROVE  Copies'
  <1>1. CopyOK(s)'
    BY DEF TypeInv, TypeOK, CopyOK, Holds, Goto
  <1> QED BY <1>1, CopiesOthers DEF TypeInv, TypeOK, Holds, Goto

LEMMA CopiesKept ==
    ASSUME TypeInv, Copies, NEW s \in Sessions, UNCHANGED <<orm, base>>, NEW p, Goto(s, p),
           p \notin {"commit-touch", "commit-beat"},
           p = "idle" \/ pc[s] \notin {"idle", "commit-touch", "commit-beat"}
    PROVE  Copies'
  <1>1. CopyOK(s)'
    BY DEF TypeInv, TypeOK, Copies, CopyOK, Goto
  <1> QED BY <1>1, CopiesOthers DEF TypeInv, TypeOK, Goto

LEMMA CopiesRun ==
    ASSUME TypeInv, Copies, NEW s \in Sessions, Run(s)
    PROVE  Copies'
  <1>1. CASE RunBegin(s)
    BY <1>1, CopiesHeld DEF RunBegin
  <1>2. CASE RunApply(s)
    BY <1>2, CopiesKept DEF RunApply
  <1>3. CASE RunCommit(s)
    BY <1>3, CopiesKept DEF RunCommit
  <1>4. CASE RunEnqueue(s)
    BY <1>4, CopiesHeld DEF RunEnqueue
  <1>5. CASE RunFail(s)
    BY <1>5, CopiesHeld DEF RunFail, Retry
  <1> QED BY <1>1, <1>2, <1>3, <1>4, <1>5 DEF Run

LEMMA CopiesReconcile ==
    ASSUME TypeInv, Copies, NEW s \in Reconcilers, Reconcile(s)
    PROVE  Copies'
  <1>1. s \in Sessions
    BY DEF Sessions
  <1>2. CASE UNCHANGED <<pc, orm, base>>
    BY <1>2 DEF Copies, CopyOK
  <1>3. CASE \E p \in {"begin", "offline"} : Goto(s, p) /\ Holds(s, row)
    BY <1>1, <1>3, CopiesHeld
  <1> QED BY <1>2, <1>3 DEF Reconcile

LEMMA CopiesPresent ==
    ASSUME TypeInv, Copies, NEW s \in Beats, Present(s)
    PROVE  Copies'
  <1>1. s \in Sessions /\ clock' \in Nat /\ orm[s] \in Rows /\ orm \in [Sessions -> Rows]
        /\ pc \in [Sessions -> PCs]
    BY DEF Sessions, TypeInv, TypeOK, Present
  <1>2. orm[s] = base[s] /\ base' = base
    BY <1>1 DEF Copies, CopyOK, Present
  <1>3. CASE pc[s] = "touch"
    <2>1. orm'[s] = Touched(orm[s]) /\ pc'[s] = "commit-touch"
      BY <1>1, <1>3 DEF Present, Goto
    <2>2. /\ orm'[s].generation = base'[s].generation /\ orm'[s].wake = base'[s].wake
          /\ orm'[s].wakes = base'[s].wakes /\ orm'[s].deadline = base'[s].deadline
      <3>1. /\ Touched(orm[s]).generation = orm[s].generation /\ Touched(orm[s]).wake = orm[s].wake
            /\ Touched(orm[s]).wakes = orm[s].wakes /\ Touched(orm[s]).deadline = orm[s].deadline
        BY <1>1, TouchColumns
      <3> QED BY <1>2, <2>1, <3>1
    <2>3. CopyOK(s)'
      BY <2>1, <2>2 DEF CopyOK
    <2> QED BY <1>1, <2>3, CopiesOthers DEF Present, Goto
  <1>4. CASE pc[s] \in {"checkin", "assign"}
    <2>1. PICK r \in {orm[s], Touched(orm[s])} :
             \E status \in SentStatuses(r) \cup {"online"} : orm'[s] = CheckIn(r, status)
      BY <1>1, <1>4 DEF Present
    <2>2. r \in Rows /\ r.generation = orm[s].generation /\ r.wake = orm[s].wake
      BY <1>1, <2>1, TouchColumns
    <2>3. orm'[s].generation = r.generation /\ orm'[s].wake = r.wake /\ orm'[s].deadline = Never
      BY <1>1, <2>1, <2>2, TouchColumns
    <2>4. pc'[s] = "commit-beat"
      BY <1>1, <1>4 DEF Present, Goto
    <2> QED BY <1>1, <1>2, <2>2, <2>3, <2>4, CopiesOthers DEF CopyOK, Present, Goto
  <1> QED BY <1>3, <1>4 DEF Present

LEMMA CopiesNext == TypeInv /\ Copies /\ [Next]_vars => Copies'
  <1> SUFFICES ASSUME TypeInv, Copies, [Next]_vars PROVE Copies'
    OBVIOUS
  <1>1. ASSUME NEW s \in Sessions, Request(s) PROVE Copies'
    <2>1. CASE UpdateLoad(s) \/ SyncLoad(s) \/ Refresh(s)
      BY <2>1, CopiesHeld DEF UpdateLoad, SyncLoad, Refresh
    <2>2. CASE ReadTools(s) \/ MintToken(s)
      BY <2>2, CopiesKept DEF ReadTools, MintToken, HashStored
    <2> QED BY <1>1, <2>1, <2>2, CopiesRun DEF Request
  <1>2. ASSUME NEW s \in Sessions, Worker(s) PROVE Copies'
    <2>1. CASE MarkOffline(s)
      BY <2>1, CopiesKept DEF MarkOffline
    <2> QED BY <1>2, <2>1, CopiesReconcile, CopiesRun DEF Worker
  <1>3. ASSUME NEW s \in Sessions, Presence(s) PROVE Copies'
    <2>1. CASE AgentCalls(s) \/ AssignTask(s)
      BY <2>1, CopiesHeld DEF AgentCalls, AssignTask
    <2>2. CASE PresenceCommit(s)
      BY <2>2, CopiesKept DEF PresenceCommit
    <2> QED BY <1>3, <2>1, <2>2, CopiesPresent DEF Presence
  <1>4. ASSUME NEW s \in Sessions, RunTimeout(s) \/ Crash(s) PROVE Copies'
    BY <1>4, CopiesKept DEF RunTimeout, Retry, Crash
  <1>5. CASE TimePasses \/ Redeliver \/ UNCHANGED vars
    BY <1>5 DEF TimePasses, Redeliver, vars, sessions, Copies, CopyOK
  <1> QED BY <1>1, <1>2, <1>3, <1>4, <1>5 DEF Next

-----------------------------------------------------------------------------
(* What the steps that write the row do to its columns *)

LEMMA MintRow ==
    ASSUME TypeInv, Copies, NEW s \in Sessions, MintToken(s)
    PROVE  /\ row' \in Rows /\ row'.generation = row.generation /\ row'.wakes = row.wakes
           /\ row'.seen = row.seen /\ row'.wake = row.wake /\ row'.deadline = row.deadline
  <1> DEFINE copy == [orm[s] EXCEPT !.token = minted']
  <1>1. orm[s] \in Rows /\ base[s] = orm[s] /\ row \in Rows /\ minted' \in Nat
    BY DEF TypeInv, TypeOK, Copies, CopyOK, MintToken, HashStored
  <1>2. /\ copy \in Rows /\ copy.generation = orm[s].generation /\ copy.wakes = orm[s].wakes
        /\ copy.seen = orm[s].seen /\ copy.wake = orm[s].wake /\ copy.deadline = orm[s].deadline
    BY <1>1 DEF Rows
  <1>3. row' = Merge(row, base[s], copy)
    BY DEF MintToken, HashStored
  <1> HIDE DEF copy
  <1> QED BY <1>1, <1>2, <1>3, MergeColumns

LEMMA BeginTx ==
    ASSUME TypeInv, Copies, NEW s \in Sessions, RunBegin(s)
    PROVE  /\ tx'.generation = orm[s].generation + 1
           /\ tx'.wakes = IF Wakes(s) THEN orm[s].wakes + 1 ELSE row.wakes
           /\ tx'.seen = row.seen
  <1> DEFINE requested ==
             [orm[s] EXCEPT
                !.token = IF s \in Reconcilers THEN minted' ELSE @,
                !.status = "updating",
                !.generation = @ + 1,
                !.error = FALSE,
                !.deadline = IF Wakes(s) THEN clock' ELSE Never,
                !.wakes = IF Wakes(s) THEN @ + 1 ELSE @,
                !.wake = IF Wakes(s) THEN clock' ELSE @]
  <1>1. orm[s] \in Rows /\ base[s] = orm[s] /\ row \in Rows /\ clock' \in Nat /\ minted' \in Nat
    BY DEF TypeInv, TypeOK, Copies, CopyOK, RunBegin
  <1>2. /\ orm[s].generation \in Nat /\ orm[s].wakes \in Nat /\ Never \in Nat
        /\ orm[s].generation + 1 \in Nat /\ orm[s].wakes + 1 \in Nat
    BY <1>1 DEF Rows, Never
  <1>3. /\ requested \in Rows /\ requested.generation = orm[s].generation + 1
        /\ requested.wakes = IF Wakes(s) THEN orm[s].wakes + 1 ELSE orm[s].wakes
        /\ requested.seen = orm[s].seen
    BY <1>1, <1>2 DEF Rows, Statuses
  <1>4. tx' = Merge(row, base[s], requested)
    BY DEF RunBegin
  <1> HIDE DEF requested
  <1> QED BY <1>1, <1>2, <1>3, <1>4, MergeColumns

LEMMA CommitRow ==
    ASSUME TypeInv, Copies, NEW s \in Sessions, RunCommit(s) \/ RunFail(s)
    PROVE  /\ row'.generation = tx.generation /\ row'.wakes = tx.wakes /\ row'.seen = tx.seen
  <1> DEFINE done   == [orm[s] EXCEPT !.status = "online", !.error = FALSE,
                          !.deadline = IF Wakes(s) THEN clock' ELSE Never]
             failed == [orm[s] EXCEPT !.error = TRUE]
  <1>1. orm[s] \in Rows /\ base[s] = orm[s] /\ tx \in Rows /\ clock' \in Nat
    BY DEF TypeInv, TypeOK, Copies, CopyOK, RunCommit, RunFail
  <1>2. /\ done \in Rows /\ done.generation = orm[s].generation /\ done.wakes = orm[s].wakes
        /\ done.seen = orm[s].seen
    BY <1>1 DEF Rows, Statuses, Never
  <1>3. /\ failed \in Rows /\ failed.generation = orm[s].generation
        /\ failed.wakes = orm[s].wakes /\ failed.seen = orm[s].seen
    BY <1>1 DEF Rows
  <1>4. row' = Merge(tx, base[s], done) \/ row' = Merge(tx, base[s], failed)
    BY DEF RunCommit, RunFail
  <1> HIDE DEF done, failed
  <1> QED BY <1>1, <1>2, <1>3, <1>4, MergeColumns

LEMMA OfflineRow ==
    ASSUME TypeInv, Copies, NEW s \in Sessions, MarkOffline(s)
    PROVE  /\ row' \in Rows /\ row'.generation = row.generation /\ row'.wakes = row.wakes
           /\ row'.seen = row.seen /\ row'.wake = row.wake
           /\ row'.deadline = IF base[s].deadline # Never THEN Never ELSE row.deadline
  <1> DEFINE offline == [orm[s] EXCEPT !.status = "offline", !.deadline = Never, !.error = TRUE]
  <1>1. orm[s] \in Rows /\ base[s] = orm[s] /\ row \in Rows
    BY DEF TypeInv, TypeOK, Copies, CopyOK, MarkOffline
  <1>2. /\ offline \in Rows /\ offline.generation = orm[s].generation
        /\ offline.wakes = orm[s].wakes /\ offline.seen = orm[s].seen
        /\ offline.wake = orm[s].wake /\ offline.deadline = Never
    BY <1>1 DEF Rows, Statuses, Never
  <1>3. row' = Merge(row, base[s], offline)
    BY DEF MarkOffline
  <1> HIDE DEF offline
  <1> QED BY <1>1, <1>2, <1>3, MergeColumns

LEMMA PresenceRow ==
    ASSUME TypeInv, Copies, NEW s \in Sessions, PresenceCommit(s)
    PROVE  /\ row' \in Rows /\ row'.generation = row.generation /\ row'.wake = row.wake
           /\ row'.seen \in {row.seen, orm[s].seen} /\ row'.deadline \in {row.deadline, Never}
           /\ pc[s] = "commit-touch" => row'.wakes = row.wakes
  <1>1. orm[s] \in Rows /\ base[s] \in Rows /\ row \in Rows
    BY DEF TypeInv, TypeOK
  <1>2. /\ orm[s].generation = base[s].generation /\ orm[s].wake = base[s].wake
        /\ pc[s] = "commit-touch" => orm[s].wakes = base[s].wakes
        /\ orm[s].deadline \in {base[s].deadline, Never}
    BY DEF Copies, CopyOK, PresenceCommit
  <1>3. row' = Merge(row, base[s], orm[s])
    BY DEF PresenceCommit
  <1> QED BY <1>1, <1>2, <1>3, MergeColumns

-----------------------------------------------------------------------------
(* The wakes of one reconciler *)

OneReconciler == \A a, b \in Reconcilers : a = b

(* The wakes whose run was committed: not those rolled back, nor the one   *)
(* that a run under way has just sent.                                     *)
Pending == IF \E r \in Reconcilers : pc[r] = "commit" THEN 1 ELSE 0
Committed == woken - undone - Pending

(* A reconciler that has loaded the row, and knows that it may wake. *)
MayWake(r) == pc[r] = "begin" =>
    /\ orm[r].generation = job[r].generation
    /\ orm[r].wakes < MaxWakeAttempts /\ Committed <= orm[r].wakes
    /\ \A g \in reran : g < job[r].generation

(* A reconciler that holds the row lock counts one wake more than were     *)
(* committed, on a generation after those reconciled.                      *)
IsWaking(r) == lock = r =>
    /\ tx.generation = job[r].generation + 1
    /\ tx.wakes <= MaxWakeAttempts /\ Committed < tx.wakes
    /\ \A g \in reran : g < job[r].generation

(* The row counts the wakes at least, and is past what was reconciled. *)
Counted ==
    /\ Committed <= MaxWakeAttempts /\ Committed <= row.wakes
    /\ \A g \in reran : g < row.generation
    /\ lock \in Syncers => tx.wakes = row.wakes

WakeInv == Counted /\ \A r \in Reconcilers : MayWake(r) /\ IsWaking(r)


LEMMA WakeInit == TypeInv /\ Init => Copies /\ WakeInv
  BY LifecycleAssumption
     DEF Init, Copies, CopyOK, WakeInv, Counted, Committed, Pending, MayWake, IsWaking, InitialRow,
         Sessions, Never

LEMMA CommittedInt == TypeInv => Committed \in Int
  BY DEF TypeInv, TypeOK, Committed, Pending

(* A wake is pending under the row lock only. *)
LEMMA NonePending ==
    ASSUME TypeInv, lock \notin Reconcilers
    PROVE  Pending = 0
  BY DEF TypeInv, TypeOK, Pending, Sessions

LEMMA CommittedKept ==
    ASSUME UNCHANGED <<woken, undone>>,
           \A r \in Reconcilers : pc'[r] = "commit" <=> pc[r] = "commit"
    PROVE  Committed' = Committed
  BY DEF Committed, Pending

(* A wake that was sent is pending; a run that is rolled back takes it back. *)
LEMMA CommittedSent ==
    ASSUME TypeInv, NEW s \in Sessions, RunApply(s)
    PROVE  Committed' = Committed
  <1>1. /\ pc[s] = "gateway" /\ pc' = [pc EXCEPT ![s] = "commit"] /\ undone' = undone
        /\ woken' = IF s \in Reconcilers THEN woken + 1 ELSE woken
        /\ pc \in [Sessions -> PCs] /\ woken \in Nat /\ undone \in Nat
    BY DEF RunApply, Goto, TypeInv, TypeOK
  <1>2. lock = s /\ \A r \in Reconcilers : pc[r] # "commit"
    BY <1>1 DEF TypeInv, TypeOK, Sessions
  <1>3. Pending = 0 /\ Pending' = IF s \in Reconcilers THEN 1 ELSE 0
    BY <1>1, <1>2 DEF Pending, Sessions
  <1> QED BY <1>1, <1>3 DEF Committed

LEMMA CommittedUndone ==
    ASSUME TypeInv, NEW s \in Sessions, RolledBack(s), pc' = [pc EXCEPT ![s] = "idle"]
    PROVE  Committed' = Committed /\ reran' = reran
  <1>1. /\ pc \in [Sessions -> PCs] /\ woken \in Nat /\ undone \in Nat /\ woken' = woken
        /\ undone' = (IF s \in Reconcilers /\ pc[s] = "commit" THEN undone + 1 ELSE undone)
        /\ reran' = reran
    BY DEF RolledBack, TypeInv, TypeOK
  <1>2. CASE s \in Reconcilers /\ pc[s] = "commit"
    <2>1. \A r \in Reconcilers : pc[r] = "commit" => r = s
      BY <1>2 DEF TypeInv, TypeOK, Sessions
    <2>2. Pending = 1 /\ Pending' = 0
      BY <1>1, <1>2, <2>1 DEF Pending, Sessions
    <2> QED BY <1>1, <1>2, <2>2 DEF Committed
  <1>3. CASE ~(s \in Reconcilers /\ pc[s] = "commit")
    <2>1. \A r \in Reconcilers : pc'[r] = "commit" <=> pc[r] = "commit"
      BY <1>1, <1>3 DEF Sessions
    <2> QED BY <1>1, <1>3, <2>1, CommittedKept
  <1> QED BY <1>2, <1>3

(* The steps that leave the row, the flush and the history alone. *)
LEMMA WakeQuiet ==
    ASSUME TypeInv, WakeInv, UNCHANGED <<row, tx, reran>>, Committed' = Committed,
           lock' \in {lock, NoSession}, NEW s \in Sessions,
           \A r \in Reconcilers \ {s} : pc'[r] = pc[r] /\ orm'[r] = orm[r] /\ job'[r] = job[r],
           s \in Reconcilers => /\ pc'[s] # "begin"
                                /\ lock' = s => job'[s] = job[s]
    PROVE  WakeInv'
  <1>1. Counted'
    BY LifecycleAssumption DEF WakeInv, Counted, Sessions
  <1>2. ASSUME NEW r \in Reconcilers PROVE MayWake(r)' /\ IsWaking(r)'
    <2>1. MayWake(r) /\ IsWaking(r) /\ r # NoSession
      BY LifecycleAssumption DEF WakeInv, Sessions
    <2>2. CASE r = s
      <3>1. MayWake(s)'
        BY <2>2 DEF MayWake
      <3>2. lock' = s => lock = s /\ job'[s] = job[s]
        BY <2>1, <2>2
      <3>3. IsWaking(s)'
        BY <2>1, <2>2, <3>2 DEF IsWaking
      <3> QED BY <2>2, <3>1, <3>3
    <2>3. CASE r # s
      BY <2>1, <2>3 DEF MayWake, IsWaking
    <2> QED BY <2>2, <2>3
  <1> QED BY <1>1, <1>2 DEF WakeInv

LEMMA WakeReconcile ==
    ASSUME TypeInv, WakeInv, NEW s \in Reconcilers, Reconcile(s)
    PROVE  WakeInv'
  <1>0. s \in Sessions /\ pc[s] = "idle" /\ UNCHANGED <<row, tx, lock, woken, undone, reran>>
    BY DEF Sessions, Reconcile, history
  <1>1. s \in Sessions /\ pc[s] = "idle" /\ UNCHANGED <<row, tx, lock, reran>>
        /\ Committed' = Committed
    <2>1. pc' = pc \/ \E p \in {"offline", "begin"} : pc' = [pc EXCEPT ![s] = p]
      BY DEF Reconcile, Goto
    <2>2. \A r \in Reconcilers : pc'[r] = "commit" <=> pc[r] = "commit"
      BY <1>0, <2>1 DEF TypeInv, TypeOK, Sessions
    <2> QED BY <1>0, <2>2, CommittedKept
  <1>2. CASE UNCHANGED <<pc, job, orm, base>>
    BY <1>1, <1>2, WakeQuiet
  <1>3. CASE /\ row.wakes >= MaxWakeAttempts /\ Goto(s, "offline") /\ Holds(s, row)
             /\ \E j \in queue : job' = [job EXCEPT ![s] = j]
    <2>1. lock # s
      BY <1>1 DEF TypeInv, TypeOK
    <2> QED BY <1>1, <1>3, <2>1, WakeQuiet DEF TypeInv, TypeOK, Goto, Holds
  <1>4. ASSUME NEW j \in queue, job' = [job EXCEPT ![s] = j], j.generation = row.generation,
               ~(row.wakes >= MaxWakeAttempts), Goto(s, "begin"), Holds(s, row)
        PROVE  WakeInv'
    <2>1. Counted'
      BY <1>1 DEF WakeInv, Counted
    <2>2. MayWake(s)'
      <3>1. orm'[s] = row /\ job'[s] = j
        BY <1>1, <1>4 DEF TypeInv, TypeOK, Holds
      <3>2. row.wakes \in Nat /\ MaxWakeAttempts \in Nat
        BY LifecycleAssumption DEF TypeInv, TypeOK, Rows
      <3> QED BY <1>1, <1>4, <3>1, <3>2 DEF WakeInv, Counted, MayWake
    <2>3. ASSUME NEW r \in Reconcilers \ {s} PROVE MayWake(r)' /\ IsWaking(r)'
      BY <1>1, <1>4 DEF TypeInv, TypeOK, WakeInv, MayWake, IsWaking, Goto, Holds
    <2>4. IsWaking(s)'
      BY <1>1 DEF TypeInv, TypeOK, IsWaking
    <2> QED BY <2>1, <2>2, <2>3, <2>4 DEF WakeInv
  <1> QED BY <1>2, <1>3, <1>4 DEF Reconcile, Stale, WakesUsedUp

LEMMA WakeBegin ==
    ASSUME TypeInv, Copies, WakeInv, NEW s \in Sessions, RunBegin(s)
    PROVE  WakeInv'
  <1>1. /\ orm[s] \in Rows /\ base[s] = orm[s] /\ row \in Rows
        /\ lock = NoSession /\ lock' = s /\ pc[s] = "begin"
    BY DEF TypeInv, TypeOK, Copies, CopyOK, RunBegin, Unlocked
  <1>5. /\ tx'.generation = orm[s].generation + 1
        /\ tx'.wakes = IF Wakes(s) THEN orm[s].wakes + 1 ELSE row.wakes
    BY BeginTx
  <1>2. UNCHANGED <<row, job, woken, undone, reran>> /\ pc' = [pc EXCEPT ![s] = "gateway"]
    BY DEF RunBegin, Goto, RacesIf
  <1>3. \A r \in Reconcilers : pc'[r] = "commit" <=> pc[r] = "commit"
    BY <1>1, <1>2 DEF TypeInv, TypeOK, Sessions
  <1>6. UNCHANGED <<row, job, reran>> /\ Committed' = Committed
        /\ pc' = [pc EXCEPT ![s] = "gateway"]
    BY <1>2, <1>3, CommittedKept
  <1>7. Counted'
    BY <1>1, <1>5, <1>6 DEF WakeInv, Counted, Wakes
  <1>8. ASSUME NEW r \in Reconcilers PROVE MayWake(r)'
    BY <1>1, <1>6 DEF TypeInv, TypeOK, WakeInv, MayWake, RunBegin, Holds
  <1>9. ASSUME NEW r \in Reconcilers PROVE IsWaking(r)'
    <2>1. CASE r = s
      <3>1. Wakes(s)
        BY <2>1, LifecycleAssumption DEF Wakes
      <3>2. MayWake(s) /\ Committed \in Int /\ orm[s].wakes \in Nat
        BY <1>1, <2>1, CommittedInt DEF WakeInv, TypeInv, TypeOK, Rows
      <3> QED BY <1>1, <1>5, <1>6, <2>1, <3>1, <3>2, LifecycleAssumption DEF MayWake, IsWaking
    <2>2. CASE r # s
      BY <1>1, <2>2 DEF IsWaking
    <2> QED BY <2>1, <2>2
  <1> QED BY <1>7, <1>8, <1>9 DEF WakeInv

(* A run is committed, successful or not, and with it its wake. *)
LEMMA WakeCommitted ==
    ASSUME TypeInv, WakeInv, OneReconciler, NEW s \in Reconcilers \cup Updaters \cup Syncers,
           lock = s, lock' = NoSession, NEW sent \in 0..1, CountRun(s, sent),
           pc[s] = "commit" => sent = 0, tx \in Rows,
           row'.generation = tx.generation, row'.wakes = tx.wakes,
           \A r \in Reconcilers \ {s} : pc'[r] = pc[r] /\ orm'[r] = orm[r] /\ job'[r] = job[r],
           s \in Reconcilers => pc'[s] \notin {"begin", "commit"} /\ job[s] \in Jobs
    PROVE  WakeInv'
  <1>1. /\ Committed \in Int /\ MaxWakeAttempts \in Nat /\ tx.wakes \in Nat
        /\ tx.generation \in Nat /\ NoSession \notin Sessions /\ reran \subseteq Nat
        /\ woken \in Nat /\ undone \in Nat
    BY LifecycleAssumption, CommittedInt DEF TypeInv, TypeOK, Rows
  <1>2. \A r \in Reconcilers \ {s} : pc[r] # "commit"
    BY DEF TypeInv, TypeOK, Sessions
  <1>3. Pending' = 0
    BY <1>2 DEF Pending
  <1>4. /\ s \in Reconcilers => Committed' \in {Committed, Committed + 1}
        /\ s \in Updaters /\ s \notin Reconcilers => Committed' = 0
        /\ s \in Syncers /\ s \notin Reconcilers => Committed' = Committed
    <2>1. CASE s \in Reconcilers
      <3>1. s \notin Updaters /\ woken' = woken + sent /\ undone' = undone
        BY <2>1, LifecycleAssumption DEF CountRun
      <3>2. Pending = IF pc[s] = "commit" THEN 1 ELSE 0
        BY <1>2, <2>1 DEF Pending
      <3> QED BY <1>1, <1>3, <2>1, <3>1, <3>2, LifecycleAssumption DEF Committed
    <2>2. CASE s \notin Reconcilers
      <3>1. Pending = 0
        BY <2>2, NonePending
      <3> QED BY <1>1, <1>3, <2>2, <3>1, LifecycleAssumption DEF Committed, CountRun
    <2> QED BY <2>1, <2>2
  <1>5. Counted'
    <2>1. CASE s \in Reconcilers
      <3>1. IsWaking(s) /\ job[s].generation \in Nat
        BY <2>1 DEF WakeInv, Jobs
      <3>2. reran' = reran \cup {job[s].generation}
        BY <2>1 DEF CountRun
      <3>3. Committed' <= MaxWakeAttempts /\ Committed' <= row'.wakes
        BY <1>1, <1>4, <2>1, <3>1 DEF IsWaking
      <3>4. \A g \in reran' : g < row'.generation
        BY <1>1, <3>1, <3>2 DEF IsWaking
      <3> QED BY <1>1, <3>3, <3>4 DEF Counted, Sessions
    <2>2. CASE s \in Updaters /\ s \notin Reconcilers
      BY <1>1, <1>4, <2>2 DEF Counted, CountRun, Sessions
    <2>3. CASE s \in Syncers /\ s \notin Reconcilers
      BY <1>1, <1>4, <2>3, LifecycleAssumption DEF WakeInv, Counted, CountRun, Sessions
    <2> QED BY <2>1, <2>2, <2>3
  <1>6. ASSUME NEW r \in Reconcilers PROVE MayWake(r)'
    <2>1. CASE r = s
      BY <2>1 DEF MayWake
    <2>2. CASE r # s
      <3>1. s \notin Reconcilers
        BY <2>2 DEF OneReconciler
      <3>2. reran' = {} /\ Committed' \in {0, Committed}
        BY <1>4, <3>1 DEF CountRun
      <3>3. pc[r] = "begin" => orm[r].wakes \in Nat
        BY DEF TypeInv, TypeOK, Rows, Sessions
      <3> QED BY <1>1, <2>2, <3>2, <3>3 DEF WakeInv, MayWake
    <2> QED BY <2>1, <2>2
  <1>7. ASSUME NEW r \in Reconcilers PROVE IsWaking(r)'
    BY <1>1 DEF IsWaking, Sessions
  <1> QED BY <1>5, <1>6, <1>7 DEF WakeInv

LEMMA WakeCommit ==
    ASSUME TypeInv, Copies, WakeInv, OneReconciler,
           NEW s \in Reconcilers \cup Updaters \cup Syncers, RunCommit(s)
    PROVE  WakeInv'
  <1>1. /\ s \in Sessions /\ orm[s] \in Rows /\ base[s] = orm[s] /\ tx \in Rows
        /\ clock' \in Nat /\ lock = s
    BY DEF TypeInv, TypeOK, Copies, CopyOK, RunCommit, Sessions
  <1>4. row'.generation = tx.generation /\ row'.wakes = tx.wakes
    BY <1>1, CommitRow
  <1>5. /\ lock' = NoSession /\ CountRun(s, 0) /\ UNCHANGED <<orm, job>>
        /\ pc' = [pc EXCEPT ![s] = "enqueue"] /\ pc[s] = "commit"
    BY DEF RunCommit, Goto
  <1>6. \A r \in Reconcilers \ {s} : pc'[r] = pc[r] /\ orm'[r] = orm[r] /\ job'[r] = job[r]
    BY <1>5 DEF TypeInv, TypeOK, Sessions
  <1>7. s \in Reconcilers => pc'[s] \notin {"begin", "commit"} /\ job[s] \in Jobs
    BY <1>1, <1>5 DEF TypeInv, TypeOK, HasJob
  <1>8. 0 \in 0..1
    OBVIOUS
  <1> QED BY <1>1, <1>4, <1>5, <1>6, <1>7, <1>8, WakeCommitted

LEMMA WakeFail ==
    ASSUME TypeInv, Copies, WakeInv, OneReconciler,
           NEW s \in Reconcilers \cup Updaters \cup Syncers, RunFail(s)
    PROVE  WakeInv'
  <1>1. /\ s \in Sessions /\ orm[s] \in Rows /\ base[s] = orm[s] /\ tx \in Rows
        /\ lock = s /\ pc[s] = "gateway"
    BY DEF TypeInv, TypeOK, Copies, CopyOK, RunFail, Sessions
  <1>4. row'.generation = tx.generation /\ row'.wakes = tx.wakes
    BY <1>1, CommitRow
  <1>5. PICK sent \in 0..1 : lock' = NoSession /\ CountRun(s, sent)
    BY DEF RunFail
  <1>6. s \in Reconcilers => pc'[s] \notin {"begin", "commit"} /\ job[s] \in Jobs
    BY <1>1, TypeRetry DEF RunFail, TypeInv, TypeOK, HasJob
  <1>7. \A r \in Reconcilers \ {s} : pc'[r] = pc[r] /\ orm'[r] = orm[r] /\ job'[r] = job[r]
    <2>1. \A r \in Reconcilers \ {s} : orm'[r] = orm[r]
      BY DEF RunFail, Holds, TypeInv, TypeOK, Sessions
    <2>2. CASE s \in Reconcilers
      BY <2>2 DEF OneReconciler
    <2>3. CASE s \notin Reconcilers
      BY <2>1, <2>3 DEF RunFail, Goto, TypeInv, TypeOK, Sessions
    <2> QED BY <2>2, <2>3
  <1> QED BY <1>1, <1>4, <1>5, <1>6, <1>7, WakeCommitted

(* The row changes outside a run. *)
LEMMA WakeRow ==
    ASSUME TypeInv, WakeInv, lock = NoSession, lock' = lock, UNCHANGED <<tx, reran>>,
           row' \in Rows, row'.generation = row.generation,
           Committed' = 0 \/ (Committed' = Committed /\ row'.wakes = row.wakes),
           \A r \in Reconcilers : /\ pc'[r] # "begin" \/ (pc'[r] = pc[r] /\ job'[r] = job[r])
                                 /\ orm'[r] = orm[r]
    PROVE  WakeInv'
  <1>1. NoSession \notin Sessions /\ Committed \in Int /\ row'.wakes \in Nat
        /\ MaxWakeAttempts \in Nat
    BY LifecycleAssumption, CommittedInt DEF TypeInv, TypeOK, Rows
  <1>2. Counted'
    BY <1>1 DEF WakeInv, Counted, Sessions
  <1>3. ASSUME NEW r \in Reconcilers PROVE MayWake(r)'
    <2>1. orm[r].wakes \in Nat
      BY DEF TypeInv, TypeOK, Rows, Sessions
    <2> QED BY <1>1, <2>1 DEF WakeInv, MayWake
  <1>4. ASSUME NEW r \in Reconcilers PROVE IsWaking(r)'
    BY <1>1 DEF IsWaking, Sessions
  <1> QED BY <1>2, <1>3, <1>4 DEF WakeInv

LEMMA WakeMint ==
    ASSUME TypeInv, Copies, WakeInv, NEW s \in Updaters \cup Syncers, MintToken(s)
    PROVE  WakeInv'
  <1>1. /\ s \in Sessions \ Reconcilers /\ orm[s] \in Rows /\ base[s] = orm[s] /\ row \in Rows
        /\ minted' \in Nat
    BY LifecycleAssumption DEF TypeInv, TypeOK, Copies, CopyOK, MintToken, HashStored, Sessions
  <1>4. row' \in Rows /\ row'.generation = row.generation /\ row'.wakes = row.wakes
    BY <1>1, MintRow
  <1>5. \A r \in Reconcilers : pc'[r] = pc[r] /\ job'[r] = job[r] /\ orm'[r] = orm[r]
    BY <1>1 DEF TypeInv, TypeOK, MintToken, HashStored, Goto, Sessions
  <1>6. Committed' = Committed
    BY <1>5, CommittedKept DEF MintToken, RacesIf
  <1> QED BY <1>4, <1>5, <1>6, WakeRow DEF MintToken, Unlocked, RacesIf

LEMMA WakeOffline ==
    ASSUME TypeInv, Copies, WakeInv, NEW s \in Reconcilers, MarkOffline(s)
    PROVE  WakeInv'
  <1>1. s \in Sessions /\ orm[s] \in Rows /\ base[s] = orm[s] /\ row \in Rows
    BY DEF TypeInv, TypeOK, Copies, CopyOK, MarkOffline, Sessions
  <1>4. row' \in Rows /\ row'.generation = row.generation /\ row'.wakes = row.wakes
    BY <1>1, OfflineRow
  <1>5. ASSUME NEW r \in Reconcilers
        PROVE  /\ pc'[r] # "begin" \/ (pc'[r] = pc[r] /\ job'[r] = job[r])
               /\ orm'[r] = orm[r]
    <2>1. /\ pc \in [Sessions -> PCs] /\ r \in Sessions /\ job \in [Reconcilers -> Jobs \cup {NoJob}]
          /\ pc' = [pc EXCEPT ![s] = "idle"] /\ job' = [job EXCEPT ![s] = NoJob] /\ orm' = orm
      BY DEF TypeInv, TypeOK, MarkOffline, Goto, Sessions
    <2>2. CASE r = s
      BY <1>1, <2>1, <2>2
    <2>3. CASE r # s
      BY <1>1, <2>1, <2>3
    <2> QED BY <2>2, <2>3
  <1>6. Committed' = Committed
    <2>1. \A r \in Reconcilers : pc'[r] = "commit" <=> pc[r] = "commit"
      BY <1>1 DEF TypeInv, TypeOK, MarkOffline, Goto, Sessions
    <2> QED BY <2>1, CommittedKept DEF MarkOffline, history
  <1> QED BY <1>4, <1>5, <1>6, WakeRow DEF MarkOffline, Unlocked, history

LEMMA WakePresenceCommit ==
    ASSUME TypeInv, Copies, WakeInv, NEW s \in Beats, PresenceCommit(s)
    PROVE  WakeInv'
  <1>1. s \in Sessions \ Reconcilers /\ orm[s] \in Rows /\ base[s] \in Rows /\ row \in Rows
    BY LifecycleAssumption DEF TypeInv, TypeOK, Sessions
  <1>4. /\ row' \in Rows /\ row'.generation = row.generation
        /\ pc[s] = "commit-touch" => row'.wakes = row.wakes
    BY <1>1, PresenceRow
  <1>5. \A r \in Reconcilers : pc'[r] = pc[r] /\ job'[r] = job[r] /\ orm'[r] = orm[r]
    BY <1>1 DEF TypeInv, TypeOK, PresenceCommit, Goto, Sessions
  <1>6. Committed' = 0 \/ (Committed' = Committed /\ row'.wakes = row.wakes)
    <2>1. pc[s] \in {"commit-touch", "commit-beat"} /\ lock = NoSession
      BY DEF PresenceCommit, Unlocked
    <2>2. CASE pc[s] = "commit-beat"
      <3>1. woken' = 0 /\ undone' = 0
        BY <2>2 DEF PresenceCommit
      <3>2. Pending = 0 /\ Pending' = Pending
        BY <1>5, <2>1, NonePending, LifecycleAssumption DEF Pending, Sessions
      <3> QED BY <3>1, <3>2 DEF Committed
    <2>3. CASE pc[s] = "commit-touch"
      BY <1>4, <1>5, <2>3, CommittedKept DEF PresenceCommit
    <2> QED BY <2>1, <2>2, <2>3
  <1> QED BY <1>4, <1>5, <1>6, WakeRow DEF PresenceCommit, Unlocked

LEMMA WakeNext ==
    ASSUME OneReconciler
    PROVE  TypeInv /\ Copies /\ WakeInv /\ [Next]_vars => WakeInv'
  <1> SUFFICES ASSUME TypeInv, Copies, WakeInv, [Next]_vars PROVE WakeInv'
    OBVIOUS
  <1>1. ASSUME NEW s \in Sessions, RunApply(s) \/ RunEnqueue(s) PROVE WakeInv'
    <2>1. /\ UNCHANGED <<row, tx, reran>> /\ lock' = lock
          /\ \E p \in {"commit", "idle"} : pc' = [pc EXCEPT ![s] = p]
          /\ pc[s] \in {"gateway", "enqueue"}
      BY <1>1 DEF RunApply, RunEnqueue, Goto, history
    <2>4. Committed' = Committed
      <3>1. CASE RunApply(s)
        BY <3>1, CommittedSent
      <3>2. CASE RunEnqueue(s)
        <4>1. \A r \in Reconcilers : pc'[r] = "commit" <=> pc[r] = "commit"
          BY <3>2 DEF RunEnqueue, Goto, TypeInv, TypeOK, Sessions
        <4> QED BY <3>2, <4>1, CommittedKept DEF RunEnqueue, history
      <3> QED BY <1>1, <3>1, <3>2
    <2>2. \A r \in Reconcilers \ {s} : pc'[r] = pc[r] /\ orm'[r] = orm[r] /\ job'[r] = job[r]
      BY <1>1 DEF TypeInv, TypeOK, RunApply, RunEnqueue, Goto, Holds, Sessions
    <2>3. s \in Reconcilers => pc'[s] # "begin" /\ (lock' = s => job'[s] = job[s])
      BY <1>1, <2>1 DEF TypeInv, TypeOK, RunApply, RunEnqueue
    <2> QED BY <2>1, <2>2, <2>3, <2>4, WakeQuiet
  <1>2. ASSUME NEW s \in Sessions, Request(s) PROVE WakeInv'
    <2>1. s \in Updaters \cup Syncers /\ s \notin Reconcilers
      BY <1>2, LifecycleAssumption DEF Request
    <2>2. CASE UpdateLoad(s) \/ SyncLoad(s) \/ ReadTools(s) \/ Refresh(s)
      <3>1. UNCHANGED <<row, tx, lock, job, woken, undone, reran>>
        BY <2>2 DEF UpdateLoad, SyncLoad, ReadTools, Refresh, history, RacesIf
      <3>2. \A r \in Reconcilers \ {s} : pc'[r] = pc[r] /\ orm'[r] = orm[r]
        BY <2>2 DEF TypeInv, TypeOK, UpdateLoad, SyncLoad, ReadTools, Refresh, Goto, Holds, Sessions
      <3>3. Committed' = Committed
        BY <2>1, <3>1, <3>2, CommittedKept
      <3> QED BY <2>1, <3>1, <3>2, <3>3, WakeQuiet
    <2> QED BY <1>1, <1>2, <2>1, <2>2, WakeMint, WakeBegin, WakeCommit, WakeFail DEF Request, Run
  <1>3. ASSUME NEW s \in Sessions, Worker(s) PROVE WakeInv'
    BY <1>1, <1>3, WakeReconcile, WakeOffline, WakeBegin, WakeCommit, WakeFail DEF Worker, Run
  <1>4. ASSUME NEW s \in Sessions, Presence(s) PROVE WakeInv'
    <2>1. s \in Beats /\ s \notin Reconcilers
      BY <1>4, LifecycleAssumption DEF Presence
    <2>2. CASE AgentCalls(s) \/ AssignTask(s) \/ Present(s)
      <3>1. UNCHANGED <<row, tx, lock, job, woken, undone, reran>>
        BY <2>2 DEF AgentCalls, AssignTask, Present, history
      <3>2. \A r \in Reconcilers \ {s} : pc'[r] = pc[r] /\ orm'[r] = orm[r]
        BY <2>2 DEF TypeInv, TypeOK, AgentCalls, AssignTask, Present, Goto, Holds, Sessions
      <3>3. Committed' = Committed
        BY <2>1, <3>1, <3>2, CommittedKept
      <3> QED BY <2>1, <3>1, <3>2, <3>3, WakeQuiet
    <2> QED BY <1>4, <2>1, <2>2, WakePresenceCommit DEF Presence
  <1>5. ASSUME NEW s \in Sessions, RunTimeout(s) \/ Crash(s) PROVE WakeInv'
    <2>1. /\ UNCHANGED <<row, tx, orm>> /\ lock' \in {lock, NoSession} /\ lock' # s
          /\ pc' = [pc EXCEPT ![s] = "idle"] /\ RolledBack(s)
      BY <1>5, LifecycleAssumption DEF RunTimeout, Retry, Crash, Goto
    <2>2. \A r \in Reconcilers \ {s} : pc'[r] = pc[r] /\ orm'[r] = orm[r] /\ job'[r] = job[r]
      <3>1. \A r \in Reconcilers \ {s} : pc'[r] = pc[r] /\ orm'[r] = orm[r]
        BY <2>1 DEF TypeInv, TypeOK, Sessions
      <3>2. CASE Crash(s)
        BY <3>1, <3>2 DEF Crash
      <3>3. CASE RunTimeout(s)
        BY <3>3 DEF RunTimeout, OneReconciler
      <3> QED BY <1>5, <3>1, <3>2, <3>3
    <2>3. pc'[s] = "idle"
      BY <2>1 DEF TypeInv, TypeOK
    <2>4. Committed' = Committed /\ reran' = reran
      BY <2>1, CommittedUndone
    <2> QED BY <2>1, <2>2, <2>3, <2>4, WakeQuiet
  <1>7. CASE TimePasses \/ Redeliver \/ UNCHANGED vars
    BY <1>7 DEF TimePasses, Redeliver, vars, sessions, history, WakeInv, Counted, Committed, Pending,
               MayWake, IsWaking
  <1> QED BY <1>2, <1>3, <1>4, <1>5, <1>7 DEF Next

LEMMA WakeAlways ==
    ASSUME OneReconciler
    PROVE  Spec => [](TypeInv /\ Copies /\ WakeInv)
  <1>1. Init => TypeInv /\ Copies /\ WakeInv
    BY TypeInit, WakeInit
  <1>2. TypeInv /\ Copies /\ WakeInv /\ [Next]_vars => (TypeInv /\ Copies /\ WakeInv)'
    BY TypeNext, CopiesNext, WakeNext
  <1> QED BY <1>1, <1>2, PTL DEF Spec

(* One reconciler wakes a silent agent at most MaxWakeAttempts times between *)
(* two requests or check-ins, whatever sessions with stale copies, errors    *)
(* and redelivered jobs come in between, and once more for each run that is  *)
(* cancelled or dies between its wake and its commit.                        *)
THEOREM WakesAreBounded ==
    ASSUME OneReconciler
    PROVE  Spec => []AutoWakesBounded
  <1>1. TypeInv /\ WakeInv => AutoWakesBounded
    <2> SUFFICES ASSUME TypeInv, WakeInv PROVE AutoWakesBounded
      OBVIOUS
    <2>1. woken \in Nat /\ undone \in Nat /\ MaxWakeAttempts \in Nat
      BY LifecycleAssumption DEF TypeInv, TypeOK
    <2>2. CASE Pending = 0
      BY <2>1, <2>2 DEF WakeInv, Counted, Committed, AutoWakesBounded
    <2>3. CASE Pending # 0
      <3>1. PICK r \in Reconcilers : pc[r] = "commit"
        BY <2>3 DEF Pending
      <3>2. lock = r /\ Pending = 1 /\ tx.wakes \in Nat
        BY <3>1 DEF TypeInv, TypeOK, Pending, Rows, Sessions
      <3>3. Committed < tx.wakes /\ tx.wakes <= MaxWakeAttempts
        BY <3>2 DEF WakeInv, IsWaking
      <3> QED BY <2>1, <3>2, <3>3 DEF Committed, AutoWakesBounded
    <2> QED BY <2>2, <2>3
  <1> QED BY <1>1, WakeAlways, PTL

(* One reconciler commits no second run for a generation it has reconciled   *)
(* since the last request.                                                  *)
THEOREM GenerationsRunOnce ==
    ASSUME OneReconciler
    PROVE  Spec => GenerationRunsOnce
  <1>1. ASSUME TypeInv, WakeInv, NEW s \in Reconcilers, lock = s
        PROVE  job[s].generation \notin reran
    <2>1. IsWaking(s) /\ job[s].generation \in Nat
      BY <1>1 DEF WakeInv, TypeInv, TypeOK, HasJob, Jobs, Sessions
    <2> QED BY <1>1, <2>1 DEF IsWaking
  <1>2. TypeInv /\ WakeInv =>
          [\A s \in Reconcilers : lock = s /\ row' # row => job[s].generation \notin reran]_vars
    BY <1>1
  <1> QED BY <1>2, WakeAlways, PTL DEF GenerationRunsOnce

-----------------------------------------------------------------------------
(* The job behind a wait, for any number of sessions *)

(* Nothing fails and no template is synchronised. *)
NoFailures == MaxSyncs = 0 /\ MaxGatewayErrors = 0 /\ MaxTimeouts = 0 /\ MaxFaults = 0

Undisturbed ==
    /\ \A s \in Syncers : pc[s] = "idle"
    /\ \A what \in {"syncs", "errors", "timeouts", "faults"} : budget[what] = 0

(* What stands behind a wait: a job in the queue or in the hands of a        *)
(* reconciler that will wake, or write the deadline off, or a session that   *)
(* is about to enqueue one.                                                 *)
Queued == \E j \in queue : j.generation = row.generation
Enqueues(s) == Wakes(s) /\ pc[s] \in {"gateway", "commit", "enqueue"}
InHand(r) ==
    /\ job[r] \in Jobs /\ job[r].generation = row.generation
    /\ pc[r] = "begin" \/ (pc[r] = "offline" /\ base[r].deadline # Never)

Backed == Queued \/ (\E s \in Sessions : Enqueues(s)) \/ \E r \in Reconcilers : InHand(r)

(* No presence time is ahead of the latest that was committed. *)
Heard == row.seen <= heard /\ (lock # NoSession => tx.seen <= heard)

CoverInv == Undisturbed /\ Heard /\ (Awaiting => Backed)

LEMMA CoverInit ==
    ASSUME NoFailures
    PROVE  TypeInv /\ Init => CoverInv
  BY DEF NoFailures, Init, CoverInv, Undisturbed, Heard, Awaiting, InitialRow, Never, Sessions

LEMMA NothingFails ==
    ASSUME Undisturbed
    PROVE  ~Redeliver /\ \A s \in Sessions : ~RunFail(s) /\ ~RunTimeout(s) /\ ~Crash(s) /\ ~SyncLoad(s)
  <1>1. ~Spend("errors") /\ ~Spend("timeouts") /\ ~Spend("faults") /\ ~Spend("syncs")
    BY DEF Undisturbed, Spend
  <1> QED BY <1>1, Zenon DEF Redeliver, RunFail, RunTimeout, Crash, SyncLoad

LEMMA UndisturbedNext == TypeInv /\ Undisturbed /\ [Next]_vars => Undisturbed'
  <1> SUFFICES ASSUME TypeInv, Undisturbed, [Next]_vars PROVE Undisturbed'
    OBVIOUS
  <1>1. ~Redeliver /\ \A s \in Sessions : ~RunFail(s) /\ ~RunTimeout(s) /\ ~Crash(s) /\ ~SyncLoad(s)
    BY NothingFails
  <1>2. ASSUME NEW s \in Sessions, Request(s) \/ Worker(s) \/ Presence(s)
        PROVE  s \notin Syncers /\ \E p : pc' = pc \/ pc' = [pc EXCEPT ![s] = p]
    <2>1. s \notin Syncers
      BY <1>1, <1>2, LifecycleAssumption
         DEF Undisturbed, Request, Worker, Presence, ReadTools, MintToken, HashStored, Refresh, Run, RunBegin,
             RunApply, RunCommit, RunEnqueue
    <2>2. \E p : pc' = pc \/ pc' = [pc EXCEPT ![s] = p]
      <3>1. CASE Request(s)
        BY <1>1, <3>1 DEF Request, UpdateLoad, ReadTools, MintToken, HashStored, Refresh, Run, RunBegin,
                          RunApply, RunCommit, RunEnqueue, Goto
      <3>2. CASE Worker(s)
        BY <1>1, <3>2 DEF Worker, Reconcile, MarkOffline, Run, RunBegin, RunApply, RunCommit,
                          RunEnqueue, Goto
      <3>3. CASE Presence(s)
        BY <3>3 DEF Presence, AgentCalls, AssignTask, Present, PresenceCommit, Goto
      <3> QED BY <1>2, <3>1, <3>2, <3>3
    <2> QED BY <2>1, <2>2
  <1>3. \A what \in {"syncs", "errors", "timeouts", "faults"} : budget'[what] = budget[what]
    <2>1. \A b \in {"updates", "beats"} : Spend(b) =>
            \A what \in {"syncs", "errors", "timeouts", "faults"} : budget'[what] = budget[what]
      BY DEF TypeInv, TypeOK, Spend
    <2>2. ~Spend("faults")
      BY DEF Undisturbed, Spend
    <2>3. ASSUME NEW s \in Sessions, Request(s) \/ Worker(s)
          PROVE  budget' = budget \/ Spend("updates")
      BY <1>1, <2>2, <2>3 DEF Request, Worker, UpdateLoad, ReadTools, MintToken, HashStored, Refresh, Run,
         RunBegin, RunApply, RunCommit, RunEnqueue, Reconcile, MarkOffline
    <2>4. ASSUME NEW s \in Sessions, Presence(s)
          PROVE  budget' = budget \/ Spend("beats")
      BY <2>4 DEF Presence, AgentCalls, AssignTask, Present, PresenceCommit
    <2> QED BY <1>1, <2>1, <2>3, <2>4 DEF Next, TimePasses, vars
  <1>4. \A s \in Syncers : pc'[s] = "idle"
    BY <1>1, <1>2 DEF Next, TimePasses, Undisturbed, TypeInv, TypeOK, Sessions, vars, sessions
  <1> QED BY <1>3, <1>4 DEF Undisturbed

(* An answer that is on the row has been heard. *)
LEMMA CheckedInIsHeard ==
    ASSUME TypeInv, Heard, CheckedIn(row)
    PROVE  ~Awaiting
  <1>1. row \in Rows /\ heard \in Nat /\ row.seen <= heard
    BY DEF TypeInv, TypeOK, Heard
  <1>2. row.seen \in Nat /\ row.wake \in Nat
    BY <1>1 DEF Rows
  <1>3. [row EXCEPT !.seen = heard].seen = heard /\ [row EXCEPT !.seen = heard].wake = row.wake
    BY <1>1 DEF Rows
  <1> QED BY <1>1, <1>2, <1>3 DEF CheckedIn, Awaiting, Never

(* Awaiting speaks of the deadline, the wake and what was heard. *)
LEMMA AwaitingColumns ==
    ASSUME NEW r \in Rows
    PROVE  CheckedIn([r EXCEPT !.seen = heard])
             <=> heard # Never /\ (r.wake = Never \/ heard >= r.wake)
  BY DEF CheckedIn, Rows

LEMMA AwaitingKept ==
    ASSUME TypeInv, row' \in Rows, heard' \in Nat, heard' >= heard, row'.wake = row.wake,
           row'.deadline \in {row.deadline, Never}, Awaiting'
    PROVE  Awaiting
  <1>1. row \in Rows /\ heard \in Nat /\ row.wake \in Nat
    BY DEF TypeInv, TypeOK, Rows
  <1>2. /\ row'.deadline # Never
        /\ ~(heard' # Never /\ (row'.wake = Never \/ heard' >= row'.wake))
    BY AwaitingColumns DEF Awaiting, CheckedIn, Rows
  <1> QED BY <1>1, <1>2, AwaitingColumns DEF Awaiting, Never

(* A step of a session that neither enqueues nor reconciles takes no cover. *)
LEMMA BackedStays ==
    ASSUME TypeInv, Backed, row'.generation = row.generation, queue' = queue,
           NEW s \in Sessions \ Reconcilers, ~Enqueues(s),
           \A q \in Sessions \ {s} : pc'[q] = pc[q] /\ base'[q] = base[q],
           \A r \in Reconcilers : job'[r] = job[r]
    PROVE  Backed'
  <1>1. CASE Queued
    BY <1>1 DEF Queued, Backed
  <1>2. ASSUME NEW q \in Sessions, Enqueues(q) PROVE Backed'
    <2>1. q # s
      BY <1>2
    <2> QED BY <1>2, <2>1 DEF Enqueues, Wakes, Backed
  <1>3. ASSUME NEW r \in Reconcilers, InHand(r) PROVE Backed'
    <2>1. r # s /\ r \in Sessions
      BY DEF Sessions
    <2> QED BY <1>3, <2>1 DEF InHand, Backed
  <1> QED BY <1>1, <1>2, <1>3 DEF Backed

LEMMA CoverRun ==
    ASSUME TypeInv, Copies, CoverInv, NEW s \in Sessions,
           RunBegin(s) \/ RunApply(s) \/ RunCommit(s)
    PROVE  Heard' /\ Backed'
  <1>1. s \notin Syncers
    BY DEF CoverInv, Undisturbed, RunBegin, RunApply, RunCommit
  <1>2. Enqueues(s)'
    BY <1>1 DEF TypeInv, TypeOK, RunBegin, RunApply, RunCommit, Goto, Enqueues, Wakes
  <1>3. Backed'
    BY <1>2 DEF Backed
  <1>4. Heard'
    <2>1. CASE RunBegin(s)
      BY <2>1, BeginTx DEF CoverInv, Heard, RunBegin, RacesIf
    <2>2. CASE RunApply(s)
      BY <2>2 DEF CoverInv, Heard, RunApply
    <2>3. CASE RunCommit(s)
      <3>1. lock = s /\ lock' = NoSession /\ heard' = heard /\ row'.seen = tx.seen
        BY <2>3, CommitRow DEF TypeInv, TypeOK, RunCommit, CountRun
      <3>2. s # NoSession
        BY LifecycleAssumption
      <3> QED BY <3>1, <3>2 DEF CoverInv, Heard
    <2> QED BY <2>1, <2>2, <2>3
  <1> QED BY <1>3, <1>4

LEMMA CoverEnqueue ==
    ASSUME TypeInv, CoverInv, NEW s \in Sessions, RunEnqueue(s)
    PROVE  Heard' /\ (Awaiting' => Backed')
  <1>1. s \notin Syncers /\ ~Spend("faults")
    BY DEF CoverInv, Undisturbed, RunEnqueue, Spend
  <1>2. UNCHANGED <<row, tx, lock, heard>>
    BY DEF RunEnqueue, history
  <1>3. Heard'
    BY <1>2 DEF CoverInv, Heard
  <1>4. CASE row.deadline = Never
    BY <1>2, <1>3, <1>4 DEF Awaiting
  <1>5. CASE row.deadline # Never
    <2> DEFINE new == [generation |-> row.generation, deadline |-> row.deadline,
                       at |-> row.deadline, attempts |-> 0]
    <2>1. new \in queue' /\ new.generation = row.generation
      BY <1>1, <1>5 DEF RunEnqueue, Wakes
    <2> HIDE DEF new
    <2>2. Queued'
      BY <1>2, <2>1 DEF Queued
    <2> QED BY <1>3, <2>2 DEF Backed
  <1> QED BY <1>3, <1>4, <1>5

LEMMA CoverQuiet ==
    ASSUME TypeInv, Copies, CoverInv, NEW s \in Sessions \ Reconcilers,
           \/ UpdateLoad(s) \/ ReadTools(s) \/ MintToken(s) \/ Refresh(s) \/ AgentCalls(s)
           \/ AssignTask(s) \/ Present(s) \/ PresenceCommit(s)
    PROVE  Heard' /\ (Awaiting' => Backed')
  <1>1. ~Enqueues(s) /\ UNCHANGED <<tx, lock, job, queue>>
    BY DEF Enqueues, UpdateLoad, ReadTools, MintToken, HashStored, Refresh, AgentCalls, AssignTask, Present,
           PresenceCommit
  <1>2. \A q \in Sessions \ {s} : pc'[q] = pc[q] /\ base'[q] = base[q]
    BY DEF TypeInv, TypeOK, UpdateLoad, ReadTools, MintToken, HashStored, Refresh, AgentCalls, AssignTask,
           Present, PresenceCommit, Holds, Goto
  <1>3. row' \in Rows /\ row'.generation = row.generation /\ row'.wake = row.wake
        /\ row'.deadline \in {row.deadline, Never}
    <2>1. CASE MintToken(s)
      BY <2>1, MintRow
    <2>2. CASE PresenceCommit(s)
      BY <2>2, PresenceRow
    <2>3. CASE row' = row
      BY <2>3 DEF TypeInv, TypeOK
    <2> QED BY <2>1, <2>2, <2>3 DEF UpdateLoad, ReadTools, Refresh, AgentCalls, AssignTask, Present
  <1>4. heard' \in Nat /\ heard' >= heard /\ row'.seen <= heard' /\ (lock # NoSession => tx.seen <= heard')
    <2>1. heard \in Nat /\ row.seen \in Nat /\ orm[s].seen \in Nat /\ row.seen <= heard
          /\ (lock # NoSession => tx.seen <= heard)
      BY DEF TypeInv, TypeOK, Rows, CoverInv, Heard
    <2>2. CASE PresenceCommit(s)
      <3>1. row'.seen \in {row.seen, orm[s].seen} /\ lock = NoSession
        BY <2>2, PresenceRow DEF PresenceCommit, Unlocked
      <3>2. heard' = IF orm[s].seen > heard THEN orm[s].seen ELSE heard
        BY <2>2 DEF PresenceCommit
      <3> QED BY <2>1, <3>1, <3>2
    <2>3. CASE row'.seen = row.seen /\ heard' = heard
      BY <2>1, <2>3
    <2> QED BY <2>2, <2>3, MintRow
            DEF UpdateLoad, ReadTools, MintToken, HashStored, Refresh, AgentCalls, AssignTask, Present, history, RacesIf
  <1>5. ASSUME Awaiting' PROVE Backed'
    <2>1. Awaiting
      BY <1>3, <1>4, <1>5, AwaitingKept
    <2>2. \A r \in Reconcilers : job'[r] = job[r]
      BY <1>1
    <2> QED BY <1>1, <1>2, <1>3, <2>1, <2>2, BackedStays DEF CoverInv
  <1>6. Heard'
    BY <1>1, <1>4 DEF Heard
  <1> QED BY <1>5, <1>6

LEMMA CoverReconcile ==
    ASSUME TypeInv, CoverInv, NEW s \in Reconcilers, Reconcile(s)
    PROVE  Heard' /\ (Awaiting' => Backed')
  <1>1. /\ UNCHANGED <<row, tx, lock, heard>> /\ pc[s] = "idle" /\ s \in Sessions
        /\ row \in Rows /\ pc \in [Sessions -> PCs] /\ queue \subseteq Jobs
        /\ base \in [Sessions -> Rows] /\ job \in [Reconcilers -> Jobs \cup {NoJob}]
    BY DEF TypeInv, TypeOK, Reconcile, history, Sessions
  <1>2. Heard'
    BY <1>1 DEF CoverInv, Heard
  <1> SUFFICES ASSUME Awaiting' PROVE Backed'
    BY <1>2
  <1>3. row.deadline # Never /\ ~CheckedIn(row) /\ Backed
    BY <1>1, CheckedInIsHeard DEF CoverInv, Awaiting
  <1>4. PICK j \in queue :
           \/ /\ Stale(j) \/ CheckedIn(row)
              /\ queue' = queue \ {j}
              /\ UNCHANGED <<pc, job, base>>
           \/ /\ \E d : Postponed(j, d)
              /\ UNCHANGED <<pc, job, base>>
           \/ /\ ~Stale(j)
              /\ \E p \in {"begin", "offline"} : Goto(s, p)
              /\ job' = [job EXCEPT ![s] = j]
              /\ base' = [base EXCEPT ![s] = row]
    BY DEF Reconcile, Holds
  <1>5. ASSUME UNCHANGED <<pc, job, base>>, ~Queued PROVE Backed'
    BY <1>1, <1>3, <1>5 DEF Backed, Enqueues, Wakes, InHand
  <1>6. CASE Stale(j) /\ queue' = queue \ {j} /\ UNCHANGED <<pc, job, base>>
    <2>1. CASE Queued
      <3>1. Queued'
        BY <1>1, <1>6, <2>1 DEF Queued, Stale
      <3> QED BY <3>1 DEF Backed
    <2> QED BY <1>5, <1>6, <2>1
  <1>7. ASSUME NEW d, Postponed(j, d), UNCHANGED <<pc, job, base>> PROVE Backed'
    <2>1. CASE Queued
      <3> DEFINE later == [j EXCEPT !.at = d]
      <3>1. later.generation = j.generation /\ queue' = (queue \ {j}) \cup {later}
        BY <1>1, <1>7 DEF Postponed, Jobs
      <3> HIDE DEF later
      <3>2. Queued'
        BY <1>1, <2>1, <3>1 DEF Queued
      <3> QED BY <3>2 DEF Backed
    <2> QED BY <1>5, <1>7, <2>1
  <1>8. ASSUME NEW p \in {"begin", "offline"}, Goto(s, p), ~Stale(j),
               job' = [job EXCEPT ![s] = j], base' = [base EXCEPT ![s] = row]
        PROVE  Backed'
    <2>1. job'[s] = j /\ base'[s] = row /\ pc'[s] = p /\ j \in Jobs
      BY <1>1, <1>8 DEF Goto
    <2>2. InHand(s)'
      BY <1>1, <1>3, <1>8, <2>1 DEF InHand, Stale
    <2> QED BY <2>2 DEF Backed
  <1> QED BY <1>3, <1>4, <1>6, <1>7, <1>8

LEMMA CoverOffline ==
    ASSUME TypeInv, Copies, CoverInv, NEW s \in Reconcilers, MarkOffline(s)
    PROVE  Heard' /\ (Awaiting' => Backed')
  <1>1. /\ s \in Sessions /\ pc[s] = "offline" /\ lock = NoSession /\ lock' = lock
        /\ UNCHANGED <<queue, heard, tx, base>> /\ pc' = [pc EXCEPT ![s] = "idle"]
        /\ job' = [job EXCEPT ![s] = NoJob] /\ pc \in [Sessions -> PCs]
        /\ job \in [Reconcilers -> Jobs \cup {NoJob}] /\ heard \in Nat
    BY DEF Sessions, TypeInv, TypeOK, MarkOffline, Unlocked, Goto, history
  <1>2. /\ row' \in Rows /\ row'.generation = row.generation
        /\ row'.seen = row.seen /\ row'.wake = row.wake
        /\ row'.deadline = IF base[s].deadline # Never THEN Never ELSE row.deadline
    BY <1>1, OfflineRow
  <1>3. Heard'
    BY <1>1, <1>2 DEF CoverInv, Heard
  <1> SUFFICES ASSUME Awaiting' PROVE Backed'
    BY <1>3
  <1>4. base[s].deadline = Never
    BY <1>2 DEF Awaiting
  <1>5. Backed
    BY <1>1, <1>2, AwaitingKept DEF CoverInv
  <1>6. CASE Queued
    <2>1. Queued'
      BY <1>1, <1>2, <1>6 DEF Queued
    <2> QED BY <2>1 DEF Backed
  <1>7. ASSUME NEW q \in Sessions, Enqueues(q) PROVE Backed'
    <2>1. Enqueues(q)'
      BY <1>1, <1>7 DEF Enqueues, Wakes
    <2> QED BY <2>1 DEF Backed
  <1>8. ASSUME NEW r \in Reconcilers, InHand(r) PROVE Backed'
    <2>1. r # s
      BY <1>1, <1>4, <1>8 DEF InHand
    <2>2. InHand(r)'
      BY <1>1, <1>2, <1>8, <2>1 DEF InHand, Sessions
    <2> QED BY <2>2 DEF Backed
  <1> QED BY <1>5, <1>6, <1>7, <1>8 DEF Backed

LEMMA CoverNext == TypeInv /\ Copies /\ CoverInv /\ [Next]_vars => CoverInv'
  <1> SUFFICES ASSUME TypeInv, Copies, CoverInv, [Next]_vars PROVE CoverInv'
    OBVIOUS
  <1>1. Undisturbed'
    BY UndisturbedNext DEF CoverInv
  <1>2. ~Redeliver /\ \A s \in Sessions : ~RunFail(s) /\ ~RunTimeout(s) /\ ~Crash(s) /\ ~SyncLoad(s)
    BY NothingFails DEF CoverInv
  <1>3. ASSUME NEW s \in Sessions, Request(s) PROVE Heard' /\ (Awaiting' => Backed')
    <2>1. s \notin Reconcilers
      BY <1>3, LifecycleAssumption DEF Request
    <2> QED BY <1>2, <1>3, <2>1, CoverQuiet, CoverRun, CoverEnqueue DEF Request, Run
  <1>4. ASSUME NEW s \in Sessions, Worker(s) PROVE Heard' /\ (Awaiting' => Backed')
    BY <1>2, <1>4, CoverReconcile, CoverOffline, CoverRun, CoverEnqueue DEF Worker, Run
  <1>5. ASSUME NEW s \in Sessions, Presence(s) PROVE Heard' /\ (Awaiting' => Backed')
    <2>1. s \notin Reconcilers
      BY <1>5, LifecycleAssumption DEF Presence
    <2> QED BY <1>5, <2>1, CoverQuiet DEF Presence
  <1>6. CASE TimePasses \/ UNCHANGED vars
    BY <1>1, <1>6 DEF TimePasses, vars, sessions, history, CoverInv, Heard, Awaiting, CheckedIn,
       Backed, Queued, Enqueues, Wakes, InHand
  <1>7. Heard' /\ (Awaiting' => Backed') => CoverInv'
    BY <1>1 DEF CoverInv
  <1> QED BY <1>2, <1>3, <1>4, <1>5, <1>6, <1>7 DEF Next

(* While nothing fails and no template is synchronised, a wake without an    *)
(* answer has a reconcile job of the row's generation behind it, or a        *)
(* session about to enqueue one, for any number of updates, reconcilers and  *)
(* presence requests.                                                       *)
THEOREM WaitsAreCovered ==
    ASSUME NoFailures
    PROVE  Spec => []WaitIsCovered
  <1>1. Init => TypeInv /\ Copies /\ CoverInv
    BY TypeInit, WakeInit, CoverInit
  <1>2. TypeInv /\ Copies /\ CoverInv /\ [Next]_vars => (TypeInv /\ Copies /\ CoverInv)'
    BY TypeNext, CopiesNext, CoverNext
  <1>3. TypeInv /\ CoverInv => WaitIsCovered
    <2> SUFFICES ASSUME TypeInv, CoverInv, Awaiting PROVE Covered
      BY DEF WaitIsCovered
    <2>1. CASE Queued
      BY <2>1 DEF Queued, Covered
    <2>2. CASE \E s \in Sessions : Enqueues(s)
      BY <2>2 DEF Enqueues, Covered
    <2>3. ASSUME NEW r \in Reconcilers, InHand(r) PROVE Covered
      <3>1. job[r] # NoJob
        BY <2>3, NoJobAssumption DEF InHand
      <3> QED BY <2>3, <3>1 DEF InHand, Covered
    <2> QED BY <2>1, <2>2, <2>3 DEF CoverInv, Backed
  <1> QED BY <1>1, <1>2, <1>3, PTL DEF Spec

-----------------------------------------------------------------------------
(* Tokens. A session's copy never differs from what it loaded in the hash, *)
(* so that only minting writes one; and every token minted is new.         *)
TokenCopies == \A s \in Sessions : orm[s].token = base[s].token

TokensOld ==
    /\ gateway <= minted /\ row.token <= minted /\ tx.token <= minted
    /\ \A s \in Sessions : token[s] <= minted /\ base[s].token <= minted

(* A reconcile run mints under the lock: it pushes what it will commit.    *)
TokenUnderLock ==
    IF lock \in Reconcilers
    THEN /\ token[lock] = tx.token
         /\ pc[lock] = "gateway" => gateway # tx.token
         /\ pc[lock] = "commit" => gateway = tx.token
    ELSE lock # NoSession => tx.token = row.token

(* The token that is to be the agent's: everyone who has one has this one, *)
(* and the gateway has it unless one of them is about to push it.          *)
Current == IF lock \in Reconcilers THEN tx.token ELSE row.token

HeldIsCurrent == \A s \in Sessions \ Reconcilers : HasToken(s) => token[s] = Current

Arrives == gateway # Current =>
    \E s \in Sessions : HasToken(s) /\ pc[s] # "commit" /\ token[s] = Current

TokenInv == TokenCopies /\ TokensOld /\ TokenUnderLock /\ (~raced => HeldIsCurrent /\ Arrives)

LEMMA TokenInit == Init => TokenInv
  <1> SUFFICES ASSUME Init PROVE TokenInv
    OBVIOUS
  <1>1. NoSession \notin Reconcilers
    BY LifecycleAssumption DEF Sessions
  <1> QED BY <1>1 DEF Init, InitialRow, TokenInv, TokenCopies, TokensOld, TokenUnderLock, HeldIsCurrent,
             Arrives, Current, HasToken

(* The hash in a merged row. *)
LEMMA MergeToken ==
    ASSUME NEW r \in Rows, NEW from \in Rows, NEW to \in Rows
    PROVE  Merge(r, from, to).token = IF to.token # from.token THEN to.token ELSE r.token
  BY DEF Merge, Rows

LEMMA TokenQuiet ==
    ASSUME TypeInv, TokenInv, NEW s \in Sessions, lock # s, lock' = lock,
           row'.token = row.token, tx' = tx, minted' = minted, gateway' = gateway, raced' = raced,
           \A q \in Sessions : /\ orm'[q].token = base'[q].token
                               /\ base'[q].token \in {base[q].token, row.token},
           \A q \in Sessions \ {s} : pc'[q] = pc[q] /\ token'[q] = token[q],
           token'[s] \in {token[s], gateway},
           HasToken(s)' <=> HasToken(s), HasToken(s) => token'[s] = token[s] /\ pc'[s] # "commit"
    PROVE  TokenInv'
  <1>1. TokenCopies' /\ TokensOld'
    BY DEF TokenInv, TokenCopies, TokensOld
  <1>2. \A q \in Sessions \ {s} : HasToken(q)' <=> HasToken(q)
    BY DEF HasToken
  <1>3. Current' = Current
    BY DEF Current
  <1>4. TokenUnderLock'
    <2>1. lock \in Reconcilers => lock \in Sessions \ {s}
      BY DEF Sessions
    <2> QED BY <2>1 DEF TokenInv, TokenUnderLock
  <1>5. ASSUME ~raced PROVE HeldIsCurrent' /\ Arrives'
    <2>1. HeldIsCurrent'
      BY <1>2, <1>3, <1>5 DEF TokenInv, HeldIsCurrent
    <2>2. Arrives'
      <3> SUFFICES ASSUME gateway # Current
                   PROVE  \E q \in Sessions : HasToken(q)' /\ pc'[q] # "commit" /\ token'[q] = Current
        BY <1>3 DEF Arrives
      <3>1. PICK q \in Sessions : HasToken(q) /\ pc[q] # "commit" /\ token[q] = Current
        BY <1>5 DEF TokenInv, Arrives
      <3> QED BY <1>2, <3>1
    <2> QED BY <2>1, <2>2
  <1> QED BY <1>1, <1>4, <1>5 DEF TokenInv

LEMMA TokenRead ==
    ASSUME TypeInv, TokenInv, NEW s \in Sessions \ Reconcilers, ReadTools(s)
    PROVE  TokenInv'
  <1>1. /\ pc[s] = "tools" /\ token' = [token EXCEPT ![s] = gateway]
        /\ UNCHANGED <<row, tx, lock, orm, base, gateway, minted>>
    BY DEF ReadTools
  <1>2. token'[s] = gateway /\ \A q \in Sessions \ {s} : token'[q] = token[q]
    BY <1>1 DEF TypeInv, TypeOK
  <1>3. lock # s /\ ~HasToken(s)
    BY <1>1 DEF TypeInv, TypeOK, HasToken
  <1>4. CASE pc' = [pc EXCEPT ![s] = "mint"] /\ raced' = raced
    <2>1. pc'[s] = "mint" /\ \A q \in Sessions \ {s} : pc'[q] = pc[q]
      BY <1>4 DEF TypeInv, TypeOK
    <2>2. ~HasToken(s)'
      BY <2>1 DEF HasToken
    <2> QED BY <1>1, <1>2, <1>3, <1>4, <2>1, <2>2, TokenQuiet DEF TokenInv, TokenCopies
  <1>6. CASE pc' = [pc EXCEPT ![s] = "idle"] /\ raced' = raced
    <2>1. pc'[s] = "idle" /\ \A q \in Sessions \ {s} : pc'[q] = pc[q]
      BY <1>6 DEF TypeInv, TypeOK
    <2>2. ~HasToken(s)'
      BY <2>1 DEF HasToken
    <2> QED BY <1>1, <1>2, <1>3, <1>6, <2>1, <2>2, TokenQuiet DEF TokenInv, TokenCopies
  <1>5. CASE /\ pc' = [pc EXCEPT ![s] = "begin"]
             /\ RacesIf(\E q \in Sessions \ {s} : HasToken(q) /\ token[q] # gateway)
    <2>1. pc'[s] = "begin" /\ \A q \in Sessions \ {s} : pc'[q] = pc[q]
      BY <1>5 DEF TypeInv, TypeOK
    <2>2. HasToken(s)' /\ \A q \in Sessions \ {s} : HasToken(q)' <=> HasToken(q)
      BY <2>1 DEF HasToken
    <2>3. TokenCopies' /\ TokensOld'
      BY <1>1, <1>2 DEF TokenInv, TokenCopies, TokensOld
    <2>4. TokenUnderLock'
      <3>1. lock \in Reconcilers => lock \in Sessions \ {s}
        BY DEF Sessions
      <3> QED BY <1>1, <1>2, <2>1, <3>1 DEF TokenInv, TokenUnderLock
    <2>5. ASSUME ~raced' PROVE HeldIsCurrent' /\ Arrives'
      <3>1. ~raced /\ \A q \in Sessions \ {s} : HasToken(q) => token[q] = gateway
        BY <1>5, <2>5 DEF RacesIf
      <3>2. gateway = Current
        BY <1>3, <3>1 DEF TokenInv, Arrives
      <3>3. Current' = Current
        BY <1>1 DEF Current
      <3> QED BY <1>1, <1>2, <2>2, <3>1, <3>2, <3>3 DEF TokenInv, HeldIsCurrent, Arrives
    <2> QED BY <2>3, <2>4, <2>5 DEF TokenInv
  <1> QED BY <1>4, <1>5, <1>6 DEF ReadTools, Goto, history

LEMMA TokenMint ==
    ASSUME TypeInv, TokenInv, NEW s \in Sessions \ Reconcilers, MintToken(s)
    PROVE  TokenInv'
  <1>1. /\ pc[s] = "mint" /\ lock = NoSession /\ minted' = minted + 1
        /\ token' = [token EXCEPT ![s] = minted'] /\ pc' = [pc EXCEPT ![s] = "refresh"]
        /\ RacesIf(\E q \in Sessions \ {s} : HasToken(q))
        /\ UNCHANGED <<tx, lock, orm, base, gateway>>
    BY DEF MintToken, Goto, Unlocked
  <1>2. /\ token'[s] = minted' /\ pc'[s] = "refresh"
        /\ \A q \in Sessions \ {s} : token'[q] = token[q] /\ pc'[q] = pc[q]
    BY <1>1 DEF TypeInv, TypeOK
  <1>3. row'.token = minted'
    <2>1. /\ row \in Rows /\ base[s] \in Rows /\ orm[s] \in Rows /\ minted' \in Nat /\ minted \in Nat
      BY <1>1 DEF TypeInv, TypeOK
    <2> DEFINE stored == [orm[s] EXCEPT !.token = minted']
    <2>2. stored \in Rows /\ stored.token = minted'
      BY <2>1 DEF Rows
    <2>3. base[s].token \in Nat /\ base[s].token <= minted
      BY <2>1 DEF TokenInv, TokensOld, Rows
    <2>4. row' = Merge(row, base[s], stored)
      BY DEF MintToken, HashStored
    <2> HIDE DEF stored
    <2>5. stored.token # base[s].token
      BY <1>1, <2>1, <2>2, <2>3
    <2> QED BY <2>1, <2>2, <2>4, <2>5, MergeToken
  <1>4. minted \in Nat /\ gateway \in Nat /\ tx.token \in Nat
        /\ \A q \in Sessions : token[q] \in Nat /\ base[q].token \in Nat
    BY DEF TypeInv, TypeOK, Rows
  <1>5. TokenCopies' /\ TokensOld'
    BY <1>1, <1>2, <1>3, <1>4 DEF TokenInv, TokenCopies, TokensOld
  <1>6. NoSession \notin Reconcilers
    BY LifecycleAssumption DEF Sessions
  <1>7. TokenUnderLock' /\ Current' = minted'
    BY <1>1, <1>3, <1>6 DEF TokenUnderLock, Current
  <1>8. ASSUME ~raced' PROVE HeldIsCurrent' /\ Arrives'
    <2>1. \A q \in Sessions \ {s} : ~HasToken(q)
      BY <1>1, <1>8 DEF RacesIf
    <2>2. HasToken(s)' /\ \A q \in Sessions \ {s} : ~HasToken(q)'
      BY <1>2, <2>1 DEF HasToken
    <2> QED BY <1>2, <1>7, <2>2 DEF HeldIsCurrent, Arrives
  <1> QED BY <1>5, <1>7, <1>8 DEF TokenInv

LEMMA TokenBegin ==
    ASSUME TypeInv, TokenInv, NEW s \in Sessions, RunBegin(s)
    PROVE  TokenInv'
  <1> DEFINE requested ==
             [orm[s] EXCEPT
                !.token = IF s \in Reconcilers THEN minted' ELSE @,
                !.status = "updating",
                !.generation = @ + 1,
                !.error = FALSE,
                !.deadline = IF Wakes(s) THEN clock' ELSE Never,
                !.wakes = IF Wakes(s) THEN @ + 1 ELSE @,
                !.wake = IF Wakes(s) THEN clock' ELSE @]
  <1>1. /\ pc[s] = "begin" /\ lock = NoSession /\ lock' = s /\ pc' = [pc EXCEPT ![s] = "gateway"]
        /\ tx' = Merge(row, base[s], requested)
        /\ orm' = [orm EXCEPT ![s] = requested] /\ base' = [base EXCEPT ![s] = requested]
        /\ RacesIf(s \in Reconcilers /\ \E q \in Sessions \ {s} : HasToken(q))
        /\ IF s \in Reconcilers
           THEN minted' = minted + 1 /\ token' = [token EXCEPT ![s] = minted']
           ELSE UNCHANGED <<minted, token>>
        /\ UNCHANGED <<row, gateway>>
    BY DEF RunBegin, Goto, Unlocked, Holds
  <1>2. /\ row \in Rows /\ base[s] \in Rows /\ orm[s] \in Rows /\ minted \in Nat /\ minted' \in Nat
        /\ clock' \in Nat
    BY <1>1 DEF TypeInv, TypeOK, RunBegin
  <1>3. requested \in Rows /\ requested.token = IF s \in Reconcilers THEN minted' ELSE orm[s].token
    <2>1. orm[s].generation + 1 \in Nat /\ orm[s].wakes + 1 \in Nat /\ Never \in Nat
      BY <1>2 DEF Rows, Never
    <2> QED BY <1>2, <2>1 DEF Rows, Statuses
  <1> HIDE DEF requested
  <1>4. /\ orm[s].token = base[s].token /\ base[s].token \in Nat /\ base[s].token <= minted
        /\ gateway \in Nat /\ row.token \in Nat /\ row.token <= minted /\ gateway <= minted
        /\ \A q \in Sessions : token[q] \in Nat /\ base[q].token \in Nat
    BY DEF TypeInv, TypeOK, Rows, TokenInv, TokenCopies, TokensOld
  <1>5. tx'.token = IF s \in Reconcilers THEN minted' ELSE row.token
    BY <1>1, <1>2, <1>3, <1>4, MergeToken
  <1>6. pc'[s] = "gateway" /\ \A q \in Sessions \ {s} : pc'[q] = pc[q] /\ token'[q] = token[q]
    BY <1>1 DEF TypeInv, TypeOK
  <1>7. \A q \in Sessions \ {s} : HasToken(q)' <=> HasToken(q)
    BY <1>6 DEF HasToken
  <1>8. TokenCopies'
    BY <1>1, <1>2 DEF TypeInv, TypeOK, TokenInv, TokenCopies
  <1>9. TokensOld'
    <2>1. \A q \in Sessions : base'[q].token <= minted'
      <3> SUFFICES ASSUME NEW q \in Sessions PROVE base'[q].token <= minted'
        OBVIOUS
      <3>1. base'[q] = IF q = s THEN requested ELSE base[q]
        BY <1>1 DEF TypeInv, TypeOK
      <3>2. base[q].token <= minted /\ base[q].token \in Nat
        BY <1>4 DEF TokenInv, TokensOld
      <3> QED BY <1>1, <1>2, <1>3, <1>4, <3>1, <3>2
    <2>2. \A q \in Sessions : token'[q] <= minted'
      <3> SUFFICES ASSUME NEW q \in Sessions PROVE token'[q] <= minted'
        OBVIOUS
      <3>1. token'[q] = token[q] \/ token'[q] = minted'
        BY <1>1 DEF TypeInv, TypeOK
      <3>2. token[q] <= minted /\ token[q] \in Nat
        BY <1>4 DEF TokenInv, TokensOld
      <3> QED BY <1>1, <1>2, <3>1, <3>2
    <2> QED BY <1>1, <1>2, <1>4, <1>5, <2>1, <2>2 DEF TokensOld
  <1>10. s # NoSession
    BY LifecycleAssumption
  <1>11. CASE s \in Reconcilers
    <2>1. token'[s] = minted' /\ minted' = minted + 1
      BY <1>1, <1>11 DEF TypeInv, TypeOK
    <2>2. TokenUnderLock' /\ Current' = minted'
      BY <1>1, <1>2, <1>4, <1>5, <1>6, <1>11, <2>1 DEF TokenUnderLock, Current
    <2>3. ASSUME ~raced' PROVE HeldIsCurrent' /\ Arrives'
      <3>1. \A q \in Sessions \ {s} : ~HasToken(q)
        BY <1>1, <1>11, <2>3 DEF RacesIf
      <3>2. HasToken(s)'
        BY <1>6, <1>11 DEF HasToken
      <3> QED BY <1>6, <1>7, <1>11, <2>1, <2>2, <3>1, <3>2 DEF HeldIsCurrent, Arrives
    <2> QED BY <1>8, <1>9, <2>2, <2>3 DEF TokenInv
  <1>12. CASE s \notin Reconcilers
    <2>1. NoSession \notin Reconcilers /\ token' = token
      BY <1>1, <1>12, LifecycleAssumption DEF Sessions
    <2>2. TokenUnderLock' /\ Current' = Current
      BY <1>1, <1>5, <1>12, <2>1 DEF TokenUnderLock, Current
    <2>3. HasToken(s) /\ HasToken(s)'
      BY <1>1, <1>6, <1>12 DEF HasToken
    <2>4. ASSUME ~raced' PROVE HeldIsCurrent' /\ Arrives'
      <3>1. ~raced
        BY <1>1, <2>4 DEF RacesIf
      <3>2. HeldIsCurrent'
        BY <1>7, <2>1, <2>2, <2>3, <3>1 DEF TokenInv, HeldIsCurrent
      <3>3. Arrives'
        BY <1>1, <1>6, <1>7, <2>1, <2>2, <2>3, <3>1 DEF TokenInv, Arrives
      <3> QED BY <3>2, <3>3
    <2> QED BY <1>8, <1>9, <2>2, <2>4 DEF TokenInv
  <1> QED BY <1>11, <1>12

LEMMA TokenApply ==
    ASSUME TypeInv, TokenInv, NEW s \in Sessions, RunApply(s)
    PROVE  TokenInv'
  <1>1. /\ pc[s] = "gateway" /\ lock = s /\ gateway' = token[s] /\ pc' = [pc EXCEPT ![s] = "commit"]
        /\ UNCHANGED <<row, tx, lock, orm, base, token, minted, raced>>
    BY DEF RunApply, Goto, history, TypeInv, TypeOK
  <1>2. pc'[s] = "commit" /\ \A q \in Sessions \ {s} : pc'[q] = pc[q]
    BY <1>1 DEF TypeInv, TypeOK
  <1>3. TokenCopies' /\ TokensOld'
    BY <1>1 DEF TokenInv, TokenCopies, TokensOld
  <1>4. TokenUnderLock' /\ Current' = Current
    BY <1>1, <1>2 DEF TokenInv, TokenUnderLock, Current
  <1>5. ASSUME ~raced PROVE HeldIsCurrent' /\ Arrives'
    <2>1. HeldIsCurrent'
      BY <1>1, <1>2, <1>4, <1>5 DEF TokenInv, HeldIsCurrent, HasToken
    <2>2. token[s] = Current
      <3>1. CASE s \in Reconcilers
        BY <1>1, <3>1 DEF TokenInv, TokenUnderLock, Current
      <3>2. CASE s \notin Reconcilers
        BY <1>1, <1>5, <3>2 DEF TokenInv, HeldIsCurrent, HasToken
      <3> QED BY <3>1, <3>2
    <2> QED BY <1>1, <1>4, <2>1, <2>2 DEF Arrives
  <1> QED BY <1>1, <1>3, <1>4, <1>5 DEF TokenInv

LEMMA TokenCommit ==
    ASSUME TypeInv, TokenInv, NEW s \in Sessions, RunCommit(s)
    PROVE  TokenInv'
  <1> DEFINE done == [orm[s] EXCEPT !.status = "online", !.error = FALSE,
                        !.deadline = IF Wakes(s) THEN clock' ELSE Never]
  <1>1. /\ pc[s] = "commit" /\ lock = s /\ lock' = NoSession /\ pc' = [pc EXCEPT ![s] = "enqueue"]
        /\ row' = Merge(tx, base[s], done)
        /\ UNCHANGED <<tx, orm, base, token, gateway, minted, raced>>
    BY DEF RunCommit, Goto, TypeInv, TypeOK
  <1>2. pc'[s] = "enqueue" /\ \A q \in Sessions \ {s} : pc'[q] = pc[q]
    BY <1>1 DEF TypeInv, TypeOK
  <1>3. row'.token = tx.token
    <2>1. clock' \in Nat /\ tx \in Rows /\ orm[s] \in Rows /\ base[s] \in Rows
      BY DEF RunCommit, TypeInv, TypeOK
    <2>2. done \in Rows /\ done.token = orm[s].token
      BY <2>1 DEF Rows, Statuses, Never
    <2> HIDE DEF done
    <2> QED BY <1>1, <2>1, <2>2, MergeToken DEF TokenInv, TokenCopies
  <1>4. TokenCopies' /\ TokensOld'
    BY <1>1, <1>3 DEF TokenInv, TokenCopies, TokensOld
  <1>5. NoSession \notin Reconcilers /\ s # NoSession
    BY LifecycleAssumption DEF Sessions
  <1>6. TokenUnderLock' /\ Current' = Current
    BY <1>1, <1>3, <1>5 DEF TokenInv, TokenUnderLock, Current
  <1>7. ASSUME ~raced PROVE HeldIsCurrent' /\ Arrives'
    <2>1. HeldIsCurrent'
      BY <1>1, <1>2, <1>6, <1>7 DEF TokenInv, HeldIsCurrent, HasToken
    <2>2. Arrives'
      <3> SUFFICES ASSUME gateway # Current
                   PROVE  \E q \in Sessions : HasToken(q)' /\ pc'[q] # "commit" /\ token'[q] = Current
        BY <1>1, <1>6 DEF Arrives
      <3>1. PICK q \in Sessions : HasToken(q) /\ pc[q] # "commit" /\ token[q] = Current
        BY <1>7 DEF TokenInv, Arrives
      <3>2. q # s
        BY <1>1, <3>1
      <3> QED BY <1>1, <1>2, <3>1, <3>2 DEF HasToken
    <2> QED BY <2>1, <2>2
  <1> QED BY <1>1, <1>4, <1>6, <1>7 DEF TokenInv

LEMMA TokenFail ==
    ASSUME TypeInv, TypeInv', TokenInv, NEW s \in Sessions, RunFail(s)
    PROVE  TokenInv'
  <1>1. /\ raced' /\ lock' = NoSession /\ gateway' \in {gateway, token[s]} /\ lock = s
        /\ UNCHANGED <<tx, token, minted>>
    BY DEF RunFail, TypeInv, TypeOK
  <1>2. NoSession \notin Reconcilers
    BY LifecycleAssumption DEF Sessions
  <1>3. TokenUnderLock'
    BY <1>1, <1>2 DEF TokenUnderLock
  <1>4. row' = Merge(tx, base[s], [orm[s] EXCEPT !.error = TRUE]) /\ Holds(s, row')
    BY DEF RunFail
  <1>5. row'.token = tx.token
    <2>1. tx \in Rows /\ orm[s] \in Rows /\ base[s] \in Rows
      BY DEF TypeInv, TypeOK
    <2> DEFINE failed == [orm[s] EXCEPT !.error = TRUE]
    <2>2. failed \in Rows /\ failed.token = orm[s].token
      BY <2>1 DEF Rows
    <2>3. orm[s].token = base[s].token
      BY DEF TokenInv, TokenCopies
    <2>4. row' = Merge(tx, base[s], failed)
      BY <1>4
    <2> HIDE DEF failed
    <2> QED BY <2>1, <2>2, <2>3, <2>4, MergeToken
  <1>6. \A q \in Sessions : \/ orm'[q] = row' /\ base'[q] = row'
                            \/ orm'[q] = orm[q] /\ base'[q] = base[q]
    BY <1>4 DEF Holds, TypeInv, TypeOK
  <1> QED BY <1>1, <1>3, <1>5, <1>6 DEF TokenInv, TokenCopies, TokensOld

(* A run that is rolled back, and a token that is lost with it. *)
LEMMA TokenUndone ==
    ASSUME TypeInv, TokenInv, NEW s \in Sessions, Crash(s) \/ RunTimeout(s)
    PROVE  TokenInv'
  <1>1. /\ lock' = (IF lock = s THEN NoSession ELSE lock) /\ pc' = [pc EXCEPT ![s] = "idle"]
        /\ raced' = (raced \/ HasToken(s))
        /\ UNCHANGED <<row, tx, orm, base, token, minted>>
    BY DEF Crash, RunTimeout, Retry, RolledBack, Goto
  <1>2. pc'[s] = "idle" /\ \A q \in Sessions \ {s} : pc'[q] = pc[q]
    BY <1>1 DEF TypeInv, TypeOK
  <1>3. gateway' \in {gateway, token[s]} /\ (~HasToken(s) => gateway' = gateway)
    BY DEF Crash, RunTimeout, HasToken
  <1>4. TokenCopies' /\ TokensOld'
    BY <1>1, <1>3 DEF TokenInv, TokenCopies, TokensOld
  <1>5. NoSession \notin Reconcilers /\ s # NoSession /\ (lock \in Reconcilers => lock \in Sessions)
    BY LifecycleAssumption DEF Sessions
  <1>6. TokenUnderLock'
    <2>1. lock # s => gateway' = gateway
      BY DEF Crash, RunTimeout, TypeInv, TypeOK
    <2> QED BY <1>1, <1>2, <1>5, <2>1 DEF TokenInv, TokenUnderLock
  <1>7. ASSUME ~raced' PROVE HeldIsCurrent' /\ Arrives'
    <2>1. ~raced /\ ~HasToken(s) /\ gateway' = gateway
      BY <1>1, <1>3, <1>7
    <2>2. Current' = Current
      <3>1. CASE lock = s
        <4>1. s \notin Reconcilers
          BY <2>1, <3>1 DEF TypeInv, TypeOK, HasToken
        <4> QED BY <1>1, <1>5, <3>1, <4>1 DEF Current
      <3>2. CASE lock # s
        BY <1>1, <3>2 DEF Current
      <3> QED BY <3>1, <3>2
    <2>3. \A q \in Sessions : IF q = s THEN ~HasToken(q)' ELSE HasToken(q)' <=> HasToken(q)
      BY <1>2 DEF HasToken
    <2>4. HeldIsCurrent'
      BY <1>1, <2>1, <2>2, <2>3 DEF TokenInv, HeldIsCurrent
    <2>5. Arrives'
      <3> SUFFICES ASSUME gateway # Current
                   PROVE  \E q \in Sessions : HasToken(q)' /\ pc'[q] # "commit" /\ token'[q] = Current
        BY <2>1, <2>2 DEF Arrives
      <3>1. PICK q \in Sessions : HasToken(q) /\ pc[q] # "commit" /\ token[q] = Current
        BY <2>1 DEF TokenInv, Arrives
      <3>2. q # s
        BY <2>1, <3>1
      <3> QED BY <1>1, <1>2, <2>3, <3>1, <3>2
    <2> QED BY <2>4, <2>5
  <1> QED BY <1>4, <1>6, <1>7 DEF TokenInv

(* A session that neither takes nor gives up a token loads the row. *)
LEMMA TokenHolds ==
    ASSUME TypeInv, TokenInv, NEW s \in Sessions, NEW p, Goto(s, p), Holds(s, row),
           UNCHANGED <<row, tx, lock, token, gateway, minted, raced>>,
           pc[s] \notin {"gateway", "commit"}, p \notin {"gateway", "commit"},
           s \in Reconcilers \/ (pc[s] \in {"refresh", "begin"} <=> p \in {"refresh", "begin"})
    PROVE  TokenInv'
  <1>1. lock # s
    BY DEF TypeInv, TypeOK
  <1>2. pc'[s] = p /\ \A q \in Sessions \ {s} : pc'[q] = pc[q]
    BY DEF Goto, TypeInv, TypeOK
  <1>3. \A q \in Sessions : \/ orm'[q] = row /\ base'[q] = row
                            \/ orm'[q] = orm[q] /\ base'[q] = base[q]
    BY DEF Holds, TypeInv, TypeOK
  <1>4. \A q \in Sessions : orm'[q].token = base'[q].token /\ base'[q].token \in {base[q].token, row.token}
    BY <1>3 DEF TokenInv, TokenCopies
  <1>5. HasToken(s)' <=> HasToken(s)
    BY <1>2 DEF HasToken
  <1> QED BY <1>1, <1>2, <1>4, <1>5, TokenQuiet

LEMMA TokenReconcile ==
    ASSUME TypeInv, TokenInv, NEW s \in Reconcilers, Reconcile(s)
    PROVE  TokenInv'
  <1>1. s \in Sessions /\ pc[s] = "idle" /\ UNCHANGED <<row, tx, lock, token, gateway, minted, raced>>
    BY DEF Reconcile, history, Sessions
  <1>2. \/ UNCHANGED <<pc, orm, base>>
        \/ Holds(s, row) /\ (Goto(s, "offline") \/ Goto(s, "begin"))
    BY DEF Reconcile
  <1>3. CASE UNCHANGED <<pc, orm, base>>
    BY <1>1, <1>3 DEF TokenInv, TokenCopies, TokensOld, TokenUnderLock, HeldIsCurrent, Arrives, Current, HasToken
  <1>4. CASE Holds(s, row) /\ Goto(s, "offline")
    BY <1>1, <1>4, TokenHolds
  <1>5. CASE Holds(s, row) /\ Goto(s, "begin")
    BY <1>1, <1>5, TokenHolds
  <1> QED BY <1>2, <1>3, <1>4, <1>5

(* No write of a session that mints nothing changes the hash. *)
LEMMA TokenWrites ==
    ASSUME TypeInv, TokenInv, NEW s \in Sessions, NEW p, Goto(s, p),
           UNCHANGED <<tx, lock, base, token, gateway, minted, raced>>,
           orm'[s].token = orm[s].token, \A q \in Sessions \ {s} : orm'[q] = orm[q],
           row'.token = row.token,
           pc[s] \notin {"refresh", "begin", "gateway", "commit"},
           p \notin {"refresh", "begin", "gateway", "commit"}
    PROVE  TokenInv'
  <1>1. lock # s
    BY DEF TypeInv, TypeOK
  <1>2. pc'[s] = p /\ \A q \in Sessions \ {s} : pc'[q] = pc[q]
    BY DEF Goto, TypeInv, TypeOK
  <1>3. HasToken(s)' <=> HasToken(s)
    BY <1>2 DEF HasToken
  <1>4. \A q \in Sessions : orm'[q].token = base'[q].token /\ base'[q].token \in {base[q].token, row.token}
    BY DEF TokenInv, TokenCopies
  <1> QED BY <1>1, <1>2, <1>3, <1>4, TokenQuiet

LEMMA TokenOffline ==
    ASSUME TypeInv, TokenInv, NEW s \in Reconcilers, MarkOffline(s)
    PROVE  TokenInv'
  <1> DEFINE offline == [orm[s] EXCEPT !.status = "offline", !.deadline = Never, !.error = TRUE]
  <1>1. /\ s \in Sessions /\ row \in Rows /\ orm[s] \in Rows /\ base[s] \in Rows
        /\ row' = Merge(row, base[s], offline)
    BY DEF Sessions, TypeInv, TypeOK, MarkOffline
  <1>2. offline \in Rows /\ offline.token = orm[s].token
    BY <1>1 DEF Rows, Statuses, Never
  <1> HIDE DEF offline
  <1>3. row'.token = row.token
    BY <1>1, <1>2, MergeToken DEF TokenInv, TokenCopies
  <1> QED BY <1>1, <1>3, TokenWrites DEF MarkOffline, history

LEMMA TokenPresent ==
    ASSUME TypeInv, TokenInv, NEW s \in Sessions, Present(s)
    PROVE  TokenInv'
  <1>1. orm \in [Sessions -> Rows]
    BY DEF TypeInv, TypeOK
  <1>2. \A r \in Rows : /\ Touched(r) \in Rows /\ Touched(r).token = r.token
                        /\ \A status : CheckIn(r, status).token = r.token
    <2>1. clock' \in Nat
      BY DEF Present, TypeInv, TypeOK
    <2> QED BY <2>1 DEF Touched, CheckIn, Rows, Statuses, Never
  <1>3. pc[s] \in {"touch", "checkin", "assign"} /\ \E r \in Rows : r.token = orm[s].token /\
          \/ orm' = [orm EXCEPT ![s] = Touched(r)]
          \/ \E status : orm' = [orm EXCEPT ![s] = CheckIn(r, status)]
    BY <1>1, <1>2 DEF Present
  <1>4. orm'[s].token = orm[s].token /\ \A q \in Sessions \ {s} : orm'[q] = orm[q]
    BY <1>1, <1>2, <1>3
  <1>5. \E p \in {"commit-touch", "commit-beat"} : Goto(s, p)
    BY DEF Present
  <1> QED BY <1>3, <1>4, <1>5, TokenWrites DEF Present, history

LEMMA TokenPresenceCommit ==
    ASSUME TypeInv, TokenInv, NEW s \in Sessions, PresenceCommit(s)
    PROVE  TokenInv'
  <1>1. row'.token = row.token
    BY MergeToken DEF PresenceCommit, TypeInv, TypeOK, TokenInv, TokenCopies
  <1> QED BY <1>1, TokenWrites DEF PresenceCommit

LEMMA TokenNext == TypeInv /\ TypeInv' /\ TokenInv /\ [Next]_vars => TokenInv'
  <1> SUFFICES ASSUME TypeInv, TypeInv', TokenInv, [Next]_vars PROVE TokenInv'
    OBVIOUS
  <1>1. ASSUME NEW s \in Sessions, Run(s) PROVE TokenInv'
    <2>1. CASE RunEnqueue(s)
      BY <2>1, TokenHolds DEF RunEnqueue, history
    <2> QED BY <1>1, <2>1, TokenBegin, TokenApply, TokenCommit, TokenFail DEF Run
  <1>2. ASSUME NEW s \in Sessions, Request(s) PROVE TokenInv'
    <2>1. s \in Sessions \ Reconcilers
      BY <1>2, LifecycleAssumption DEF Request
    <2>2. CASE UpdateLoad(s) \/ SyncLoad(s) \/ Refresh(s)
      BY <2>2, TokenHolds DEF UpdateLoad, SyncLoad, Refresh, history
    <2> QED BY <1>1, <1>2, <2>1, <2>2, TokenRead, TokenMint DEF Request
  <1>3. ASSUME NEW s \in Sessions, Worker(s) PROVE TokenInv'
    BY <1>1, <1>3, TokenReconcile, TokenOffline DEF Worker
  <1>4. ASSUME NEW s \in Sessions, Presence(s) PROVE TokenInv'
    <2>1. CASE AgentCalls(s) \/ AssignTask(s)
      BY <2>1, TokenHolds DEF AgentCalls, AssignTask, history
    <2> QED BY <1>4, <2>1, TokenPresent, TokenPresenceCommit DEF Presence
  <1>5. CASE TimePasses \/ Redeliver \/ UNCHANGED vars
    BY <1>5 DEF TimePasses, Redeliver, vars, sessions, history, TokenInv, TokenCopies, TokensOld,
       TokenUnderLock, HeldIsCurrent, Arrives, Current, HasToken
  <1> QED BY <1>2, <1>3, <1>4, <1>5, TokenUndone DEF Next

(* Once nobody has a token on its way, the gateway has the token whose hash  *)
(* is on the row, unless tokens raced or a failure lost one, for any number  *)
(* of updates, syncs and reconcilers and in any interleaving of their steps  *)
(* with the row lock (provisioning_db.py:1633).                              *)
THEOREM TokensAgree == Spec => []LockedOutOnlyByRace
  <1>1. Init => TypeInv /\ TokenInv
    BY TypeInit, TokenInit
  <1>2. TypeInv /\ TokenInv /\ [Next]_vars => (TypeInv /\ TokenInv)'
    BY TypeNext, TokenNext
  <1>3. TypeInv /\ TokenInv => LockedOutOnlyByRace
    <2> SUFFICES ASSUME TypeInv, TokenInv, \A s \in Sessions : ~HasToken(s), ~raced
                 PROVE  gateway = row.token
      BY DEF LockedOutOnlyByRace
    <2>1. gateway = Current
      BY DEF TokenInv, Arrives
    <2>2. lock \notin Reconcilers
      <3> SUFFICES ASSUME lock \in Reconcilers PROVE FALSE
        OBVIOUS
      <3>1. lock \in Sessions /\ pc[lock] \in {"gateway", "commit"}
        BY DEF TypeInv, TypeOK, Sessions
      <3> QED BY <3>1 DEF HasToken
    <2> QED BY <2>1, <2>2 DEF Current
  <1> QED BY <1>1, <1>2, <1>3, PTL DEF Spec
================================================================================
