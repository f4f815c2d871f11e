---------------------------- MODULE AgentLifecycle ----------------------------
(***************************************************************************)
(* How Mission Control brings one gateway agent to a healthy state         *)
(* (app/services/openclaw): an update mints a token, pushes it to the      *)
(* gateway and wakes the agent; the agent must check in by a deadline; a   *)
(* reconcile job repeats the wake when it does not, and marks the agent    *)
(* offline after MaxWakeAttempts. The agents row is shared by             *)
(* API requests, check-ins and the queue worker, each a database session   *)
(* with its own loaded copy of the row.                                    *)
(*                                                                         *)
(* Database: PostgreSQL READ COMMITTED under SQLAlchemy sessions with      *)
(* expire_on_commit=False. A session's copy of the row is refreshed by     *)
(* refresh() alone: SELECT ... FOR UPDATE waits for the row lock but       *)
(* returns the copy already loaded. A flush writes the columns whose value *)
(* differs from the one loaded.                                            *)
(*                                                                         *)
(* Time: `clock' numbers the timestamps taken, so that no two are equal;   *)
(* `passed' is the latest timestamp whose 30 s deadline is over.           *)
(***************************************************************************)
EXTENDS Integers, FiniteSets

CONSTANTS
    Reconcilers,      \* queue workers running process_lifecycle_queue_task
    Updaters,         \* API requests running update_agent
    Syncers,          \* API requests running sync_gateway_templates
    Beats,            \* requests that record the agent's presence
    NoSession,        \* the row lock is free
    NoJob,            \* a reconciler that holds no job
    MaxWakeAttempts,  \* MAX_WAKE_ATTEMPTS_WITHOUT_CHECKIN
    MaxRetries,       \* settings.rq_dispatch_max_retries
    MaxUpdates, MaxSyncs, MaxBeats,  \* bounds: requests of each kind
    MaxGatewayErrors, \* bound: gateway calls that fail
    MaxTimeouts,      \* bound: reconcile runs cancelled after 60 s
    MaxFaults         \* bound: crashes, refused enqueues, redelivered jobs

Sessions == Reconcilers \cup Updaters \cup Syncers \cup Beats

ASSUME LifecycleAssumption ==
    /\ Reconcilers \cap (Updaters \cup Syncers \cup Beats) = {}
    /\ Updaters \cap (Syncers \cup Beats) = {} /\ Syncers \cap Beats = {}
    /\ NoSession \notin Sessions
    /\ MaxWakeAttempts \in Nat \ {0} /\ MaxRetries \in Nat
    /\ {MaxUpdates, MaxSyncs, MaxBeats, MaxGatewayErrors, MaxTimeouts, MaxFaults}
         \subseteq Nat

VARIABLES
    row,       \* the committed agents row
    tx,        \* the row as the holder of its lock sees it, flushed but not committed
    lock,      \* the session whose transaction holds the row lock
    orm, base, \* per session: its copy of the row, and the values last loaded or flushed
    pc,        \* per session: where it is
    token,     \* per session: the raw token it will push to the gateway
    job,       \* per reconciler: the job it works on
    queue,     \* reconcile jobs in Redis, delayed or ready
    gateway,   \* the token in the agent's workspace on the gateway
    clock, passed,
    minted,    \* tokens minted so far
    budget,    \* what is left of each bound
    woken,     \* history: wakes sent by reconcilers since the last check-in or request
    undone,    \* history: of these, the ones whose run was rolled back afterwards
    reran,     \* history: generations reconciled since the last request
    heard,     \* history: the latest last_seen_at ever committed
    raced      \* history: a token was overtaken by another or lost in a failure

sessions == <<orm, base, pc, token, job>>
history  == <<woken, undone, reran, heard, raced>>
vars == <<row, tx, lock, sessions, queue, gateway, clock, passed, minted,
          budget, history>>

Statuses == {"provisioning", "updating", "online", "offline"}
Never == 0   \* a NULL timestamp

Rows == [status : Statuses, generation : Nat, wakes : Nat, seen : Nat,
         wake : Nat, deadline : Nat, token : Nat, error : BOOLEAN]

Jobs == [generation : Nat, deadline : Nat, at : Nat, attempts : 0..MaxRetries]

ASSUME NoJobAssumption == NoJob \notin Jobs

PCs == {"idle", "tools", "mint", "refresh", "begin", "gateway", "commit", "enqueue",
        "offline", "checkin", "touch", "assign", "commit-touch", "commit-beat"}

TypeOK ==
    /\ row \in Rows /\ tx \in Rows
    /\ lock \in Sessions \cup {NoSession}
    /\ orm \in [Sessions -> Rows] /\ base \in [Sessions -> Rows]
    /\ pc \in [Sessions -> PCs]
    /\ token \in [Sessions -> Nat]
    /\ job \in [Reconcilers -> Jobs \cup {NoJob}]
    /\ queue \subseteq Jobs
    /\ gateway \in Nat /\ minted \in Nat
    /\ budget \in [{"updates", "syncs", "beats", "errors", "timeouts", "faults"} -> Nat]
    /\ clock \in Nat /\ passed \in 0..clock
    /\ \A s \in Sessions : pc[s] \in {"gateway", "commit"} <=> lock = s
    /\ woken \in Nat /\ undone \in Nat /\ reran \subseteq Nat /\ heard \in Nat /\ raced \in BOOLEAN

(* An agent that is up, provisioned once and not yet asked to check in. *)
InitialRow ==
    [status |-> "online", generation |-> 0, wakes |-> 0, seen |-> Never,
     wake |-> Never, deadline |-> Never, token |-> 0, error |-> FALSE]

Init ==
    /\ row = InitialRow /\ tx = InitialRow
    /\ lock = NoSession
    /\ orm = [s \in Sessions |-> InitialRow] /\ base = orm
    /\ pc = [s \in Sessions |-> "idle"]
    /\ token = [s \in Sessions |-> 0]
    /\ job = [s \in Reconcilers |-> NoJob]
    /\ queue = {}
    /\ gateway = 0 /\ minted = 0
    /\ clock = 0 /\ passed = 0
    /\ budget = [updates |-> MaxUpdates, syncs |-> MaxSyncs, beats |-> MaxBeats,
                 errors |-> MaxGatewayErrors, timeouts |-> MaxTimeouts,
                 faults |-> MaxFaults]
    /\ woken = 0 /\ undone = 0 /\ reran = {} /\ heard = Never /\ raced = FALSE

-----------------------------------------------------------------------------
(* Sessions and the row *)

(* UPDATE of the columns that differ from the values loaded *)
Merge(r, from, to) ==
    [c \in DOMAIN r |-> IF to[c] # from[c] THEN to[c] ELSE r[c]]

Spend(what) == budget[what] > 0 /\ budget' = [budget EXCEPT ![what] = @ - 1]

Goto(s, where) == pc' = [pc EXCEPT ![s] = where]

Holds(s, r) == orm' = [orm EXCEPT ![s] = r] /\ base' = [base EXCEPT ![s] = r]

(* Mutant: SELECT without FOR UPDATE *)
NotLocked == TRUE

(* An UPDATE waits for the transaction that locked the row. *)
Unlocked == lock = NoSession

(* Does this session's run of the lifecycle wake the agent? *)
Wakes(s) == s \notin Syncers

(* history: a run is committed, successful or not; a failed one may have   *)
(* sent a wake that is not counted yet. A request starts the cycle anew.   *)
CountRun(s, sent) ==
    /\ woken' = IF s \in Updaters THEN 0
                ELSE IF s \in Reconcilers THEN woken + sent ELSE woken
    /\ undone' = IF s \in Updaters THEN 0 ELSE undone
    /\ reran' = IF s \in Reconcilers THEN reran \cup {job[s].generation} ELSE {}
    /\ UNCHANGED heard

(* From when a session mints or reads a token until the token is on the    *)
(* gateway and its hash on the row                                         *)
HasToken(s) == pc[s] \in IF s \in Reconcilers THEN {"gateway", "commit"}
                         ELSE {"refresh", "begin", "gateway"}

(* history: what happens to a token on its way *)
RacesIf(b) == raced' = (raced \/ b) /\ UNCHANGED <<woken, undone, reran, heard>>

(* history: the run of a session is rolled back. *)
RolledBack(s) ==
    /\ undone' = IF s \in Reconcilers /\ pc[s] = "commit" THEN undone + 1 ELSE undone
    /\ raced' = (raced \/ HasToken(s))
    /\ UNCHANGED <<woken, reran, heard>>

TimePasses ==
    /\ passed < clock
    /\ passed' = passed + 1
    /\ UNCHANGED <<row, tx, lock, sessions, queue, gateway, clock, minted,
                   budget, history>>

-----------------------------------------------------------------------------
(* update_agent: load the row, then mint a token and commit it before the  *)
(* lifecycle takes the row lock.                                           *)
UpdateLoad(s) ==
    /\ pc[s] = "idle"
    /\ Spend("updates")
    /\ Holds(s, row)
    /\ Goto(s, "mint")
    /\ UNCHANGED <<row, tx, lock, token, job, queue, gateway, clock, passed,
                   minted, history>>

(* sync_gateway_templates loads the agents of the gateway. *)
SyncLoad(s) ==
    /\ pc[s] = "idle"
    /\ Spend("syncs")
    /\ Holds(s, row)
    /\ Goto(s, "tools")
    /\ UNCHANGED <<row, tx, lock, token, job, queue, gateway, clock, passed,
                   minted, history>>

(* _resolve_agent_auth_token: use the token found in TOOLS.md; with        *)
(* rotate_tokens, mint one when there is none or it does not match the     *)
(* hash loaded. The agent is skipped when TOOLS.md cannot be read.         *)
ReadTools(s) ==
    /\ pc[s] = "tools"
    /\ token' = [token EXCEPT ![s] = gateway]
    /\ \/ /\ Goto(s, "begin")
          /\ RacesIf(\E q \in Sessions \ {s} : HasToken(q) /\ token[q] # gateway)
       \/ (Goto(s, "mint") \/ Goto(s, "idle")) /\ UNCHANGED history
    /\ UNCHANGED <<row, tx, lock, orm, base, job, queue, gateway, clock,
                   passed, minted, budget>>

(* Mutant: the new hash is not committed, and the refresh drops it. *)
HashDropped(s) == row

HashStored(s) == Merge(row, base[s], [orm[s] EXCEPT !.token = minted'])

(* mark_agent_update_pending and _rotate_agent_token, committed *)
MintToken(s) ==
    /\ pc[s] = "mint" /\ Unlocked
    /\ minted' = minted + 1
    /\ token' = [token EXCEPT ![s] = minted']
    /\ row' = HashStored(s)
    /\ Goto(s, "refresh")
    /\ RacesIf(\E q \in Sessions \ {s} : HasToken(q))
    /\ UNCHANGED <<tx, lock, orm, base, job, queue, gateway, clock, passed, budget>>

Refresh(s) ==
    /\ pc[s] = "refresh"
    /\ Holds(s, row)
    /\ Goto(s, "begin")
    /\ UNCHANGED <<row, tx, lock, token, job, queue, gateway, clock, passed,
                   minted, budget, history>>

-----------------------------------------------------------------------------
(* AgentLifecycleOrchestrator.run_lifecycle *)

(* Lock the row, mark the request and flush it. A reconcile passes no      *)
(* token, so one is minted under the lock.                                 *)
RunBegin(s) ==
    /\ pc[s] = "begin" /\ Unlocked
    /\ lock' = s
    /\ clock' = clock + 1
    /\ IF s \in Reconcilers
       THEN minted' = minted + 1 /\ token' = [token EXCEPT ![s] = minted']
       ELSE UNCHANGED <<minted, token>>
    /\ LET requested ==
             [orm[s] EXCEPT
                !.token = IF s \in Reconcilers THEN minted' ELSE @,
                !.status = "updating",
                !.generation = @ + 1,
                !.error = FALSE,
                !.deadline = IF Wakes(s) THEN clock' ELSE Never,
                !.wakes = IF Wakes(s) THEN @ + 1 ELSE @,
                !.wake = IF Wakes(s) THEN clock' ELSE @]
       IN  /\ tx' = Merge(row, base[s], requested)
           /\ Holds(s, requested)
    /\ Goto(s, "gateway")
    /\ RacesIf(s \in Reconcilers /\ \E q \in Sessions \ {s} : HasToken(q))
    /\ UNCHANGED <<row, job, queue, gateway, passed, budget>>

(* apply_agent_lifecycle wrote the workspace files and sent the wake-up. *)
RunApply(s) ==
    /\ pc[s] = "gateway"
    /\ gateway' = token[s]
    /\ woken' = IF s \in Reconcilers THEN woken + 1 ELSE woken
    /\ Goto(s, "commit")
    /\ UNCHANGED <<row, tx, lock, orm, base, token, job, queue, clock, passed,
                   minted, budget, undone, reran, heard, raced>>

(* mark_provision_complete, a new deadline, and the commit *)
RunCommit(s) ==
    /\ pc[s] = "commit"
    /\ lock' = NoSession
    /\ clock' = IF Wakes(s) THEN clock + 1 ELSE clock
    /\ row' = Merge(tx, base[s],
                    [orm[s] EXCEPT !.status = "online", !.error = FALSE,
                       !.deadline = IF Wakes(s) THEN clock' ELSE Never])
    /\ CountRun(s, 0)
    /\ Goto(s, "enqueue")
    /\ UNCHANGED <<tx, orm, base, token, job, queue, gateway, passed, minted,
                   budget, raced>>

(* session.refresh and enqueue_lifecycle_reconcile, whose result nobody    *)
(* looks at: when Redis refuses the job there is none.                     *)
RunEnqueue(s) ==
    /\ pc[s] = "enqueue"
    /\ Holds(s, row)
    /\ IF Wakes(s) /\ row.deadline # Never
       THEN \/ /\ queue' = queue \cup
                     {[generation |-> row.generation, deadline |-> row.deadline,
                       at |-> row.deadline, attempts |-> 0]}
               /\ UNCHANGED budget
            \/ Spend("faults") /\ UNCHANGED queue
       ELSE UNCHANGED <<queue, budget>>
    /\ Goto(s, "idle")
    /\ job' = [r \in Reconcilers |-> IF r = s THEN NoJob ELSE job[r]]
    /\ UNCHANGED <<row, tx, lock, token, gateway, clock, passed, minted, history>>

(* requeue_lifecycle_queue_task: the same payload, one more attempt, after *)
(* a delay nothing here depends on; dropped after MaxRetries.              *)
Retry(s) ==
    /\ queue' = IF job[s].attempts + 1 > MaxRetries THEN queue
                ELSE queue \cup {[job[s] EXCEPT !.attempts = @ + 1, !.at = Never]}
    /\ job' = [job EXCEPT ![s] = NoJob]
    /\ Goto(s, "idle")

(* The gateway call fails, before or after the token reached the           *)
(* workspace and the wake the agent. The error is committed with the request that was flushed and *)
(* the caller gets an exception: the worker requeues its job, the template *)
(* sync may call run_lifecycle again, an update request ends with 502.     *)
RunFail(s) ==
    /\ pc[s] = "gateway"
    /\ Spend("errors")
    /\ \E sent \in 0..1 :
         /\ gateway' \in IF sent = 1 THEN {token[s]} ELSE {gateway, token[s]}
         /\ CountRun(s, sent)
    /\ row' = Merge(tx, base[s], [orm[s] EXCEPT !.error = TRUE])
    /\ lock' = NoSession
    /\ Holds(s, row')
    /\ IF s \in Reconcilers
       THEN Retry(s)
       ELSE /\ \/ Goto(s, "idle")
               \/ s \in Syncers /\ Goto(s, "begin")
            /\ UNCHANGED <<job, queue>>
    /\ raced' = TRUE
    /\ UNCHANGED <<tx, token, clock, passed, minted>>

(* asyncio.wait_for cancels a reconcile run that waits for the row lock,   *)
(* for the gateway, for the commit or for the refresh after it. Its        *)
(* transaction, if any, is rolled back, whatever the gateway has done by   *)
(* then, and the worker requeues its job.                                  *)
RunTimeout(s) ==
    /\ s \in Reconcilers /\ pc[s] \in {"begin", "gateway", "commit", "enqueue"}
    /\ Spend("timeouts")
    /\ gateway' \in IF pc[s] = "gateway" THEN {gateway, token[s]} ELSE {gateway}
    /\ lock' = IF lock = s THEN NoSession ELSE lock
    /\ Retry(s)
    /\ RolledBack(s)
    /\ UNCHANGED <<row, tx, orm, base, token, clock, passed, minted>>

-----------------------------------------------------------------------------
(* process_lifecycle_queue_task *)

CheckedIn(r) == r.seen # Never /\ (r.wake = Never \/ r.seen >= r.wake)

(* Mutants: the wrong comparison of generations *)
OlderOnly(j) == row.generation < j.generation
StaleOrCurrent(j) == row.generation >= j.generation

Stale(j) == row.generation # j.generation

(* Mutant: the limit is not checked. *)
NoLimit == FALSE

WakesUsedUp == row.wakes >= MaxWakeAttempts

(* defer_lifecycle_reconcile *)
Postponed(j, deadline) == queue' = (queue \ {j}) \cup {[j EXCEPT !.at = deadline]}

(* Take a job that is due, load the agent and decide what to do with it.   *)
Reconcile(s) ==
    /\ pc[s] = "idle"
    /\ \E j \in queue :
        /\ j.at <= passed
        /\ LET deadline == IF row.deadline # Never THEN row.deadline ELSE j.deadline
               waiting  == ~Stale(j) /\ ~CheckedIn(row)
           IN
           \/ /\ ~waiting
              /\ queue' = queue \ {j}
              /\ UNCHANGED <<pc, job, orm, base>>
           \/ /\ waiting /\ deadline > passed
              /\ Postponed(j, deadline)
              /\ UNCHANGED <<pc, job, orm, base>>
           \/ /\ waiting /\ deadline <= passed
              /\ Goto(s, IF WakesUsedUp THEN "offline" ELSE "begin")
              /\ job' = [job EXCEPT ![s] = j]
              /\ Holds(s, row)
              /\ queue' = queue \ {j}
    /\ UNCHANGED <<row, tx, lock, token, gateway, clock, passed, minted, budget,
                   history>>

(* The wake attempts are used up: the agent is marked offline. *)
MarkOffline(s) ==
    /\ pc[s] = "offline" /\ Unlocked
    /\ row' = Merge(row, base[s], [orm[s] EXCEPT !.status = "offline",
                                     !.deadline = Never, !.error = TRUE])
    /\ job' = [job EXCEPT ![s] = NoJob]
    /\ Goto(s, "idle")
    /\ UNCHANGED <<tx, lock, orm, base, token, queue, gateway, clock, passed,
                   minted, budget, history>>

(* Redis hands the same job out twice: a drain was cut short. *)
Redeliver ==
    /\ Spend("faults")
    /\ \E s \in Reconcilers :
         job[s] # NoJob /\ queue' = queue \cup {[job[s] EXCEPT !.at = Never]}
    /\ UNCHANGED <<row, tx, lock, sessions, gateway, clock, passed, minted, history>>

(* A process dies: its transaction is rolled back and its job is gone. *)
Crash(s) ==
    /\ pc[s] # "idle"
    /\ Spend("faults")
    /\ lock' = IF lock = s THEN NoSession ELSE lock
    /\ job' = [r \in Reconcilers |-> IF r = s THEN NoJob ELSE job[r]]
    /\ Goto(s, "idle")
    /\ RolledBack(s)
    /\ UNCHANGED <<row, tx, orm, base, token, queue, gateway, clock, passed, minted>>

-----------------------------------------------------------------------------
(* Presence *)

(* The agent calls the API with the token of its workspace: a heartbeat, or *)
(* any other request. _find_agent_for_token loads the row.                  *)
AgentCalls(s) ==
    /\ pc[s] = "idle"
    /\ gateway = row.token
    /\ Spend("beats")
    /\ Holds(s, row)
    /\ \E what \in {"checkin", "touch"} : Goto(s, what)
    /\ UNCHANGED <<row, tx, lock, token, job, queue, gateway, clock, passed,
                   minted, history>>

(* _wake_agent_online_for_task: assigning a task records a check-in for    *)
(* the assignee.                                                           *)
AssignTask(s) ==
    /\ pc[s] = "idle"
    /\ Spend("beats")
    /\ Holds(s, row)
    /\ Goto(s, "assign")
    /\ UNCHANGED <<row, tx, lock, token, job, queue, gateway, clock, passed,
                   minted, history>>

Touched(r) == [r EXCEPT !.seen = clock',
                 !.status = IF @ = "updating" THEN @ ELSE "online"]

CheckIn(r, status) == [r EXCEPT !.seen = clock', !.wakes = 0, !.deadline = Never,
                         !.error = FALSE, !.status = status]

(* A heartbeat may carry a status of the agent's own, any string.          *)
SentStatuses(r) ==
    {IF r.status = "provisioning" THEN "online" ELSE r.status, "online", "offline"}

(* _touch_agent_presence, at most once per interval, and commit_heartbeat  *)
(* change the session's copy of the row.                                   *)
Present(s) ==
    /\ clock' = clock + 1
    /\ \/ pc[s] = "touch" /\ orm' = [orm EXCEPT ![s] = Touched(@)]
       \/ pc[s] = "checkin"
          /\ \E r \in {orm[s], Touched(orm[s])} :
               \E status \in SentStatuses(r) : orm' = [orm EXCEPT ![s] = CheckIn(r, status)]
       \/ pc[s] = "assign" /\ orm' = [orm EXCEPT ![s] = CheckIn(@, "online")]
    /\ Goto(s, IF pc[s] = "touch" THEN "commit-touch" ELSE "commit-beat")
    /\ UNCHANGED <<row, tx, lock, base, token, job, queue, gateway, passed,
                   minted, budget, history>>

PresenceCommit(s) ==
    /\ pc[s] \in {"commit-touch", "commit-beat"} /\ Unlocked
    /\ row' = Merge(row, base[s], orm[s])
    /\ Goto(s, "idle")
    /\ IF pc[s] = "commit-beat"
       THEN woken' = 0 /\ undone' = 0
       ELSE UNCHANGED <<woken, undone>>
    /\ heard' = IF orm[s].seen > heard THEN orm[s].seen ELSE heard
    /\ UNCHANGED <<tx, lock, orm, base, token, job, queue, gateway, clock,
                   passed, minted, budget, reran, raced>>

-----------------------------------------------------------------------------
Run(s) == RunBegin(s) \/ RunApply(s) \/ RunCommit(s) \/ RunEnqueue(s) \/ RunFail(s)

Request(s) ==
    \/ s \in Updaters /\ (UpdateLoad(s) \/ MintToken(s) \/ Refresh(s) \/ Run(s))
    \/ s \in Syncers /\ (SyncLoad(s) \/ ReadTools(s) \/ MintToken(s) \/ Refresh(s) \/ Run(s))

Worker(s) == s \in Reconcilers /\ (Reconcile(s) \/ MarkOffline(s) \/ Run(s))

Presence(s) ==
    s \in Beats /\ (AgentCalls(s) \/ AssignTask(s) \/ Present(s) \/ PresenceCommit(s))

Next ==
    \/ TimePasses
    \/ Redeliver
    \/ \E s \in Sessions :
        Request(s) \/ Worker(s) \/ Presence(s) \/ RunTimeout(s) \/ Crash(s)

Spec == Init /\ [][Next]_vars

(* Sessions run to their end, the worker never stops taking jobs, deadlines *)
(* pass. Requests and check-ins are not obliged to happen.                  *)
Fairness ==
    /\ WF_vars(TimePasses)
    /\ \A s \in Reconcilers : WF_vars(Worker(s))
    /\ \A s \in Sessions : WF_vars(pc[s] # "idle" /\ (Request(s) \/ Presence(s)))

FairSpec == Spec /\ Fairness

-----------------------------------------------------------------------------
(* Properties *)

(* The row says that a wake is waiting for an answer and the agent has not *)
(* answered it. (A check-in that took its time before the wake and commits *)
(* after the answer puts last_seen_at back: the answer still counts.)      *)
Awaiting == row.deadline # Never /\ ~CheckedIn([row EXCEPT !.seen = heard])

Covered ==
    \/ \E j \in queue : j.generation = row.generation
    \/ \E s \in Reconcilers : job[s] # NoJob /\ job[s].generation = row.generation
    \/ \E s \in Sessions : Wakes(s) /\ pc[s] \in {"gateway", "commit", "enqueue"}

(* While no call fails and no template is synchronised, an unanswered wake *)
(* always has a reconcile job of the row's generation behind it, or a      *)
(* session that is about to enqueue one, however updates, reconcile runs   *)
(* and check-ins interleave and whichever of their writes is lost.         *)
WaitIsCovered == Awaiting => Covered

(* Between two requests or check-ins the reconcile job wakes the agent at  *)
(* most MaxWakeAttempts times, whatever updates of wake_attempts are lost  *)
(* to stale copies of the row, gateway errors and redelivered jobs; only a *)
(* run that is cancelled or dies after the agent was woken, and before its *)
(* commit, comes on top (lifecycle_orchestrator.py:98, rolled back).       *)
AutoWakesBounded == woken <= MaxWakeAttempts + undone

(* With one worker a job handed out twice is harmless: the first run,      *)
(* committed with or without an error, moves the generation on, so that    *)
(* until a request is committed no second run is committed for it. (A      *)
(* request's stale copy may set the generation back.)                      *)
GenerationRunsOnce ==
    [][\A s \in Reconcilers :
         lock = s /\ row' # row => job[s].generation \notin reran]_vars

(* The token of the agent's workspace is the one whose hash is on the row, *)
(* so that its calls are let in, once nobody has a token on its way,       *)
(* unless one was minted or read while another was, or a session failed    *)
(* with one: updates commit the hash before they wait for the row lock     *)
(* (provisioning_db.py:1633), reconcile runs under it.                     *)
LockedOutOnlyByRace ==
    (\A s \in Sessions : ~HasToken(s)) => gateway = row.token \/ raced

(* An agent that was woken and stays silent is eventually marked offline:  *)
(* the escalation neither stops early nor goes on forever.                 *)
SilentAgentGoesOffline ==
    (row.wake # Never /\ ~CheckedIn(row)) ~> (CheckedIn(row) \/ row.status = "offline")
=============================================================================
