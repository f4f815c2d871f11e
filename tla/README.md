# Mission Control in TLA+

This directory is a verification development of the backend under `src/backend`
and of the pages of `src/frontend` that keep state of their own: TLA+ modules
translated from the code, TLC configurations that model-check them on small
instances, and theorems that TLAPS proves for every value of the constants.

Run everything in this directory:

    tlc -workers 2 -config MCTaskQueueRaces.cfg MCTaskQueue     # model-check
    tlapm TaskQueueProofs.tla                                    # check proofs

`PROJECT.json` lists the runs, the mutants that show each property can fail,
which lines of the code each definition models, the findings, the hazards and
the theorems.

## 1. The system

Mission Control is a FastAPI backend over PostgreSQL, with a Redis-backed job
queue and worker process and a React frontend, that manages boards, tasks and the
AI agents that work on them. Agents run on an external *gateway* and call the API back over HTTP
with a token the backend wrote into their workspace. The state that several
actors share lives in the database rows, in Redis and on the gateway; everything
hard about the system comes from how requests, the worker and the agents
interleave on it.

| Component | Code (under `src/backend/app`) | State | Operations | Hard behaviour | Correct means |
|---|---|---|---|---|---|
| Task queue and worker | `services/queue.py`, `services/queue_worker.py` | Redis list, Redis sorted set, what each worker holds | enqueue, delayed enqueue, drain, pop, handle, retry, defer, give up | the drain takes three Redis commands; workers crash; Redis fails | no accepted job disappears; retries are counted; scheduled jobs run |
| Agent lifecycle and check-in | `services/openclaw/lifecycle_orchestrator.py`, `lifecycle_reconcile.py`, `lifecycle_queue.py`, `provisioning_db.py`, `db_agent_state.py`, `api/agent.py` | the `agents` row, sessions' copies of it, reconcile jobs, the gateway's workspace token | update, template sync, reconcile, check-in, presence touch, task assignment | stale copies across a row lock, failed or cancelled gateway calls, duplicate jobs, deadlines | a silent agent is woken at most a fixed number of times and ends up offline; the token works |
| Approvals | `api/approvals.py`, `services/approval_task_links.py`, `models/approvals.py` | approvals, their task links, task row locks | create, reopen, approve/reject, notify the lead | check-then-insert without a constraint; locks over several rows | one pending approval per task; every outcome reported; deadlocks only where the code takes locks out of order |
| Caio decisions | `api/caio.py`, `models/caio_decisions.py` | one row per Think Loop event | verdict, start report, completion report | two deciders and two channels at once; retries | the first verdict stands; nobody is told otherwise; stamps only on approved events |
| Task rules | `api/tasks.py`, `models/tasks.py` | tasks, dependencies | create, update status, assign, review hand-over, delete | gates read approvals and dependencies without locks; two commits per change | no closed gate is passed; dependents follow |
| Task dependencies | `services/task_dependencies.py` | dependency edges of a board | replace a task's edges, validate | cycle check without a lock | the graph stays acyclic |
| Inbound webhooks | `services/webhooks/*.py`, `api/board_webhooks.py` | payload rows, queue jobs | ingest, enqueue, deliver, fall back to delivery in the request | an enqueue result nobody reads | every stored payload is delivered or reported |
| Organizations | `services/organizations.py`, `api/organizations.py` | organizations, members, invites | first sign-in, invite, accept, change role, remove | checks without locks | an owner remains; an invite is used once |
| Event streams | `api/approvals.py`, `api/activity.py`, `api/board_memory.py`, `api/agents.py` | the last timestamp seen | poll, emit | rows stamped early and committed late | every row is emitted |
| Rate limiting | `core/rate_limit.py`, `core/rate_limit_backend.py` | attempts per key | allow | window boundary, two implementations | no more than the limit per window |
| Gateway retry and RPC | `services/openclaw/internal/retry.py`, `gateway_rpc.py`, `gateway_dispatch.py` | attempt, elapsed time | call, retry | timeouts | ends within the total time |
| Agent creation and deletion | `services/openclaw/provisioning_db.py` | agents rows, gateway agents | create, spawn, delete | limits and unique names checked without locks | limits hold |
| Board onboarding | `api/board_onboarding.py`, `services/openclaw/onboarding_service.py` | one session per board | start, answer, agent update, confirm | agent and user write the same session | confirmed once |
| Coordination | `services/openclaw/coordination_service.py` | little of its own | nudge, ask, forward | gateway I/O | - |
| Board life cycle | `services/board_lifecycle.py`, `api/boards.py` | rows of a board, gateway agents | delete | a gateway failure in the middle | no orphan rows |
| Authentication | `core/auth.py`, `core/cf_access.py`, `core/worker_auth.py` | none | verify | cryptography, I/O | - |
| Memory, tags, custom fields, skills, metrics, groups | `api/*.py` | independent rows | create, read, update, delete | no protocol | - |
| Database access | `db/*.py` | sessions | get, save, query | it is the semantics assumed below | - |
| Board page | `src/frontend/src/app/boards/[boardId]/page.tsx` | the list of tasks, the stream's cursor, optimistic moves | load, connect, receive, move, save, create, delete | stream events, answers and rollbacks in any order; lost connections | the list comes to show the rows |
| Caio page | `src/frontend/src/app/caio/page.tsx`, `services/caio_bridge.py` | the items shown, verdicts under way | load, verdict, pairing of proposals and policy decisions | overlapping loads and answers; pairing by time | cards are true; every proposal on one card; Pedro is asked |
| Onboarding dialog | `src/frontend/src/components/BoardOnboardingChat.tsx` | the session shown, the message waited for | start, poll, answer, confirm | polls, answers and agent messages cross | shows the latest question, does not wait for good |
| Other pages, generated clients | `src/frontend/src` | one query each | render | - | - |

How they interact: API requests call the services and write rows; webhooks and
the lifecycle enqueue jobs into the task queue, whose worker dispatches on
`task_type` to the reconcile and delivery handlers; those lock rows and call the
gateway; agents on the gateway call the API, which records their presence on the
row the reconcile handler reads. Task status changes consult approvals, and
approvals lock task rows. The pages in the browser call the same endpoints, follow
the event streams or poll, and change what they show before the answer comes.

## 2. Modules

| Module | Models | Checked by |
|---|---|---|
| `TaskQueue` | the queue and its workers | `MCTaskQueue`, proved in `TaskQueueProofs` |
| `AgentLifecycle` | one agent's row, sessions, reconcile jobs, gateway token | `MCAgentLifecycle`, proved in `AgentLifecycleProofs` |
| `Approvals` | approvals, task row locks, lead notification | `MCApprovals`, proved in `ApprovalsProofs` |
| `DecisionLedger` | abstract: what the decision endpoints promise | implemented by `CaioDecisions` |
| `CaioDecisions` | the decision endpoints | `MCCaioDecisions`, proved in `CaioDecisionsProofs` |
| `CaioPage` | the Caio page's list before the ledger, over `DecisionLedger` | `MCCaioPage`, proved in `CaioPageProofs` |
| `CaioCards` | pairing and categories of its cards, as functions of the log | `MCCaioPage`, proved in `CaioPageProofs` |
| `TaskBoard` | tasks, dependencies, gates and overlapping requests | `MCTaskBoard`, proved in `TaskBoardProofs` |
| `TaskFeed` | task rows, their activity events and the event stream | through `BoardPage` |
| `BoardPage` | the task list of the board page, composed with `TaskFeed` | `MCBoardPage`, proved in `BoardPageProofs` |
| `Onboarding` | onboarding sessions, the agent, and the dialog | `MCOnboarding`, proved in `OnboardingProofs` |

The three pages are composed with the part of the server they talk to: `BoardPage`
extends `TaskFeed`, `CaioPage` instantiates `DecisionLedger` (which `CaioDecisions` is shown
to implement), `Onboarding` holds both sides.

Definitions marked "Mutant" in a module are not used by its specification; each
is a plausible bug, substituted for a definition to see that a property notices.

### Assumptions about the database

The modules share one reading of PostgreSQL at READ COMMITTED under SQLAlchemy
with `expire_on_commit=False`: a session keeps the copy of a row it loaded until
it refreshes it; `SELECT ... FOR UPDATE` waits for the row lock but hands back
the copy already loaded (no `populate_existing` is used); a flush writes the
columns whose value differs from the one loaded and no other; a commit releases
the locks. Conditions of the code are therefore evaluated on a session's copy,
and `Merge` in `AgentLifecycle` and the guard of `Save` in `Approvals` write only
what changed.

### TaskQueue

State: `list` (the Redis list, as a bag), `sched` and `due` (the sorted set and
its members whose score is past), per worker a program counter, the `batch` a
drain read and the envelope it has `held`. An envelope is identified by its JSON
text, that is by task, attempts and `created_at`; `defers` stands for
`created_at`, which a retry keeps and a deferral stamps anew. The order of the list
and the scores are abstracted: a pop may return any element.

Actions: `EnqueueTask`, `EnqueueWithDelay`, `EnqueueFails` (the call returns
False, the command may have been executed); `DrainRead`, `DrainPush`,
`DrainRemove` are the three commands of `_drain_ready_scheduled_tasks`; `Pop`,
`PopTimeout` the BRPOP of 5 s; `HandlerSucceeds`, `HandlerDefers`, `HandlerFails`,
`RequeueIfFailed` the worker loop; `DequeueError`, `PopReplyLost`, `DeferralFails`
(the deferral is executed but its reply lost: the job is deferred and also retried),
`RequeueError`, `WorkerCrash` what can break in between.

Properties: `NoSilentLoss` (an accepted job is settled or some copy of it exists);
`DrainCovered` (why: what a worker is about to remove from the sorted set has a
successor no removal can reach); `AttemptsCounted`, `DroppedOnlyWhenExhausted`
(duplicates do not use up the retries of a job); `NoRerun` (one worker, no fault:
no duplicates); `EventuallySettled`.

### AgentLifecycle

State: the committed `row`, `tx` (the row inside the transaction that holds the
row `lock`), per session its copy (`orm`) and the values last loaded or flushed
(`base`), its program counter and raw token; the reconcile `job`s and `queue`; the
`gateway`'s workspace token; `clock`, which numbers timestamps, and `passed`, the
latest timestamp whose 30 s deadline is over. `woken` (wakes sent since the last
check-in or request), `undone` (those whose run was rolled back), `reran`, `heard` (the
latest presence time committed) and `raced` (a token was minted or read while another was on
its way, or a session failed with one) are history variables.

Actions: `UpdateLoad`, `MintToken`, `Refresh` are `update_agent` up to the
lifecycle; `SyncLoad`, `ReadTools` the template sync; `RunBegin`, `RunApply`,
`RunCommit`, `RunEnqueue`, `RunFail`, `RunTimeout` are `run_lifecycle` with its
lock, flush, gateway call, commit, enqueue and error paths (a failed call may have woken the
agent; a cancelled run is rolled back while it waits for the lock, the gateway, the commit or the
refresh after it); `Reconcile`,
`MarkOffline` the queue handler; `AgentCalls`, `AssignTask`, `Present`,
`PresenceCommit` what records a check-in; `Redeliver` and `Crash` the faults the
queue and the processes have. An agent that checks in while its status is
`updating` stays `updating`, unless it sends a status of its own: that is what
`commit_heartbeat` does.

Properties: `WaitIsCovered` (an unanswered wake always has a job behind it as
long as no call fails and no template is synchronised), `AutoWakesBounded` (the wakes the
reconcile job really sends, those of failed, cancelled and crashed runs included, exceed the limit at
most by the runs that were rolled back after their wake),
`GenerationRunsOnce` (a redelivered or retried job does not repeat a committed
wake, as long as no request commits in between: a request with a stale copy may
set the generation back), `LockedOutOnlyByRace` (once no session has a token on its way, the
gateway has the token whose hash is on the row, unless it `raced`),
`SilentAgentGoesOffline`.

### Approvals

State: `status` and `links` of each approval, for each task row the transaction that
holds it `FOR UPDATE` (`owner`) and those that hold it `FOR KEY SHARE` (`sharers`), and
per request its approval, target status, the status it `loaded`, its tasks and those
`left` to be shared. Actions: `CreateApproval` and `UpdateApproval` start a request;
one that makes an approval pending is guarded: `LockTask` locks its tasks in the order of
their ids (`ORDER BY id ... FOR UPDATE`), `Check` looks for conflicts. A creation with a
resolved status is not: `ShareTask` is the foreign keys of the row and of its links
(`models/approvals.py:24`, `models/approval_task_links.py:31`), which take their locks in
the order of the request. `Insert` and `Save` commit; `Notify`
refreshes the row and tells the lead; `Abort` is PostgreSQL ending one transaction of a
deadlock (500). A crash between `Save` and `Notify` is left
out: the code treats the notification as best effort. Other transactions that lock task
rows (a task's own update or deletion) are outside the module.

Properties: `OnePendingPerTask`, `LeadToldOfOutcome` (once its requests are over,
the lead knows the outcome of every approval resolved by an update),
`OnlyUnsortedInsertsDeadlock` (a circle of requests that wait for the row locks of each
other goes through an insert that is not checked and lists its tasks out of order),
`RequestsEnd`.

### CaioDecisions and DecisionLedger

State: the `row` of each event and, per request, where it is and what it asks.
`Post`, `Insert`, `Resolve` are a verdict: insert, let `UNIQUE(event_id)` decide,
on a conflict roll back, read the winner and answer 200 or 409. `PostStart`,
`PostComplete`, `Stamp` are the reports of Caio's runtime, which check a copy of
the row and write one column unconditionally. `accepted` records the verdicts
that were answered with 200.

`DecisionLedger` is the abstract specification: an undecided event gets one
verdict, and stamps are set on approved events and never cleared. `AnswersAgree`
says that no two answers with 200 contradict each other or the row;
`ImplementsLedger` that the endpoints implement the ledger, under the mapping
"verdict = decision of the row; started, completed = the events whose column is
set". A stamp may move when two reports both find it empty: the mapping does not
distinguish the times.

### TaskBoard

State: `rows` (status and assignee of each task), `deps`, the approvals linked to
each task, and per request the row it loaded, the row it is to write, the
dependencies it deletes and inserts. A request goes through `Load`, `Check` and
`Save`; `Check` holds the rules for the four kinds of actors (`ByCreator`,
`ByAdmin`, `ByAgent`, `ByLead`), the gates (`Passes`) and the validation of dependencies
(`Valid`). `Save` is the commit; it writes only the columns that differ from those
loaded (`Written`), and the reset of the dependents of a reopened task is in it for
the lead, and in `ResetDependents`, a second transaction that a `Crash` may
prevent, for everybody else. `Delete` and `ChangeApprovals` go on meanwhile. `late`
records what others wrote since a request loaded its task.

Properties: `BlockedTasksWait` (a blocked task that is not done is in the inbox and
unassigned, but for the causes in `excused`: a late write of the task, or one that
reopens what it depends on without having seen it done, a crash, and a lead who gives a task
at work a new dependency), `DoneIsGated` (a step that makes a task done is the save of a
request that found it in review, unblocked and approved), `CyclesNeedARace`.

What is abstracted: `Check` reads dependencies, statuses and approvals in one step;
the reset of all dependents is one step; the refresh comes right after the commit; a
request names at most two of status, assignee and dependencies (the creator names all);
`only_lead_can_change_status`, `comment_required_for_review`, tags, custom
fields, comments and notifications are left out.

### TaskFeed and BoardPage

A row is its `updated_at`: two rows with one stamp have one content. A request
commits the row, stamps the event and commits it (`WriteRow`, `LogEvent`); an update by
the lead, or the reset of a dependent, stamps both and commits them together later
(`StampBoth`, `CommitBoth`); a deletion logs nothing and removes the events of the task. `Poll` is one round of the
generator: what is stamped since `lastSeen` and not in `seen`, sent with the
row as it is now. The page has its list `cards`, the connection `link` and per request of
its own how it was `asked` and the list to go back to (`previous`). `Receive` merges a
payload, `Connect` starts from the newest stamp shown, or from the server's clock when
the list is empty, `MoveTask` is optimistic,
`UpdateAnswered`, `CreateAnswered`, `DeleteAnswered`, `RequestFails` take the
answers, each by the rules of its handler.

Properties: `StaleIsExplained` (a task is shown otherwise than it is only while
something is on its way that will correct it, or for a reason recorded in `blamed`);
`DoubledOnlyIfCreatedHere`; `Converges` (the same in the end, when only the named reasons
remain).

Assumed: in two transactions the row's stamp is the time of its commit and the event is
stamped right after; the dependents reset in one commit are updates of their own; requests of others start at their write; a crash between row and event, a failed load,
and the cap on the stream's set of ids are left out.

### CaioPage and CaioCards

`CaioPage` has the ledger's `verdict`, `started`, `completed`, the `list` shown, the loads
under way and per event the verdict `post`ed. The server's side is `DecisionLedger`
(`Ledger!Decide`, `Ledger!Next`), so that what is shown here holds for the
endpoints as far as they implement it. `CaioCards` has the pairing of
policy decisions with proposals (`Pairs`), what remains shown (`Shown`) and the
`Category`, over every log of bounded length that Caio's runtime can have written (`Logs`) and every
order in which equal stamps may be returned, or cut off at the limit (`Newest`, `Listings`).

Properties: `ShownIsTrue`, `SettlesOnLedger`; `OneCardPerProposal`,
`WrongPairOnlyUnsettled` and `PedroIsAsked` over all readings of a log. The last three
rest on how the runtime writes: proposals are decided on in their order, a policy decision follows
its proposal within `Lag`, which the window holds, and events of one type never share a stamp. The category for bookmarks is left out.

### Onboarding

State: the `rows` of the sessions and which is `newest`, the messages `due` from the
agent, and the dialogs `opened` so far, several of which may be `open` at once, in tabs of one
user or at several members of the board: each has its `call`, its polls under way (`get`), the
`session` it shows and the fingerprint it is `awaiting`. A reload leaves one (`Leave`) and opens another
(`Open`); the call it left goes on at the server. Every endpoint that messages the agent does so before it
writes its row, on a copy read before (`FirstStart`, `SendAnswer`, then `FinishStart`,
`FinishAnswer`). A gateway call may fail, or be repeated. `CanAct` is the enabling
of the controls, `ShouldPoll` the polling, of which several may be under way and arrive in any order.
A poll is answered in the step that sends it: answered later, it would be as good as one sent later, as long as
the dialog polls; when it no longer does, the dialog shows the latest or is out of date already, and the answer can
only help. The proofs use of a poll that is answered no more than that the dialog is open.

Properties: `StaleIsExplained` (a dialog that lets its user act shows the latest question or
draft, and the agent has nothing left to reply to, but for the causes recorded in `stale`: another dialog
told the agent something since, a prompt the agent got twice or by a failed call, an agent still being told, or to
reply, when the dialog was opened, a start that found the agent asked already or an older session, a late poll;
until it has shown the latest again), `ActsOnWhatIsShown` (answers
and confirmations are taken for what the user saw, although the server takes whatever is latest, under the same
condition), `NeverWaitsForGood` (unless a reply or the start was `lost`).

## 3. Runs

Every bound is a constant named in the module that uses it.

| Run | Instance | Shows |
|---|---|---|
| `queue_races` | 2 workers (symmetric), 1 job, batch of 1, 1 retry, 1 deferral, 1 fault | `TypeOK`, `NoSilentLoss`, `DrainCovered`, `AttemptsCounted`, `DroppedOnlyWhenExhausted` under all interleavings of two drains |
| `queue_live` | 1 worker, 2 jobs, one without a handler, 2 retries, no fault, fair | `NoRerun`, `EventuallySettled` |
| `lifecycle_races` | 1 update, 2 presence requests, 1 reconciler, 3 wakes | `WaitIsCovered`, `AutoWakesBounded` |
| `lifecycle_errors` | 1 update, 1 sync, 1 reconciler, 3 wakes, one gateway error, two cancelled runs, one fault | `TypeOK`, `AutoWakesBounded`, `LockedOutOnlyByRace`, `GenerationRunsOnce` |
| `lifecycle_live` | 2 updates, 1 reconciler, 3 wakes, fair | `SilentAgentGoesOffline` |
| `approvals` | 2 requests at a time, 4 in all, 2 approvals, 2 tasks, fair | all five properties |
| `caio` | 3 requests at a time, 4 in all, 1 event, 2 message ids | `TypeOK`, `AnswersAgree`, `ImplementsLedger` |
| `task_board` | 2 tasks and 2 requests at a time (symmetric), 3 requests, deletions and changes of approvals in all, crashes, all board rules on | `TypeOK`, `BlockedTasksWait`, `CyclesNeedARace`, `DoneIsGated` |
| `board_page` | 2 tasks, none or one to begin with, 2 requests of the page, 1 of somebody else, 1 lost connection, fair | `TypeOK`, `StaleIsExplained`, `DoubledOnlyIfCreatedHere`, `Converges` |
| `caio_page` | 1 event, 2 loads at a time; all logs of up to 5 events over 4 instants, 4 of them listed; fair | all six properties |
| `onboarding` | 2 dialogs, 2 polls of each under way, 2 messages of the agent, 2 of dialogs open at once and faults taken together, fair | `TypeOK`, `StaleIsExplained`, `ActsOnWhatIsShown`, `NeverWaitsForGood` |
| `lifecycle_stuck_updating` | 1 update, 1 gateway error | the counterexample of the finding below |

Why these bounds are enough: the races on the queue need two workers in a drain
of the same envelope plus a third step that puts it back (retry, deferral), which
one job, one retry and one deferral give; a fault cuts a drain short. The races
on the agents row need two sessions with stale copies, a check-in and the
reconcile handler. The rules of the approvals need two approvals that share a
task and a second task for the lock order; four requests allow resolve, reopen
and create in between. Two verdicts and the winner's row decide a conflict on an
event; events do not interact. A race on the board is between two requests, over two
tasks of which one depends on the other, after a third step (a creation, a deletion, a
change of approvals) that prepares it or comes in between. On
the board page, a move, another request of the page and one of somebody else meet the
stream and one lost connection: every reason in `blamed` occurs. Events on the Caio page do not interact but
for the pairing, for which a window of 2 instants and 5 events give two policy
decisions that compete for a proposal, a proposal out of the window and one cut off by the
limit. Onboarding has a second dialog, which may be open along with the first or after it, and a second
message to the agent. Dialogs open at once, failed and repeated calls and polls that overlap are bounded
together (`LittleTrouble`): two dialogs without a fault, or one after the other with one or two. Its
two safety properties are proved for any number of each. The theorems of section 5 hold
without bounds. `lifecycle_errors` is checked under the view `InUse`, which leaves out what a session that
is over keeps in its copies: no action reads them, so that states that differ in them only are alike.

Deadlock is checked for the queue, whose workers can always take a step. The
other models bound the number of requests and really may stop when all are
served, so their configurations switch the check off; when requests block
each other is the subject of `OnlyUnsortedInsertsDeadlock` and `RequestsEnd`.

### Fairness

- `TaskQueue`: weak fairness of each worker's loop, since `queue_worker` calls
  `dequeue_task` for ever and BRPOP has a finite timeout, and of the passing of time.
  Producers, faults and crashes owe nothing.
- `AgentLifecycle`: deadlines pass, the worker keeps taking jobs, and a request in
  progress runs to its end (the gateway client has timeouts). Nobody has to send a
  request, and the agent never has to check in.
- `Approvals`: a request in progress takes its next step when it can, and PostgreSQL
  finds deadlocks (`deadlock_timeout`).
- `BoardPage`: the page loads, reads, and reconnects after a pause, the generator
  polls every two seconds, and requests are served and answered, if only by a
  failure. Users owe nothing.
- `CaioPage`: the page reloads every 30 s and each request ends. Strong fairness stands for an
  environment in which the log is readable and an answer gets through again and
  again: without it the page may stay empty for good.
- `Onboarding`: server steps, polls and their answers happen as long as a page with the dialog is active, and the
  agent replies to what it is told; users owe nothing.

`lifecycle_live` has no check-in: a heartbeat that loaded the row before a wake and
commits after it writes `checkin_deadline_at = NULL` over the deadline of the newer
wake although it is no answer to it. `queue_live` has no faults, for
which `lost` would excuse everything, and `lifecycle_live` none either, since a crash
between the commit and the enqueue ends the escalation.

## 4. Findings

The code and a document disagree, with a counterexample:

1. `lifecycle_stuck_updating`: one failed gateway call during an update commits
   the new generation with a deadline and enqueues no job
   (`lifecycle_orchestrator.py:122`). The agent stays `updating`; the documented
   escalation to `offline` never happens.

Read in the code while modelling, not the subject of a run of their own:

- Lifecycle. A template sync of an agent whose wake is unanswered clears the deadline,
  moves the generation on and enqueues nothing (`provisioning_db.py:593`); with a stale
  copy it may even leave the deadline standing, which is why `WaitIsCovered` is stated
  without template syncs. `wake_attempts` is incremented on a copy the row lock did not
  refresh, so that a check-in in between is undone (`lifecycle_orchestrator.py:98`).
  A run that is cancelled after 60 s (`lifecycle_reconcile.py:119`), or dies, between its wake and its
  commit has woken the agent and is rolled back with its count: the retried job wakes the agent
  again, so that with two such runs one more wake than the limit is sent (in `lifecycle_errors`
  `woken` exceeds `MaxWakeAttempts`), which is why `AutoWakesBounded` adds `undone`.
  The generation is compared before the lock only (`lifecycle_reconcile.py:45`).
  Updates mint and commit a token before the lock, so that two of them can leave the gateway
  with one token and the row with the hash of the other
  (`provisioning_db.py:1633`); `LockedOutOnlyByRace` says that it takes as much. `run_lifecycle` never resets `wake_attempts`, so an update
  of an agent that went offline gets one wake, not the new cycle that
  `docs/troubleshooting/gateway-agent-provisioning.md:92` promises. A presence commit that took its
  time before another one and comes after it puts `last_seen_at` back (`agent_auth.py:98`),
  so that an agent that has answered may look silent again: `WaitIsCovered`
  goes by the latest presence committed.
- Approvals. `lock_tasks_for_approval` locks in a fixed order, but a creation that is not
  pending locks the same rows through its foreign keys in the order of the request: one for
  the tasks 2, 1 and a guarded request for 1, 2 can deadlock, and one of them is answered with 500.
- Caio. The endpoint text of `api/caio.py:266` says a second verdict updates the row,
  while the code answers 409; `api/caio.py:395` calls a repeated start a no-op, while two racing
  ones both stamp; an approved event can be completed without having been started. The page
  pairs by time alone: while a proposal has not been decided on, its neighbour's policy
  decision may take it in. A verdict given on a proposal's own card is not shown any
  more once a policy decision takes the proposal in.
- Tasks. The lead may give a task at work a dependency that is open, and it stays at
  work. `create_task` takes the status done without the gates. `previous_status` is the
  status loaded, so that an overlapping request may reopen a task without the reset of
  its dependents, which stay at work: `BlockedTasksWait` first excused only tasks written
  late themselves, and the proof did not go through.
- Board page. A creation may show a task twice, until it is reloaded; a failed move
  puts back the list of the time it began; the cursor of a reconnect may pass an event that was never
  received.
- Onboarding. A dialog that shows a question does not poll and stays as it is when somebody answers that question
  in another tab or as another member: its own answer is then taken for a later question, or none. A reload
  sends the last answer to the agent again, while the dialog shows the
  question before it, enabled and without polling. An answer's write-back loses a reply
  that came while the gateway call ran, and the prompt goes out before the session's row exists. A completed
  session that was not confirmed is abandoned by a reload. After a confirmation whose
  provisioning failed, the agent's messages get 409. The confirmation takes the
  draft shown, not the one on the row.

## 5. Theorems

| Theorem | Statement | Argument |
|---|---|---|
| `TaskQueueProofs!TypeCorrect` | `Spec => []TypeOK` | one step per action; `held` is set exactly in `run` and `failed` |
| `TaskQueueProofs!DrainIsCovered` | `Spec => []DrainCovered` | below |
| `TaskQueueProofs!AcceptedJobsSurvive` | `Spec => []NoSilentLoss` | from cover: what is removed has a safe successor |
| `TaskQueueProofs!AttemptsAreCounted` | `Spec => []AttemptsCounted` | every copy, wherever it is, knows of no more attempts than were failed (`RetryInv`) |
| `TaskQueueProofs!RetriesAreUsedUp` | `Spec => []DroppedOnlyWhenExhausted` | with `AttemptsCounted` |
| `TaskQueueProofs!NothingRunsAgain` | `Spec => []NoRerun`, if there is one worker and no fault | below |
| `AgentLifecycleProofs!TypeCorrect` | `Spec => []TypeOK` | a reconciler under way has a job (`HasJob`) |
| `AgentLifecycleProofs!WakesAreBounded` | `Spec => []AutoWakesBounded`, if there is one reconciler | below |
| `AgentLifecycleProofs!GenerationsRunOnce` | `Spec => GenerationRunsOnce`, if there is one reconciler | below |
| `AgentLifecycleProofs!WaitsAreCovered` | `Spec => []WaitIsCovered`, if nothing fails and no template is synchronised | below |
| `AgentLifecycleProofs!TokensAgree` | `Spec => []LockedOutOnlyByRace` | below |
| `ApprovalsProofs!TypeCorrect` | `Spec => []TypeOK` | one step per action |
| `ApprovalsProofs!TasksHaveOnePending` | `Spec => []OnePendingPerTask` | below |
| `ApprovalsProofs!OnlyUnsortedInserts` | `Spec => []OnlyUnsortedInsertsDeadlock` | below |
| `ApprovalsProofs!LeadIsTold` | `Spec => []LeadToldOfOutcome` | an outcome the lead does not know is one its writer is about to notice (`OutcomeNoticed`) |
| `CaioDecisionsProofs!TypeCorrect` | `Spec => []TypeOK` | one step per action |
| `CaioDecisionsProofs!AnswersNeverContradict` | `Spec => []AnswersAgree` | rows are inserted once and keep verdict and message |
| `CaioDecisionsProofs!EndpointsImplementLedger` | `Spec => ImplementsLedger` | every step maps to a ledger step or a stutter |
| `CaioPageProofs!TypeCorrect` | `Spec => []TypeOK` | one step per action |
| `CaioPageProofs!CardsAreTrue` | `Spec => []ShownIsTrue` | below |
| `CaioPageProofs!OneCard` | `Spec => []OneCardPerProposal` | below |
| `CaioPageProofs!WrongPairs` | `Spec => []WrongPairOnlyUnsettled` | below |
| `CaioPageProofs!PedroAsked` | `Spec => []PedroIsAsked` | below |
| `TaskBoardProofs!TypeCorrect` | `Spec => []TypeOK` | with what a request remembers of its task (`RequestOK`) |
| `TaskBoardProofs!GatesHold` | `Spec => DoneIsGated`, if the board requires approval and review | below |
| `TaskBoardProofs!CyclesAreRaces` | `Spec => []CyclesNeedARace` | below |
| `TaskBoardProofs!BlockedWait` | `Spec => []BlockedTasksWait` | below |
| `OnboardingProofs!TypeCorrect` | `Spec => []TypeOK` | each dialog inserts one session at most (`Numbered`) |
| `OnboardingProofs!StaleOnlyIfExplained` | `Spec => []StaleIsExplained` | below |
| `OnboardingProofs!ActsOnShown` | `Spec => []ActsOnWhatIsShown` | below |
| `BoardPageProofs!TypeCorrect` | `Spec => []TypeOK` | with the whole invariant below |
| `BoardPageProofs!StaleOnlyIfExplained` | `Spec => []StaleIsExplained` | below |
| `BoardPageProofs!DoubledOnlyIfCreated` | `Spec => []DoubledOnlyIfCreatedHere` | neither the list nor one a move may put back shows a task twice unless it was created here (`Doubles`) |

Assumptions: those named in the modules (`QueueAssumption`, `NoTaskAssumption`,
`LifecycleAssumption`, `NoJobAssumption`, `TaskBoardAssumption`, `CaioPageAssumption`, `CaioCardsAssumption`,
`BoundsAssumption`, `MarksAssumption`, `BoardPageAssumption`, the ones of `Approvals` and
`CaioDecisions`): natural bounds, null values outside the sets they are added to,
kinds of sessions that do not overlap, finitely many tasks on a page or under approval and
requests under way at a time, and `Lag <= Window`: the
window is there for what "Caio writes ... back-to-back" (`app/caio/page.tsx:1250`). TLC evaluates them on
each run. Five theorems have a hypothesis of their own, which their runs satisfy:

- `OneWorker`, `OneReconciler`: `compose.yml` starts one `webhook-worker`, which takes one job at a
  time. With two, a drain hands a job out twice (`queue_races`), and two reconcilers with
  stale copies wake an agent more often than the limit.
- `MaxFaults = 0` (`NothingRunsAgain`): after a lost reply or a crash a job may rightly run again.
- `NoFailures` (`WaitsAreCovered`): the first finding is what a failed call does to a wait,
  and section 4 what a template sync does.
- `GatesHold` is about boards with the settings `require_approval_for_done` and
  `require_review_before_done` on; without them there is no gate to pass.

`NoSilentLoss` is not inductive: a ZREM may remove a copy that another worker
has just put back. The invariant that is inductive gives every envelope a rank
(attempts + deferrals): an envelope under removal has a copy of at least its rank
that is in the list, in a worker's hands, or in the sorted set out of reach of
every pending removal. A retry and a deferral raise the rank, so the envelope they
schedule is never one that somebody is about to remove without a successor.

`OnePendingPerTask` is not inductive either: nothing in it says why two requests
that both passed the check cannot both write. The strengthening has four parts: a
request past `Check` that will make an approval pending goes through the guarded
path (`GuardedFirst`); it holds the lock of each of its tasks (`HoldsLocks`); no
pending approval but its own links to them (`CheckHolds`); and its copy of the links
is that of the row (`Tracked`).

`NoRerun` needs that a job has a single copy (`SingleInv`): only between the LPUSH and the
ZREM of a drain is one in the list and in the sorted set at once, the worker that
drains is then not popping, and what is in the worker's hands is nowhere else.

The limit on wakes holds although `wake_attempts` is written from stale copies. A session's copy
differs from what it loaded only in the columns it is about to write (`Copies`). The column of the
row never falls behind the wakes sent and committed (`Committed`: those sent without those undone and the
one `Pending` under the row lock) since the last request or check-in (`Counted`), nor does
the copy of a reconciler that passed the test, which may therefore wake once more
(`MayWake`), and one that holds the lock runs a generation not run before (`IsWaking`), because
with one reconciler nobody else moves the generation on without a request being committed.

A wait is covered (`CoverInv`) by a job in the queue, by a reconciler that has passed its
test and will wake or write the deadline off, or by a session that is about to enqueue (`Backed`). A
reconciler drops a job only after a test that the row, read in the same step, does not pass: another
generation, an answer, or no deadline.

The tokens agree (`TokenInv`) because no session's copy hides a new hash (`TokenCopies`) and each minted
token is new (`TokensOld`). A reconcile run pushes what it has flushed under the lock and will commit
(`TokenUnderLock`), so that the token to be, `Current`, is the flushed one while such a run holds the
lock and the one of the row otherwise. Until tokens race, each session that has a token
on its way has this one, and as long as the gateway does not have it somebody is about to push it
(`Arrives`).

A guarded request locks its tasks in the order of their ids: every lock held
comes before those still to be taken (`LocksInOrder`). A circle of waiting requests is finite, so that
one of them waits for the last task anybody in it waits for (`LastOne`). If the one it waits for owns
that task, it waits for a later one, which there is not. If it shares it and its list is in order, it waits
for that task at the latest, hence for that task, which then is owned by somebody, and what is owned
nobody shares (`Exclusive`). So the list of some insert in the circle is out of order.

For the ledger, the invariant is that a request about to stamp refers to an
approved event (`WorkApproved`), which stays approved because no action changes a
verdict.

`ShownIsTrue` needs that everything on its way to the page, the answers to loads and to
verdicts, is true as well: verdicts are final and stamps are never cleared, so that what was
true when it was read stays so.

The pairing of cards is a loop over a listing, and the logs it is about are themselves built event by
event, so that its theorems take an induction over data. `SetInduction` gets it from the
well-foundedness of the naturals, for a set in the place of a predicate; `Recursion` shows that a
recursion over `0..N` has a solution, hence that `Logs` and `Pairs` satisfy the equations they
are defined by. Every log is in order (`LogOK`: `WellFormed`, `Stamped`, `InTurn`,
`NoneSkipped`), since appending an event keeps it so, and a listing has each of the newest events once
(`ListingOK`). After n rounds of the loop no decision and no proposal is in two pairs (`Paired`); this
gives the single card. Once everything listed is decided on, each of the first n decisions has its own
proposal (`Right`): a candidate listed before it would be newer, its own decision newer too and
listed before, so that the loop has given it away already (`NewerIsTaken`).

The theorems on `TaskBoard` rest on what a request knows while it is under way
(`Knows`): the id of a task it creates belongs to nobody else (`CreatesNew`); if it may
write done, it found the gates open (`Gated`); and if no dependency has changed since it
loaded its task, its new dependencies are still acyclic together with those there are (`EdgesChecked`).
A task then gets done only by a status column that differs from the one loaded, which
passed the gates: a late write of another column leaves the status alone, and a reset writes
inbox. A deletion cannot make a cycle (`FewerEdges`).

`BlockedTasksWait` asks for one reset to come and is not inductive: a second dependency may be
reopened meanwhile and the first reset be over. Inductive is that for every open
dependency of a task at work that is not excused a reset is under way (`OpenCovered`), together with
what a request knows whose task and board nobody has written since it loaded them: its copy is
the row, and what it will write lets a blocked task wait (`Unmoved`).

A dialog that is not `stale` is up to date (`UpToDate`): the agent has at most one message to reply to, no other
dialog is telling it anything (`Undisturbed`), and there is one condition for each phase of the dialog's own call
(`Stage`): while it is sent, or after it has failed, nothing is due and the dialog shows the latest, or will once its polls
come (`Settled`), and what is sent is about the latest row; once it is dispatched, it carries
what the user saw; when it returns, it shows the latest, or something that keeps the dialog
waiting. While the dialog is idle, either it shows the latest and nothing is due, or it
is waiting (`Idle`). What one dialog does leaves the others as they are (`Bystander`), unless it tells the agent,
which puts all others out of date; and a dialog that shows the latest again while nothing is under way is up to
date again (`HealedIfNoCause`).

On the board page each task has its own reason (`Explained`): it is shown as it is, was
blamed, is shown twice, or its correction is at one of five places on its way (`ToLog`, `ToSend`,
`ToReceive`, `ToRollBack`, `ToRemove`), each of which hands over to the next. That a payload
received is the last word needs `Overtaken`: an older payload is followed by a newer one.
Events are not lost between the places because the stamp of an event yet to be committed is
new to everybody (`Stamps`), events and payloads are about rows that were there (`Traces`),
and page and server agree on what was requested (`Tracked`). The reasons in `blamed` that
TLC found on the small instance suffice for any number of
tasks, requests and reconnects.

Only model-checked:

- All liveness properties (`EventuallySettled`, `SilentAgentGoesOffline`, `RequestsEnd`,
  `Converges`, `SettlesOnLedger`, `NeverWaitsForGood`), which are beyond the prover. The
  theorems are about the safety part of each specification.
- What `NoRerun`, `AutoWakesBounded`, `GenerationRunsOnce` and `WaitIsCovered` say outside
  the hypotheses above: the runs do not cover it either, since it does not hold there.

## 6. Not modelled

- The components marked `not_modelled` in `PROJECT.json`: those planned below, and
  authentication, coordination, simple record endpoints, and the pages of the frontend
  that show one query each, which have no protocol of their own or consist of I/O. The
  generated API clients are request functions without state; they and the layout code of the pages
  are most of the lines of the repository.
- In `AgentLifecycle`: creation and deletion of agents, agents without a gateway
  URL, and main agents' sessions; several agents, which share nothing but
  the queue.
- In `Approvals`: the event stream and confidence rules.
- On the board page: the panels for comments, approvals, chat and agents, which read streams of
  their own in the way the task list does.
- In `Onboarding`: the creation of the board lead after the confirmation.

## 7. Plan

1. `WebhookDelivery`, over the promises of `TaskQueue` (accepted, refused): every
   stored payload is delivered, given up or reported; the ignored result of the
   enqueue.
2. `Membership`: last owner, invites, first sign-in, with concurrent requests.
3. `RateLimiter`: the in-memory and the Redis limiter as implementations of one
   abstract window; `GatewayBackoff`: the retry arithmetic.
4. Agent creation limits and board deletion.
