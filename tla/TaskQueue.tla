------------------------------ MODULE TaskQueue ------------------------------
(***************************************************************************)
(* The Redis queue that carries every background job of Mission Control    *)
(* (app/services/queue.py) and the worker processes that consume it        *)
(* (app/services/queue_worker.py): a list of ready envelopes, a sorted set *)
(* of scheduled ones, and workers whose drain of the sorted set takes      *)
(* three Redis commands that nothing makes atomic.                         *)
(*                                                                         *)
(* The order of the list is abstracted (BRPOP may return any element) and  *)
(* so are the scores of the sorted set: an envelope is due or is not.      *)
(***************************************************************************)
EXTENDS Integers, FiniteSets

CONSTANTS
    Tasks,        \* jobs that producers may submit
    Unhandled,    \* those whose task_type has no entry in _TASK_HANDLERS
    Workers,      \* worker processes
    MaxRetries,   \* settings.rq_dispatch_max_retries
    DrainLimit,   \* _DRY_RUN_BATCH_SIZE
    MaxDefers,    \* bound: how often a handler may defer one job
    MaxFaults,    \* bound: Redis errors and worker crashes
    NoTask        \* a worker that holds no envelope

ASSUME QueueAssumption ==
    /\ MaxRetries \in Nat /\ MaxDefers \in Nat /\ MaxFaults \in Nat
    /\ DrainLimit \in Nat \ {0}
    /\ Unhandled \subseteq Tasks

(* QueuedTask. The JSON text of an envelope is its identity in the sorted  *)
(* set; `defers' stands for created_at, which a retry keeps and a deferral *)
(* stamps anew.                                                            *)
Envelopes == [task : Tasks, attempts : 0..MaxRetries, defers : 0..MaxDefers]

ASSUME NoTaskAssumption == NoTask \notin Envelopes

VARIABLES
    list,      \* the ready list: how many copies of each envelope it holds
    sched,     \* the members of the sorted set <queue>:scheduled
    due,       \* those whose score is in the past
    pc,        \* where each worker is in flush_queue and dequeue_task
    batch,     \* what zrangebyscore returned to a draining worker
    held,      \* the envelope a worker has popped
    accepted,  \* history: jobs whose enqueue call returned True
    refused,   \* history: jobs whose enqueue call returned False
    done,      \* history: jobs a handler completed
    dropped,   \* history: jobs given up deliberately
    lost,      \* history: jobs of which a fault destroyed a held copy
    failures,  \* history: handler exceptions per job
    faults     \* faults so far

vars == <<list, sched, due, pc, batch, held, accepted, refused, done,
          dropped, lost, failures, faults>>

redis   == <<list, sched, due>>
history == <<accepted, refused, done, dropped, lost, failures>>

PCs == {"drain", "push", "remove", "pop", "run", "failed"}

TypeOK ==
    /\ list \in [Envelopes -> Nat]
    /\ sched \subseteq Envelopes
    /\ due \subseteq sched
    /\ pc \in [Workers -> PCs]
    /\ batch \in [Workers -> SUBSET Envelopes]
    /\ held \in [Workers -> Envelopes \cup {NoTask}]
    /\ \A w \in Workers : held[w] # NoTask <=> pc[w] \in {"run", "failed"}
    /\ accepted \subseteq Tasks /\ refused \subseteq Tasks
    /\ done \subseteq Tasks /\ dropped \subseteq Tasks /\ lost \subseteq Tasks
    /\ failures \in [Tasks -> Nat]
    /\ faults \in 0..MaxFaults

Init ==
    /\ list = [e \in Envelopes |-> 0]
    /\ sched = {} /\ due = {}
    /\ pc = [w \in Workers |-> "drain"]
    /\ batch = [w \in Workers |-> {}]
    /\ held = [w \in Workers |-> NoTask]
    /\ accepted = {} /\ refused = {} /\ done = {} /\ dropped = {} /\ lost = {}
    /\ failures = [t \in Tasks |-> 0]
    /\ faults = 0

-----------------------------------------------------------------------------
(* Redis commands *)

LPush(es) == list' = [e \in Envelopes |-> list[e] + (IF e \in es THEN 1 ELSE 0)]

ZAdd(e) == sched' = sched \cup {e} /\ due' = due \ {e}

ZRem(es) == sched' = sched \ es /\ due' = due \ es

Fault == faults < MaxFaults /\ faults' = faults + 1

(* Time passes the score of a scheduled envelope. *)
BecomeDue ==
    /\ \E e \in sched \ due : due' = due \cup {e}
    /\ UNCHANGED <<list, sched, pc, batch, held, history, faults>>

-----------------------------------------------------------------------------
(* Producers *)

Fresh(t) == [task |-> t, attempts |-> 0, defers |-> 0]

Unsubmitted(t) == t \notin accepted \cup refused

(* enqueue_task, also reached by enqueue_task_with_delay with delay 0 *)
EnqueueTask(t) ==
    /\ Unsubmitted(t)
    /\ LPush({Fresh(t)})
    /\ accepted' = accepted \cup {t}
    /\ UNCHANGED <<sched, due, pc, batch, held, refused, done, dropped, lost,
                   failures, faults>>

(* enqueue_task_with_delay with a positive delay *)
EnqueueWithDelay(t) ==
    /\ Unsubmitted(t)
    /\ ZAdd(Fresh(t))
    /\ accepted' = accepted \cup {t}
    /\ UNCHANGED <<list, pc, batch, held, refused, done, dropped, lost,
                   failures, faults>>

(* Redis raises; both enqueue functions catch it and return False. The     *)
(* command may have been executed before the connection failed.            *)
EnqueueFails(t) ==
    /\ Unsubmitted(t)
    /\ Fault
    /\ refused' = refused \cup {t}
    /\ \/ UNCHANGED redis
       \/ LPush({Fresh(t)}) /\ UNCHANGED <<sched, due>>
       \/ ZAdd(Fresh(t)) /\ UNCHANGED list
    /\ UNCHANGED <<pc, batch, held, accepted, done, dropped, lost, failures>>

-----------------------------------------------------------------------------
(* _drain_ready_scheduled_tasks: ZRANGEBYSCORE, LPUSH, ZREM *)

DrainRead(w) ==
    /\ pc[w] = "drain"
    /\ \E es \in SUBSET due :
        /\ Cardinality(es) <= DrainLimit
        /\ es = due \/ Cardinality(es) = DrainLimit
        /\ batch' = [batch EXCEPT ![w] = es]
        /\ pc' = [pc EXCEPT ![w] = IF es = {} THEN "pop" ELSE "push"]
    /\ UNCHANGED <<redis, held, history, faults>>

DrainPush(w) ==
    /\ pc[w] = "push"
    /\ LPush(batch[w])
    /\ pc' = [pc EXCEPT ![w] = "remove"]
    /\ UNCHANGED <<sched, due, batch, held, history, faults>>

(* Mutant: no ZREM *)
DrainKeeps(w) ==
    /\ pc[w] = "remove"
    /\ batch' = [batch EXCEPT ![w] = {}]
    /\ \E next \in {"pop", "drain"} : pc' = [pc EXCEPT ![w] = next]
    /\ UNCHANGED <<redis, held, history, faults>>

(* After a drain the worker pops; after the drain that follows a timed-out *)
(* pop, dequeue_task returns None and the next call drains again.          *)
DrainRemove(w) ==
    /\ pc[w] = "remove"
    /\ ZRem(batch[w])
    /\ batch' = [batch EXCEPT ![w] = {}]
    /\ \E next \in {"pop", "drain"} : pc' = [pc EXCEPT ![w] = next]
    /\ UNCHANGED <<list, held, history, faults>>

-----------------------------------------------------------------------------
(* dequeue_task and the dispatch in flush_queue *)

(* BRPOP hands over an envelope and forgets it. A type with no handler is  *)
(* logged and dropped.                                                     *)
Pop(w) ==
    /\ pc[w] = "pop"
    /\ \E e \in Envelopes :
        /\ list[e] > 0
        /\ list' = [list EXCEPT ![e] = @ - 1]
        /\ IF e.task \in Unhandled
           THEN /\ dropped' = dropped \cup {e.task}
                /\ pc' = [pc EXCEPT ![w] = "drain"]
                /\ UNCHANGED held
           ELSE /\ held' = [held EXCEPT ![w] = e]
                /\ pc' = [pc EXCEPT ![w] = "run"]
                /\ UNCHANGED dropped
    /\ UNCHANGED <<sched, due, batch, accepted, refused, done, lost, failures,
                   faults>>

(* Mutant: BRPOP without a timeout *)
PopBlocks(w) ==
    /\ pc[w] = "pop"
    /\ \A e \in Envelopes : list[e] = 0
    /\ UNCHANGED vars

(* BRPOP times out: dequeue_task returns None, the worker loop restarts. *)
PopTimeout(w) ==
    /\ pc[w] = "pop"
    /\ \A e \in Envelopes : list[e] = 0
    /\ pc' = [pc EXCEPT ![w] = "drain"]
    /\ UNCHANGED <<redis, batch, held, history, faults>>

Release(w) ==
    /\ held' = [held EXCEPT ![w] = NoTask]
    /\ pc' = [pc EXCEPT ![w] = "drain"]

HandlerSucceeds(w) ==
    /\ pc[w] = "run"
    /\ done' = done \cup {held[w].task}
    /\ Release(w)
    /\ UNCHANGED <<redis, batch, accepted, refused, dropped, lost, failures,
                   faults>>

(* Mutants: a deferral keeps created_at, or counts as an attempt. *)
SameStamp(e) == e
CountedDeferral(e) == [e EXCEPT !.attempts = @ + 1]

Deferred(e) == [e EXCEPT !.defers = @ + 1]

(* defer_lifecycle_reconcile: the handler schedules the job again, with    *)
(* the same attempts and a new created_at, and returns normally.           *)
HandlerDefers(w) ==
    /\ pc[w] = "run"
    /\ held[w].defers < MaxDefers
    /\ ZAdd(Deferred(held[w]))
    /\ Release(w)
    /\ UNCHANGED <<list, batch, history, faults>>

HandlerFails(w) ==
    /\ pc[w] = "run"
    /\ failures' = [failures EXCEPT ![held[w].task] = @ + 1]
    /\ pc' = [pc EXCEPT ![w] = "failed"]
    /\ UNCHANGED <<redis, batch, held, accepted, refused, done, dropped, lost,
                   faults>>

(* Mutant: a retry keeps the number of attempts. *)
Uncounted(e) == e

(* _requeue_with_attempt *)
Retried(e) == [e EXCEPT !.attempts = @ + 1]

(* Mutants: off by one *)
LastRetry(e) == e.attempts + 1 >= MaxRetries
PastRetries(e) == e.attempts > MaxRetries

Exhausted(e) == e.attempts + 1 > MaxRetries

(* requeue_if_failed: the delay is never 0, so a retry is scheduled. *)
RequeueIfFailed(w) ==
    /\ pc[w] = "failed"
    /\ IF Exhausted(held[w])
       THEN dropped' = dropped \cup {held[w].task} /\ UNCHANGED <<sched, due>>
       ELSE ZAdd(Retried(held[w])) /\ UNCHANGED dropped
    /\ Release(w)
    /\ UNCHANGED <<list, batch, accepted, refused, done, lost, failures, faults>>

-----------------------------------------------------------------------------
(* Faults *)

(* A Redis error inside dequeue_task: flush_queue logs it and calls        *)
(* dequeue_task again. The failed LPUSH may have been executed.            *)
DequeueError(w) ==
    /\ pc[w] \in {"drain", "push", "remove", "pop"}
    /\ Fault
    /\ \/ UNCHANGED list
       \/ pc[w] = "push" /\ LPush(batch[w])
    /\ batch' = [batch EXCEPT ![w] = {}]
    /\ pc' = [pc EXCEPT ![w] = "drain"]
    /\ UNCHANGED <<sched, due, held, history>>

(* The reply of BRPOP, or an envelope that cannot be decoded, is lost. *)
PopReplyLost(w) ==
    /\ pc[w] = "pop"
    /\ Fault
    /\ \E e \in Envelopes :
        /\ list[e] > 0
        /\ list' = [list EXCEPT ![e] = @ - 1]
        /\ lost' = lost \cup {e.task}
    /\ pc' = [pc EXCEPT ![w] = "drain"]
    /\ UNCHANGED <<sched, due, batch, held, accepted, refused, done, dropped,
                   failures>>

(* ZADD raises in the requeue: the exception leaves flush_queue and the    *)
(* worker loop starts over without the job.                                *)
RequeueError(w) ==
    /\ pc[w] = "failed"
    /\ ~Exhausted(held[w])
    /\ Fault
    /\ \/ UNCHANGED redis
       \/ ZAdd(Retried(held[w])) /\ UNCHANGED list
    /\ lost' = lost \cup {held[w].task}
    /\ Release(w)
    /\ UNCHANGED <<batch, accepted, refused, done, dropped, failures>>

(* defer_lifecycle_reconcile returns False although the ZADD was executed: *)
(* the handler raises, so that the job is deferred and retried.            *)
DeferralFails(w) ==
    /\ pc[w] = "run"
    /\ held[w].defers < MaxDefers
    /\ Fault
    /\ ZAdd(Deferred(held[w]))
    /\ failures' = [failures EXCEPT ![held[w].task] = @ + 1]
    /\ pc' = [pc EXCEPT ![w] = "failed"]
    /\ UNCHANGED <<list, batch, held, accepted, refused, done, dropped, lost>>

(* The worker process dies and is restarted. *)
WorkerCrash(w) ==
    /\ Fault
    /\ lost' = IF held[w] = NoTask THEN lost ELSE lost \cup {held[w].task}
    /\ batch' = [batch EXCEPT ![w] = {}]
    /\ Release(w)
    /\ UNCHANGED <<redis, accepted, refused, done, dropped, failures>>

-----------------------------------------------------------------------------
Produce(t) == EnqueueTask(t) \/ EnqueueWithDelay(t) \/ EnqueueFails(t)

Work(w) ==
    \/ DrainRead(w) \/ DrainPush(w) \/ DrainRemove(w)
    \/ Pop(w) \/ PopTimeout(w)
    \/ HandlerSucceeds(w) \/ HandlerDefers(w) \/ HandlerFails(w)
    \/ RequeueIfFailed(w)

Break(w) ==
    \/ DequeueError(w) \/ PopReplyLost(w) \/ DeferralFails(w)
    \/ RequeueError(w) \/ WorkerCrash(w)

Next ==
    \/ BecomeDue
    \/ \E t \in Tasks : Produce(t)
    \/ \E w \in Workers : Work(w) \/ Break(w)

Spec == Init /\ [][Next]_vars

(* The worker loop never stops calling dequeue_task and time never stops. *)
Fairness == WF_vars(BecomeDue) /\ \A w \in Workers : WF_vars(Work(w))

FairSpec == Spec /\ Fairness

-----------------------------------------------------------------------------
(* Properties *)

Settled(t) == t \in done \cup dropped \cup lost

InHand(e) == \E w \in Workers : held[w] = e

Live(t) == \E e \in Envelopes :
    e.task = t /\ (list[e] > 0 \/ e \in sched \/ InHand(e))

(* No accepted job disappears: until it is completed, given up, or a fault *)
(* hits the worker that holds it, some copy of it is in Redis or in a      *)
(* worker's hands. What could lose one is the drain: its three commands    *)
(* interleave with other workers' drains, pops, retries and deferrals and  *)
(* may be cut short by a crash or a Redis error.                           *)
NoSilentLoss == \A t \in accepted : Settled(t) \/ Live(t)

(* Each retry and each deferral makes a new member of the sorted set. *)
Rank(e) == e.attempts + e.defers

(* Some worker is about to ZREM the envelope. *)
Removing(e) == \E w \in Workers : pc[w] = "remove" /\ e \in batch[w]

Safe(e) == list[e] > 0 \/ InHand(e) \/ (e \in sched /\ ~Removing(e))

(* What makes the drain safe without a transaction: an envelope that some  *)
(* worker is about to remove from the sorted set has a successor of the    *)
(* same or a later attempt that no pending removal can reach, or its job   *)
(* is settled, however many workers drain the same envelopes.              *)
DrainCovered == \A e \in Envelopes : Removing(e) =>
    \/ Settled(e.task)
    \/ \E f \in Envelopes : f.task = e.task /\ Safe(f) /\ Rank(f) >= Rank(e)

(* Every copy of a job knows of no more attempts than its handler failed.  *)
AttemptsCounted ==
    /\ \A e \in Envelopes :
        (list[e] > 0 \/ e \in sched \/ InHand(e)
            \/ \E w \in Workers : e \in batch[w])
        => e.attempts <= failures[e.task]
    /\ \A w \in Workers :
        pc[w] = "failed" => held[w].attempts + 1 <= failures[held[w].task]

(* A job with a handler is given up only after its handler raised          *)
(* MaxRetries + 1 times (requeue_if_failed), whatever duplicates the       *)
(* drain created.                                                          *)
DroppedOnlyWhenExhausted ==
    \A t \in dropped \ Unhandled : failures[t] >= MaxRetries + 1

(* With one worker and no fault the drain creates no duplicate: a handler  *)
(* is never started for a job that has already completed, and fails at     *)
(* most MaxRetries + 1 times.                                              *)
NoRerun ==
    \A w \in Workers :
        held[w] # NoTask =>
            /\ held[w].task \notin done \cup dropped
            /\ failures[held[w].task] <= MaxRetries + 1

(* Every accepted job is eventually completed, given up or lost to a       *)
(* fault: a scheduled one is drained though nobody pushes to the list.     *)
EventuallySettled == \A t \in Tasks : t \in accepted ~> Settled(t)

=============================================================================
