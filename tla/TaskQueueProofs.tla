--------------------------- MODULE TaskQueueProofs ---------------------------
(***************************************************************************)
(* Type correctness of TaskQueue and its safety invariants, for any number *)
(* of jobs, workers, retries and faults; and, for one worker without       *)
(* faults, that the drain duplicates nothing.                              *)
(***************************************************************************)
EXTENDS TaskQueue, TLAPS

USE QueueAssumption, NoTaskAssumption

-----------------------------------------------------------------------------
(* Envelopes: a retry and a deferral make an envelope of the same job with *)
(* a higher rank.                                                          *)
LEMMA FreshEnvelope ==
    ASSUME NEW t \in Tasks
    PROVE  Fresh(t) \in Envelopes /\ Fresh(t).task = t /\ Fresh(t).attempts = 0
  BY DEF Fresh, Envelopes

LEMMA RetriedEnvelope ==
    ASSUME NEW e \in Envelopes, e.attempts + 1 <= MaxRetries
    PROVE  /\ Retried(e) \in Envelopes
           /\ Retried(e).task = e.task
           /\ Retried(e).attempts = e.attempts + 1
           /\ Rank(Retried(e)) > Rank(e)
  BY DEF Retried, Envelopes, Rank

LEMMA DeferredEnvelope ==
    ASSUME NEW e \in Envelopes, e.defers < MaxDefers
    PROVE  /\ Deferred(e) \in Envelopes
           /\ Deferred(e).task = e.task
           /\ Deferred(e).attempts = e.attempts
           /\ Rank(Deferred(e)) > Rank(e)
  BY DEF Deferred, Envelopes, Rank

LEMMA RankOrder ==
    ASSUME NEW e \in Envelopes
    PROVE  Rank(e) \in Int /\ e.task \in Tasks /\ e.attempts \in Nat /\ e.defers \in Nat
  BY DEF Envelopes, Rank

LEMMA RetriesLeft ==
    ASSUME NEW e \in Envelopes
    PROVE  ~Exhausted(e) <=> e.attempts + 1 <= MaxRetries
  BY QueueAssumption DEF Exhausted, Envelopes

-----------------------------------------------------------------------------
(* Type correctness: every variable keeps its type and a worker holds an   *)
(* envelope exactly while it runs it or disposes of its failure.           *)
LEMMA TypeInit == Init => TypeOK
  BY FreshEnvelope DEF Init, TypeOK, PCs

LEMMA LPushType ==
    ASSUME list \in [Envelopes -> Nat], NEW es, LPush(es)
    PROVE  list' \in [Envelopes -> Nat]
  BY DEF LPush

LEMMA TypeNext == TypeOK /\ [Next]_vars => TypeOK'
  <1> SUFFICES ASSUME TypeOK, [Next]_vars PROVE TypeOK'
    OBVIOUS
  <1> USE DEF TypeOK, PCs, redis, history
  <1>1. CASE BecomeDue
    BY <1>1 DEF BecomeDue
  <1>2. ASSUME NEW t \in Tasks, Produce(t) PROVE TypeOK'
    <2>1. CASE EnqueueTask(t)
      BY <2>1, LPushType DEF EnqueueTask
    <2>2. CASE EnqueueWithDelay(t)
      BY <2>2, FreshEnvelope DEF EnqueueWithDelay, ZAdd
    <2>3. CASE EnqueueFails(t)
      <3>1. faults' \in 0..MaxFaults
        BY <2>3 DEF EnqueueFails, Fault
      <3>2. list' \in [Envelopes -> Nat] /\ sched' \subseteq Envelopes /\ due' \subseteq sched'
        BY <2>3, LPushType, FreshEnvelope DEF EnqueueFails, ZAdd
      <3> QED BY <2>3, <3>1, <3>2 DEF EnqueueFails
    <2> QED BY <1>2, <2>1, <2>2, <2>3 DEF Produce
  <1>3. ASSUME NEW w \in Workers, Work(w) PROVE TypeOK'
    <2>1. CASE DrainRead(w)
      BY <2>1 DEF DrainRead
    <2>2. CASE DrainPush(w)
      BY <2>2, LPushType DEF DrainPush
    <2>3. CASE DrainRemove(w)
      BY <2>3 DEF DrainRemove, ZRem
    <2>4. CASE Pop(w)
      <3>1. PICK e \in Envelopes :
               /\ list[e] > 0
               /\ list' = [list EXCEPT ![e] = @ - 1]
               /\ IF e.task \in Unhandled
                  THEN /\ dropped' = dropped \cup {e.task}
                       /\ pc' = [pc EXCEPT ![w] = "drain"]
                       /\ UNCHANGED held
                  ELSE /\ held' = [held EXCEPT ![w] = e]
                       /\ pc' = [pc EXCEPT ![w] = "run"]
                       /\ UNCHANGED dropped
        BY <2>4 DEF Pop
      <3>2. list' \in [Envelopes -> Nat]
        BY <3>1
      <3> QED BY <2>4, <3>1, <3>2, RankOrder DEF Pop
    <2>5. CASE PopTimeout(w)
      BY <2>5 DEF PopTimeout
    <2>6. CASE HandlerSucceeds(w)
      <3>1. held[w].task \in Tasks
        BY <2>6, RankOrder DEF HandlerSucceeds
      <3> QED BY <2>6, <3>1 DEF HandlerSucceeds, Release
    <2>7. CASE HandlerDefers(w)
      <3>1. held[w] \in Envelopes
        BY <2>7 DEF HandlerDefers
      <3>2. Deferred(held[w]) \in Envelopes
        BY <2>7, <3>1, DeferredEnvelope DEF HandlerDefers
      <3> QED BY <2>7, <3>2 DEF HandlerDefers, Release, ZAdd
    <2>8. CASE HandlerFails(w)
      BY <2>8, RankOrder DEF HandlerFails
    <2>9. CASE RequeueIfFailed(w)
      <3>1. held[w] \in Envelopes /\ held[w].task \in Tasks /\ held[w].attempts \in Nat
        BY <2>9, RankOrder DEF RequeueIfFailed, Exhausted
      <3>2. CASE held[w].attempts + 1 > MaxRetries
        BY <2>9, <3>1, <3>2 DEF RequeueIfFailed, Exhausted, Release
      <3>3. CASE held[w].attempts + 1 <= MaxRetries
        <4>1. Retried(held[w]) \in Envelopes
          BY <3>1, <3>3, RetriedEnvelope
        <4> QED BY <2>9, <3>1, <3>3, <4>1 DEF RequeueIfFailed, Exhausted, Release, ZAdd
      <3> QED BY <3>1, <3>2, <3>3
    <2> QED BY <1>3, <2>1, <2>2, <2>3, <2>4, <2>5, <2>6, <2>7, <2>8, <2>9 DEF Work
  <1>4. ASSUME NEW w \in Workers, Break(w) PROVE TypeOK'
    <2>1. CASE DequeueError(w)
      <3>1. list' \in [Envelopes -> Nat]
        BY <2>1, LPushType DEF DequeueError
      <3> QED BY <2>1, <3>1 DEF DequeueError, Fault
    <2>2. CASE PopReplyLost(w)
      <3>1. PICK e \in Envelopes : /\ list[e] > 0
                                   /\ list' = [list EXCEPT ![e] = @ - 1]
                                   /\ lost' = lost \cup {e.task}
        BY <2>2 DEF PopReplyLost
      <3>2. list' \in [Envelopes -> Nat] /\ lost' \subseteq Tasks
        BY <3>1, RankOrder
      <3> QED BY <2>2, <3>2 DEF PopReplyLost, Fault
    <2>3. CASE RequeueError(w)
      <3>1. held[w] \in Envelopes /\ held[w].task \in Tasks
        BY <2>3, RankOrder DEF RequeueError
      <3>2. Retried(held[w]) \in Envelopes
        BY <2>3, <3>1, RetriesLeft, RetriedEnvelope DEF RequeueError
      <3>3. sched' \subseteq Envelopes /\ due' \subseteq sched' /\ list' = list
        BY <2>3, <3>2 DEF RequeueError, ZAdd
      <3> QED BY <2>3, <3>1, <3>3 DEF RequeueError, Release, Fault
    <2>4. CASE WorkerCrash(w)
      <3>1. lost' \subseteq Tasks
        BY <2>4, RankOrder DEF WorkerCrash
      <3> QED BY <2>4, <3>1 DEF WorkerCrash, Release, Fault
    <2>5. CASE DeferralFails(w)
      <3>1. held[w] \in Envelopes /\ held[w].task \in Tasks
        BY <2>5, RankOrder DEF DeferralFails
      <3>2. Deferred(held[w]) \in Envelopes
        BY <2>5, <3>1, DeferredEnvelope DEF DeferralFails
      <3> QED BY <2>5, <3>1, <3>2 DEF DeferralFails, ZAdd, Fault
    <2> QED BY <1>4, <2>1, <2>2, <2>3, <2>4, <2>5 DEF Break
  <1>5. CASE UNCHANGED vars
    BY <1>5 DEF vars
  <1> QED BY <1>1, <1>2, <1>3, <1>4, <1>5 DEF Next

(* Every reachable state of the queue and its workers is well typed. *)
THEOREM TypeCorrect == Spec => []TypeOK
  <1>1. TypeOK /\ [Next]_vars => TypeOK'
    BY TypeNext
  <1> QED BY TypeInit, <1>1, PTL DEF Spec

-----------------------------------------------------------------------------
(* No silent loss. A step keeps the jobs if every safe copy stays safe, is *)
(* succeeded by a safe copy of at least its rank, or its job is settled;   *)
(* if what comes under removal is safe elsewhere; and if what is newly     *)
(* accepted is safe.                                                       *)
Kept ==
    \A f \in Envelopes : Safe(f) =>
        \/ Settled(f.task)'
        \/ \E g \in Envelopes : g.task = f.task /\ Safe(g)' /\ Rank(g) >= Rank(f)

NewlyRemovedSafe == \A e \in Envelopes : Removing(e)' => Removing(e) \/ Safe(e)'

NewlyAcceptedSafe == \A t \in accepted' \ accepted :
    Settled(t)' \/ \E e \in Envelopes : e.task = t /\ Safe(e)'

SettledKept == \A t \in Tasks : Settled(t) => Settled(t)'

JobsInv == DrainCovered /\ NoSilentLoss

LEMMA SafeIsLive ==
    ASSUME NEW e \in Envelopes, Safe(e)
    PROVE  Live(e.task)
  BY DEF Safe, Live

(* A live job that is not settled has a copy no removal can reach. *)
LEMMA LiveIsSafe ==
    ASSUME TypeOK, DrainCovered, NEW t \in Tasks, Live(t)
    PROVE  Settled(t) \/ \E e \in Envelopes : e.task = t /\ Safe(e)
  <1>1. PICK e \in Envelopes : e.task = t /\ (list[e] > 0 \/ e \in sched \/ InHand(e))
    BY DEF Live
  <1>2. CASE Removing(e)
    BY <1>1, <1>2 DEF DrainCovered
  <1>3. CASE ~Removing(e)
    BY <1>1, <1>3 DEF Safe
  <1> QED BY <1>2, <1>3

LEMMA JobsPreserved ==
    ASSUME TypeOK, TypeOK', JobsInv, Kept, NewlyRemovedSafe, NewlyAcceptedSafe,
           SettledKept
    PROVE  JobsInv'
  <1>1. DrainCovered'
    <2> SUFFICES ASSUME NEW e \in Envelopes, Removing(e)', ~Settled(e.task)'
                 PROVE  \E g \in Envelopes :
                           g.task = e.task /\ Safe(g)' /\ Rank(g) >= Rank(e)
      BY DEF DrainCovered, Rank
    <2>1. CASE Safe(e)'
      BY <2>1, RankOrder
    <2>2. CASE Removing(e)
      <3>1. ~Settled(e.task)
        BY RankOrder DEF SettledKept
      <3>2. PICK f \in Envelopes : f.task = e.task /\ Safe(f) /\ Rank(f) >= Rank(e)
        BY <2>2, <3>1 DEF JobsInv, DrainCovered
      <3>3. PICK g \in Envelopes : g.task = f.task /\ Safe(g)' /\ Rank(g) >= Rank(f)
        BY <3>2 DEF Kept
      <3> QED BY <3>2, <3>3, RankOrder
    <2> QED BY <2>1, <2>2 DEF NewlyRemovedSafe
  <1>2. NoSilentLoss'
    <2> SUFFICES ASSUME NEW t \in accepted', ~Settled(t)'
                 PROVE  \E g \in Envelopes : g.task = t /\ Safe(g)'
      BY SafeIsLive DEF NoSilentLoss, Safe, Live
    <2>1. CASE t \in accepted
      <3>1. t \in Tasks /\ ~Settled(t)
        BY <2>1 DEF SettledKept, TypeOK
      <3>2. Live(t)
        BY <2>1, <3>1 DEF JobsInv, NoSilentLoss
      <3>3. PICK e \in Envelopes : e.task = t /\ Safe(e)
        BY <3>1, <3>2, LiveIsSafe DEF JobsInv
      <3> QED BY <3>3 DEF Kept
    <2>2. CASE t \notin accepted
      BY <2>2 DEF NewlyAcceptedSafe
    <2> QED BY <2>1, <2>2
  <1> QED BY <1>1, <1>2 DEF JobsInv

(* The parts of the step condition that most actions satisfy at once: the  *)
(* containers only grow, no worker comes to a removal.                     *)
LEMMA Growth ==
    ASSUME TypeOK, TypeOK',
           \A e \in Envelopes : list[e] > 0 => list'[e] > 0,
           \A e \in Envelopes : InHand(e) => InHand(e)' \/ Settled(e.task)',
           sched \subseteq sched',
           \A e \in Envelopes : Removing(e)' => Removing(e)
    PROVE  Kept /\ NewlyRemovedSafe
  <1>1. \A f \in Envelopes : Safe(f) => Safe(f)' \/ Settled(f.task)'
    BY DEF Safe
  <1>2. Kept
    BY <1>1, RankOrder DEF Kept
  <1> QED BY <1>2 DEF NewlyRemovedSafe

(* A held envelope is released after a successor was scheduled. If another *)
(* worker is about to remove that very successor, DrainCovered provides a  *)
(* later one.                                                              *)
LEMMA Succession ==
    ASSUME TypeOK, TypeOK', DrainCovered, NEW w \in Workers,
           NEW h \in Envelopes, held[w] = h, NEW s \in Envelopes,
           s.task = h.task, Rank(s) > Rank(h),
           list' = list, sched' = sched \cup {s},
           held' = [held EXCEPT ![w] = NoTask],
           \A e \in Envelopes : Removing(e)' => Removing(e),
           SettledKept
    PROVE  Kept /\ NewlyRemovedSafe
  <1>1. \A f \in Envelopes : f # h /\ Safe(f) => Safe(f)'
    <2> SUFFICES ASSUME NEW f \in Envelopes, f # h, Safe(f) PROVE Safe(f)'
      OBVIOUS
    <2>1. CASE list[f] > 0
      BY <2>1 DEF Safe
    <2>2. CASE InHand(f)
      <3>1. PICK v \in Workers : held[v] = f
        BY <2>2 DEF InHand
      <3>2. held'[v] = f
        BY <3>1 DEF TypeOK
      <3> QED BY <3>2 DEF Safe, InHand
    <2>3. CASE f \in sched /\ ~Removing(f)
      BY <2>3 DEF Safe
    <2> QED BY <2>1, <2>2, <2>3 DEF Safe
  <1>2. \/ Settled(h.task)'
        \/ \E g \in Envelopes :
              g.task = h.task /\ Safe(g)' /\ Rank(g) >= Rank(h)
    <2>1. CASE Removing(s)
      <3>1. CASE Settled(s.task)
        <4>1. Settled(s.task)'
          BY <3>1, RankOrder DEF SettledKept
        <4> QED BY <4>1
      <3>2. CASE ~Settled(s.task)
        <4>1. PICK g \in Envelopes : g.task = s.task /\ Safe(g) /\ Rank(g) >= Rank(s)
          BY <2>1, <3>2 DEF DrainCovered
        <4>2. g # h /\ Rank(g) >= Rank(h)
          BY <4>1, RankOrder
        <4>3. Safe(g)'
          BY <1>1, <4>1, <4>2
        <4> QED BY <4>1, <4>2, <4>3
      <3> QED BY <3>1, <3>2
    <2>2. CASE ~Removing(s)
      <3>1. Safe(s)'
        BY <2>2 DEF Safe
      <3> QED BY <3>1, RankOrder
    <2> QED BY <2>1, <2>2
  <1>3. Kept
    <2> SUFFICES ASSUME NEW f \in Envelopes, Safe(f)
                 PROVE  \/ Settled(f.task)'
                        \/ \E g \in Envelopes :
                              g.task = f.task /\ Safe(g)' /\ Rank(g) >= Rank(f)
      BY DEF Kept
    <2>1. CASE f = h
      BY <1>2, <2>1
    <2>2. CASE f # h
      <3>1. Safe(f)' /\ Rank(f) >= Rank(f)
        BY <1>1, <2>2, RankOrder
      <3> QED BY <3>1
    <2> QED BY <2>1, <2>2
  <1> QED BY <1>3 DEF NewlyRemovedSafe

LEMMA JobsInit == Init => JobsInv
  BY DEF Init, JobsInv, DrainCovered, NoSilentLoss, Removing

LEMMA JobsProduce ==
    ASSUME TypeOK, TypeOK', JobsInv, NEW t \in Tasks, Produce(t)
    PROVE  JobsInv'
  <1> USE DEF TypeOK, redis, history
  <1>1. CASE EnqueueTask(t)
    <2>1. /\ \A e \in Envelopes : list[e] > 0 => list'[e] > 0
          /\ list'[Fresh(t)] > 0
      BY <1>1, FreshEnvelope DEF EnqueueTask, LPush
    <2>2. Kept /\ NewlyRemovedSafe
      BY <1>1, <2>1, Growth DEF EnqueueTask, InHand, Removing
    <2>3. NewlyAcceptedSafe
      BY <1>1, <2>1, FreshEnvelope DEF EnqueueTask, NewlyAcceptedSafe, Safe
    <2>4. SettledKept
      BY <1>1 DEF EnqueueTask, SettledKept, Settled
    <2> QED BY <2>2, <2>3, <2>4, JobsPreserved
  <1>2. CASE EnqueueWithDelay(t)
    <2>1. Kept /\ NewlyRemovedSafe
      BY <1>2, Growth DEF EnqueueWithDelay, ZAdd, InHand, Removing
    <2>2. SettledKept
      BY <1>2 DEF EnqueueWithDelay, SettledKept, Settled
    <2>3. NewlyAcceptedSafe
      <3>1. accepted' \ accepted = {t}
        BY <1>2 DEF EnqueueWithDelay, Unsubmitted
      <3>2. CASE ~Removing(Fresh(t))
        BY <1>2, <3>1, <3>2, FreshEnvelope
           DEF EnqueueWithDelay, ZAdd, NewlyAcceptedSafe, Safe, Removing
      <3>3. CASE Removing(Fresh(t))
        <4>1. Settled(t) \/ \E f \in Envelopes : f.task = t /\ Safe(f)
          BY <3>3, FreshEnvelope DEF JobsInv, DrainCovered
        <4>2. Settled(t)' \/ \E f \in Envelopes : f.task = t /\ Safe(f)'
          BY <2>1, <2>2, <4>1 DEF SettledKept, Kept
        <4> QED BY <3>1, <4>2 DEF NewlyAcceptedSafe
      <3> QED BY <3>2, <3>3
    <2> QED BY <2>1, <2>2, <2>3, JobsPreserved
  <1>3. CASE EnqueueFails(t)
    <2>1. \A e \in Envelopes : list[e] > 0 => list'[e] > 0
      BY <1>3 DEF EnqueueFails, LPush
    <2>2. sched \subseteq sched'
      BY <1>3 DEF EnqueueFails, ZAdd
    <2>3. Kept /\ NewlyRemovedSafe
      BY <1>3, <2>1, <2>2, Growth DEF EnqueueFails, InHand, Removing
    <2>4. NewlyAcceptedSafe /\ SettledKept
      BY <1>3 DEF EnqueueFails, NewlyAcceptedSafe, SettledKept, Settled
    <2> QED BY <2>3, <2>4, JobsPreserved
  <1> QED BY <1>1, <1>2, <1>3 DEF Produce

LEMMA JobsWork ==
    ASSUME TypeOK, TypeOK', JobsInv, NEW w \in Workers, Work(w)
    PROVE  JobsInv'
  <1> USE DEF TypeOK, redis, history
  <1>0. NewlyAcceptedSafe /\ SettledKept
    BY DEF Work, DrainRead, DrainPush, DrainRemove, Pop, PopTimeout,
           HandlerSucceeds, HandlerDefers, HandlerFails, RequeueIfFailed, Exhausted,
           NewlyAcceptedSafe, SettledKept, Settled
  <1> SUFFICES Kept /\ NewlyRemovedSafe
    BY <1>0, JobsPreserved
  <1>1. CASE DrainRead(w)
    BY <1>1, Growth DEF DrainRead, InHand, Removing
  <1>2. CASE DrainPush(w)
    <2>1. \A e \in Envelopes : /\ list[e] > 0 => list'[e] > 0
                               /\ e \in batch[w] => list'[e] > 0
      BY <1>2 DEF DrainPush, LPush
    <2>2. \A e \in Envelopes : Removing(e)' => Removing(e) \/ e \in batch[w]
      BY <1>2 DEF DrainPush, Removing
    <2>3. \A e \in Envelopes : InHand(e)' <=> InHand(e)
      BY <1>2 DEF DrainPush, InHand
    <2>4. \A f \in Envelopes : Safe(f) => Safe(f)'
      <3> SUFFICES ASSUME NEW f \in Envelopes, Safe(f) PROVE Safe(f)'
        OBVIOUS
      <3>1. CASE list[f] > 0 \/ InHand(f)
        BY <2>1, <2>3, <3>1 DEF Safe
      <3>2. CASE f \in sched /\ ~Removing(f) /\ f \in batch[w]
        BY <2>1, <3>2 DEF Safe
      <3>3. CASE f \in sched /\ ~Removing(f) /\ f \notin batch[w]
        BY <1>2, <2>2, <3>3 DEF DrainPush, Safe
      <3> QED BY <3>1, <3>2, <3>3 DEF Safe
    <2>5. Kept
      BY <2>4, RankOrder DEF Kept
    <2>6. ASSUME NEW e \in Envelopes, e \in batch[w] PROVE Safe(e)'
      BY <2>1, <2>6 DEF Safe
    <2> QED BY <2>2, <2>5, <2>6 DEF NewlyRemovedSafe
  <1>3. CASE DrainRemove(w)
    <2>1. \A e \in Envelopes : /\ Removing(e)' => Removing(e)
                               /\ e \in batch[w] => Removing(e)
      BY <1>3 DEF DrainRemove, Removing
    <2>2. \A e \in Envelopes : InHand(e)' <=> InHand(e)
      BY <1>3 DEF DrainRemove, InHand
    <2>3. \A f \in Envelopes : Safe(f) => Safe(f)'
      <3> SUFFICES ASSUME NEW f \in Envelopes, Safe(f) PROVE Safe(f)'
        OBVIOUS
      <3>1. CASE list[f] > 0 \/ InHand(f)
        BY <1>3, <2>2, <3>1 DEF DrainRemove, Safe
      <3>2. CASE f \in sched /\ ~Removing(f)
        BY <1>3, <2>1, <3>2 DEF DrainRemove, ZRem, Safe
      <3> QED BY <3>1, <3>2 DEF Safe
    <2>4. Kept
      BY <2>3, RankOrder DEF Kept
    <2>5. \A e \in Envelopes : Removing(e)' => Removing(e)
      BY <2>1
    <2> QED BY <2>4, <2>5 DEF NewlyRemovedSafe
  <1>4. CASE Pop(w)
    <2>1. PICK e \in Envelopes :
             /\ list[e] > 0
             /\ list' = [list EXCEPT ![e] = @ - 1]
             /\ IF e.task \in Unhandled
                THEN /\ dropped' = dropped \cup {e.task}
                     /\ pc' = [pc EXCEPT ![w] = "drain"]
                     /\ UNCHANGED held
                ELSE /\ held' = [held EXCEPT ![w] = e]
                     /\ pc' = [pc EXCEPT ![w] = "run"]
                     /\ UNCHANGED dropped
      BY <1>4 DEF Pop
    <2>2. \A f \in Envelopes : Removing(f)' <=> Removing(f)
      BY <1>4, <2>1 DEF Pop, Removing
    <2>3. \A f \in Envelopes : InHand(f) => InHand(f)'
      BY <1>4, <2>1 DEF Pop, InHand
    <2>4. Settled(e.task)' \/ InHand(e)'
      BY <2>1 DEF Settled, InHand
    <2>5. \A f \in Envelopes : Safe(f) => Settled(f.task)' \/ Safe(f)'
      BY <1>4, <2>1, <2>2, <2>3, <2>4 DEF Pop, Safe
    <2>6. Kept
      BY <2>5, RankOrder DEF Kept
    <2> QED BY <2>2, <2>6 DEF NewlyRemovedSafe
  <1>5. CASE PopTimeout(w)
    BY <1>5, Growth DEF PopTimeout, InHand, Removing
  <1>6. CASE HandlerSucceeds(w)
    <2>1. \A f \in Envelopes : InHand(f) => InHand(f)' \/ Settled(f.task)'
      BY <1>6 DEF HandlerSucceeds, Release, InHand, Settled
    <2>2. \A f \in Envelopes : Removing(f)' => Removing(f)
      BY <1>6 DEF HandlerSucceeds, Release, Removing
    <2> QED BY <1>6, <2>1, <2>2, Growth DEF HandlerSucceeds
  <1>7. CASE HandlerDefers(w)
    <2>1. held[w] \in Envelopes
      BY <1>7 DEF HandlerDefers
    <2>2. \A f \in Envelopes : Removing(f)' => Removing(f)
      BY <1>7 DEF HandlerDefers, Release, Removing
    <2>3. /\ held[w].defers < MaxDefers
          /\ list' = list
          /\ sched' = sched \cup {Deferred(held[w])}
          /\ held' = [held EXCEPT ![w] = NoTask]
      BY <1>7 DEF HandlerDefers, ZAdd, Release
    <2> QED BY <1>0, <2>1, <2>2, <2>3, DeferredEnvelope, Succession DEF JobsInv
  <1>8. CASE HandlerFails(w)
    BY <1>8, Growth DEF HandlerFails, InHand, Removing
  <1>9. CASE RequeueIfFailed(w)
    <2>1. held[w] \in Envelopes /\ held[w].attempts \in Nat
      BY <1>9, RankOrder DEF RequeueIfFailed, Exhausted
    <2>2. \A f \in Envelopes : Removing(f)' => Removing(f)
      BY <1>9 DEF RequeueIfFailed, Exhausted, Release, Removing
    <2>3. CASE held[w].attempts + 1 > MaxRetries
      <3>1. \A f \in Envelopes : InHand(f) => InHand(f)' \/ Settled(f.task)'
        BY <1>9, <2>1, <2>3 DEF RequeueIfFailed, Exhausted, Release, InHand, Settled
      <3> QED BY <1>9, <2>2, <2>3, <3>1, Growth DEF RequeueIfFailed, Exhausted
    <2>4. CASE held[w].attempts + 1 <= MaxRetries
      <3>1. /\ list' = list
            /\ sched' = sched \cup {Retried(held[w])}
            /\ held' = [held EXCEPT ![w] = NoTask]
        BY <1>9, <2>1, <2>4 DEF RequeueIfFailed, Exhausted, ZAdd, Release
      <3> QED BY <1>0, <2>1, <2>2, <2>4, <3>1, RetriedEnvelope, Succession
              DEF JobsInv
    <2> QED BY <2>1, <2>3, <2>4
  <1> QED BY <1>1, <1>2, <1>3, <1>4, <1>5, <1>6, <1>7, <1>8, <1>9 DEF Work

LEMMA JobsBreak ==
    ASSUME TypeOK, TypeOK', JobsInv, NEW w \in Workers, Break(w)
    PROVE  JobsInv'
  <1> USE DEF TypeOK, redis, history
  <1>0. NewlyAcceptedSafe /\ SettledKept
    BY DEF Break, DequeueError, PopReplyLost, DeferralFails, RequeueError, WorkerCrash,
           NewlyAcceptedSafe, SettledKept, Settled
  <1> SUFFICES Kept /\ NewlyRemovedSafe
    BY <1>0, JobsPreserved
  <1>1. CASE DequeueError(w)
    <2>1. \A e \in Envelopes : list[e] > 0 => list'[e] > 0
      BY <1>1 DEF DequeueError, LPush
    <2> QED BY <1>1, <2>1, Growth DEF DequeueError, InHand, Removing
  <1>2. CASE PopReplyLost(w)
    <2>1. PICK e \in Envelopes : /\ list[e] > 0
                                 /\ list' = [list EXCEPT ![e] = @ - 1]
                                 /\ lost' = lost \cup {e.task}
      BY <1>2 DEF PopReplyLost
    <2>2. \A f \in Envelopes : (Removing(f)' => Removing(f)) /\ (InHand(f)' <=> InHand(f))
      BY <1>2 DEF PopReplyLost, Removing, InHand
    <2>3. \A f \in Envelopes : Safe(f) => Settled(f.task)' \/ Safe(f)'
      BY <1>2, <2>1, <2>2 DEF PopReplyLost, Safe, Settled
    <2>4. Kept
      BY <2>3, RankOrder DEF Kept
    <2> QED BY <2>2, <2>4 DEF NewlyRemovedSafe
  <1>3. CASE RequeueError(w)
    <2>1. \A f \in Envelopes : InHand(f) => InHand(f)' \/ Settled(f.task)'
      BY <1>3 DEF RequeueError, Release, InHand, Settled
    <2>2. \A f \in Envelopes : Removing(f)' => Removing(f)
      BY <1>3 DEF RequeueError, Release, Removing
    <2>3. sched \subseteq sched' /\ list' = list
      BY <1>3 DEF RequeueError, ZAdd
    <2> QED BY <2>1, <2>2, <2>3, Growth
  <1>4. CASE WorkerCrash(w)
    <2>1. \A f \in Envelopes : InHand(f) => InHand(f)' \/ Settled(f.task)'
      BY <1>4 DEF WorkerCrash, Release, InHand, Settled
    <2>2. \A f \in Envelopes : Removing(f)' => Removing(f)
      BY <1>4 DEF WorkerCrash, Release, Removing
    <2> QED BY <1>4, <2>1, <2>2, Growth DEF WorkerCrash
  <1>5. CASE DeferralFails(w)
    BY <1>5, Growth DEF DeferralFails, ZAdd, InHand, Removing
  <1> QED BY <1>1, <1>2, <1>3, <1>4, <1>5 DEF Break

LEMMA JobsNext == TypeOK /\ TypeOK' /\ JobsInv /\ [Next]_vars => JobsInv'
  <1> SUFFICES ASSUME TypeOK, TypeOK', JobsInv, [Next]_vars PROVE JobsInv'
    OBVIOUS
  <1>1. CASE BecomeDue
    <2>1. Kept /\ NewlyRemovedSafe
      BY <1>1, Growth DEF BecomeDue, InHand, Removing
    <2>2. NewlyAcceptedSafe /\ SettledKept
      BY <1>1 DEF BecomeDue, history, NewlyAcceptedSafe, SettledKept, Settled
    <2> QED BY <2>1, <2>2, JobsPreserved
  <1>2. CASE UNCHANGED vars
    BY <1>2 DEF vars, JobsInv, DrainCovered, NoSilentLoss, Removing, Safe,
                InHand, Live, Settled, Rank
  <1> QED BY <1>1, <1>2, JobsProduce, JobsWork, JobsBreak DEF Next

(* However many workers drain the same envelopes, and wherever a crash or  *)
(* a Redis error cuts the three commands of a drain short, what is about   *)
(* to be removed from the sorted set lives on elsewhere.                   *)
THEOREM DrainIsCovered == Spec => []DrainCovered
  <1>1. TypeOK /\ JobsInv /\ [Next]_vars => TypeOK' /\ JobsInv'
    BY TypeNext, JobsNext
  <1>2. JobsInv => DrainCovered
    BY DEF JobsInv
  <1> QED BY TypeInit, JobsInit, <1>1, <1>2, PTL DEF Spec

(* No accepted job disappears without being completed, given up, or in the *)
(* hands of a worker hit by a fault.                                       *)
THEOREM AcceptedJobsSurvive == Spec => []NoSilentLoss
  <1>1. TypeOK /\ JobsInv /\ [Next]_vars => TypeOK' /\ JobsInv'
    BY TypeNext, JobsNext
  <1>2. JobsInv => NoSilentLoss
    BY DEF JobsInv
  <1> QED BY TypeInit, JobsInit, <1>1, <1>2, PTL DEF Spec

-----------------------------------------------------------------------------
(* The retry cap. A copy's attempts never exceed the failures of its job,  *)
(* so a job is given up only when its handler used up every retry.         *)
Known(e) == \/ list[e] > 0 \/ e \in sched \/ InHand(e)
            \/ \E w \in Workers : e \in batch[w]

RetryInv == AttemptsCounted /\ DroppedOnlyWhenExhausted

LEMMA CountedMeans == AttemptsCounted <=>
    /\ \A e \in Envelopes : Known(e) => e.attempts <= failures[e.task]
    /\ \A w \in Workers :
        pc[w] = "failed" => held[w].attempts + 1 <= failures[held[w].task]
  BY DEF AttemptsCounted, Known

(* A step that learns of no new envelope, of none in the failed state, and *)
(* forgets no failure keeps the count.                                     *)
LEMMA CountKept ==
    ASSUME TypeOK, TypeOK', AttemptsCounted,
           \A e \in Envelopes : Known(e)' => Known(e) \/ e.attempts <= failures[e.task],
           failures' = failures,
           \A w \in Workers : pc'[w] = "failed" => pc[w] = "failed" /\ held'[w] = held[w]
    PROVE  AttemptsCounted'
  <1>1. \A e \in Envelopes : Known(e)' => e.attempts <= failures'[e.task]
    BY CountedMeans
  <1>2. \A w \in Workers :
          pc'[w] = "failed" => held'[w].attempts + 1 <= failures'[held'[w].task]
    BY CountedMeans
  <1> QED BY <1>1, <1>2 DEF AttemptsCounted, Known

LEMMA RetryInit == Init => RetryInv
  BY DEF Init, RetryInv, AttemptsCounted, DroppedOnlyWhenExhausted, InHand

(* A handler raises. *)
LEMMA CountRaised ==
    ASSUME TypeOK, TypeOK', RetryInv, NEW w \in Workers, pc[w] = "run",
           failures' = [failures EXCEPT ![held[w].task] = @ + 1],
           pc' = [pc EXCEPT ![w] = "failed"], UNCHANGED <<held, dropped>>,
           \A e \in Envelopes : Known(e)' => Known(e) \/ e.attempts <= failures[e.task]
    PROVE  RetryInv'
  <1> USE DEF TypeOK, RetryInv
  <1>1. held[w] \in Envelopes /\ Known(held[w]) /\ held[w].task \in Tasks
    BY RankOrder DEF Known, InHand
  <1>2. held[w].attempts <= failures[held[w].task] /\ held[w].attempts \in Nat
    BY <1>1, CountedMeans, RankOrder
  <1>3. /\ failures'[held[w].task] = failures[held[w].task] + 1
        /\ \A u \in Tasks : failures'[u] >= failures[u]
    BY <1>1
  <1>4. \A e \in Envelopes : Known(e)' => e.attempts <= failures'[e.task]
    <2> SUFFICES ASSUME NEW e \in Envelopes, Known(e)'
                 PROVE  e.attempts <= failures'[e.task]
      OBVIOUS
    <2>1. e.attempts <= failures[e.task]
      BY CountedMeans
    <2> QED BY <1>3, <2>1, RankOrder
  <1>5. ASSUME NEW v \in Workers, pc'[v] = "failed"
        PROVE  held'[v].attempts + 1 <= failures'[held'[v].task]
    <2>1. CASE v = w
      BY <1>1, <1>2, <1>3, <2>1
    <2>2. CASE v # w
      <3>1. pc[v] = "failed"
        BY <1>5, <2>2
      <3>2. held[v].attempts + 1 <= failures[held[v].task]
        BY <3>1, CountedMeans
      <3>3. held[v] \in Envelopes
        BY <3>1
      <3> QED BY <1>3, <3>2, <3>3, RankOrder
    <2> QED BY <2>1, <2>2
  <1>6. AttemptsCounted'
    BY <1>4, <1>5 DEF AttemptsCounted, Known
  <1>7. DroppedOnlyWhenExhausted'
    BY <1>3 DEF DroppedOnlyWhenExhausted
  <1> QED BY <1>6, <1>7

LEMMA RetryNext == TypeOK /\ TypeOK' /\ RetryInv /\ [Next]_vars => RetryInv'
  <1> SUFFICES ASSUME TypeOK, TypeOK', RetryInv, [Next]_vars PROVE RetryInv'
    OBVIOUS
  <1> USE DEF TypeOK, RetryInv, redis, history
  <1>a. ASSUME AttemptsCounted', dropped' \subseteq dropped \cup Unhandled,
               failures' = failures
        PROVE  RetryInv'
    BY <1>a DEF DroppedOnlyWhenExhausted
  <1>1. CASE BecomeDue \/ UNCHANGED vars
    <2>1. AttemptsCounted'
      BY <1>1, CountKept DEF BecomeDue, vars, Known, InHand
    <2> QED BY <1>1, <1>a, <2>1 DEF BecomeDue, vars
  <1>2. ASSUME NEW t \in Tasks, Produce(t) PROVE RetryInv'
    <2>1. Fresh(t).attempts <= failures[Fresh(t).task]
      BY FreshEnvelope
    <2>2. \A e \in Envelopes : list'[e] > 0 => list[e] > 0 \/ e = Fresh(t)
      BY <1>2 DEF Produce, EnqueueTask, EnqueueWithDelay, EnqueueFails, LPush
    <2>3. sched' \subseteq sched \cup {Fresh(t)}
      BY <1>2 DEF Produce, EnqueueTask, EnqueueWithDelay, EnqueueFails, ZAdd
    <2>4. UNCHANGED <<pc, batch, held, dropped, failures>>
      BY <1>2 DEF Produce, EnqueueTask, EnqueueWithDelay, EnqueueFails
    <2>5. AttemptsCounted'
      BY <2>1, <2>2, <2>3, <2>4, CountKept DEF Known, InHand
    <2> QED BY <1>a, <2>4, <2>5
  <1>3. ASSUME NEW w \in Workers, Work(w) PROVE RetryInv'
    <2>1. CASE DrainRead(w)
      <3>1. AttemptsCounted'
        BY <2>1, CountKept DEF DrainRead, Known, InHand
      <3> QED BY <1>a, <2>1, <3>1 DEF DrainRead
    <2>2. CASE DrainPush(w)
      <3>1. AttemptsCounted'
        BY <2>2, CountKept DEF DrainPush, LPush, Known, InHand
      <3> QED BY <1>a, <2>2, <3>1 DEF DrainPush
    <2>3. CASE DrainRemove(w)
      <3>1. AttemptsCounted'
        BY <2>3, CountKept DEF DrainRemove, ZRem, Known, InHand
      <3> QED BY <1>a, <2>3, <3>1 DEF DrainRemove
    <2>4. CASE Pop(w)
      <3>1. PICK e \in Envelopes :
               /\ list[e] > 0
               /\ list' = [list EXCEPT ![e] = @ - 1]
               /\ IF e.task \in Unhandled
                  THEN /\ dropped' = dropped \cup {e.task}
                       /\ pc' = [pc EXCEPT ![w] = "drain"]
                       /\ UNCHANGED held
                  ELSE /\ held' = [held EXCEPT ![w] = e]
                       /\ pc' = [pc EXCEPT ![w] = "run"]
                       /\ UNCHANGED dropped
        BY <2>4 DEF Pop
      <3>2. \A f \in Envelopes : list'[f] > 0 => list[f] > 0
        BY <3>1
      <3>3. \A f \in Envelopes : InHand(f)' => InHand(f) \/ list[f] > 0
        BY <3>1 DEF InHand
      <3>4. \A f \in Envelopes : Known(f)' => Known(f)
        BY <2>4, <3>2, <3>3 DEF Pop, Known
      <3>5. \A v \in Workers : pc'[v] = "failed" => pc[v] = "failed" /\ held'[v] = held[v]
        BY <3>1
      <3>6. AttemptsCounted'
        BY <2>4, <3>4, <3>5, CountKept DEF Pop
      <3> QED BY <1>a, <2>4, <3>1, <3>6 DEF Pop
    <2>5. CASE PopTimeout(w)
      <3>1. AttemptsCounted'
        BY <2>5, CountKept DEF PopTimeout, Known, InHand
      <3> QED BY <1>a, <2>5, <3>1 DEF PopTimeout
    <2>6. CASE HandlerSucceeds(w)
      <3>1. AttemptsCounted'
        BY <2>6, CountKept DEF HandlerSucceeds, Release, Known, InHand
      <3> QED BY <1>a, <2>6, <3>1 DEF HandlerSucceeds
    <2>7. CASE HandlerDefers(w)
      <3>1. held[w] \in Envelopes /\ Known(held[w])
        BY <2>7 DEF HandlerDefers, Known, InHand
      <3>2. /\ Deferred(held[w]) \in Envelopes
            /\ Deferred(held[w]).attempts <= failures[Deferred(held[w]).task]
        BY <2>7, <3>1, DeferredEnvelope, CountedMeans DEF HandlerDefers
      <3>3. \A e \in Envelopes : Known(e)' => Known(e) \/ e = Deferred(held[w])
        BY <2>7 DEF HandlerDefers, ZAdd, Release, Known, InHand
      <3>4. AttemptsCounted'
        BY <2>7, <3>2, <3>3, CountKept DEF HandlerDefers, Release
      <3> QED BY <1>a, <2>7, <3>4 DEF HandlerDefers
    <2>8. CASE HandlerFails(w)
      <3>1. \A e \in Envelopes : Known(e)' => Known(e)
        BY <2>8 DEF HandlerFails, Known, InHand
      <3> QED BY <2>8, <3>1, CountRaised DEF HandlerFails
    <2>9. CASE RequeueIfFailed(w)
      <3>1. held[w] \in Envelopes /\ held[w].attempts \in Nat /\ held[w].task \in Tasks
        BY <2>9, RankOrder DEF RequeueIfFailed, Exhausted
      <3>2. held[w].attempts + 1 <= failures[held[w].task]
        BY <2>9, CountedMeans DEF RequeueIfFailed, Exhausted
      <3>3. \A v \in Workers : pc'[v] = "failed" => pc[v] = "failed" /\ held'[v] = held[v]
        BY <2>9 DEF RequeueIfFailed, Exhausted, Release
      <3>4. CASE held[w].attempts + 1 > MaxRetries
        <4>1. \A e \in Envelopes : Known(e)' => Known(e)
          BY <2>9, <3>1, <3>4 DEF RequeueIfFailed, Exhausted, Release, Known, InHand
        <4>2. AttemptsCounted'
          BY <2>9, <3>3, <4>1, CountKept DEF RequeueIfFailed, Exhausted
        <4>3. DroppedOnlyWhenExhausted'
          BY <2>9, <3>1, <3>2, <3>4 DEF RequeueIfFailed, Exhausted, DroppedOnlyWhenExhausted
        <4> QED BY <4>2, <4>3
      <3>5. CASE held[w].attempts + 1 <= MaxRetries
        <4>1. /\ Retried(held[w]) \in Envelopes
              /\ Retried(held[w]).attempts <= failures[Retried(held[w]).task]
          BY <3>1, <3>2, <3>5, RetriedEnvelope
        <4>2. \A e \in Envelopes : Known(e)' => Known(e) \/ e = Retried(held[w])
          BY <2>9, <3>1, <3>5 DEF RequeueIfFailed, Exhausted, ZAdd, Release, Known, InHand
        <4>3. AttemptsCounted'
          BY <2>9, <3>3, <4>1, <4>2, CountKept DEF RequeueIfFailed, Exhausted
        <4>4. dropped' = dropped
          BY <2>9, <3>1, <3>5 DEF RequeueIfFailed, Exhausted
        <4> QED BY <1>a, <2>9, <4>3, <4>4 DEF RequeueIfFailed, Exhausted
      <3> QED BY <3>1, <3>4, <3>5
    <2> QED BY <1>3, <2>1, <2>2, <2>3, <2>4, <2>5, <2>6, <2>7, <2>8, <2>9 DEF Work
  <1>4. ASSUME NEW w \in Workers, Break(w) PROVE RetryInv'
    <2>1. CASE DequeueError(w)
      <3>1. AttemptsCounted'
        BY <2>1, CountKept DEF DequeueError, LPush, Known, InHand
      <3> QED BY <1>a, <2>1, <3>1 DEF DequeueError
    <2>2. CASE PopReplyLost(w)
      <3>1. \A e \in Envelopes : Known(e)' => Known(e)
        BY <2>2 DEF PopReplyLost, Known, InHand
      <3>2. AttemptsCounted'
        BY <2>2, <3>1, CountKept DEF PopReplyLost
      <3> QED BY <1>a, <2>2, <3>2 DEF PopReplyLost
    <2>3. CASE RequeueError(w)
      <3>1. held[w] \in Envelopes /\ held[w].attempts + 1 <= MaxRetries
        <4>1. held[w] \in Envelopes
          BY <2>3 DEF RequeueError
        <4> QED BY <2>3, <4>1, RetriesLeft DEF RequeueError
      <3>2. held[w].attempts + 1 <= failures[held[w].task]
        BY <2>3, CountedMeans DEF RequeueError
      <3>3. /\ Retried(held[w]) \in Envelopes
            /\ Retried(held[w]).attempts <= failures[Retried(held[w]).task]
        BY <3>1, <3>2, RetriedEnvelope
      <3>4. \A e \in Envelopes : Known(e)' => Known(e) \/ e = Retried(held[w])
        BY <2>3 DEF RequeueError, ZAdd, Release, Known, InHand
      <3>5. AttemptsCounted'
        BY <2>3, <3>3, <3>4, CountKept DEF RequeueError, Release
      <3> QED BY <1>a, <2>3, <3>5 DEF RequeueError
    <2>4. CASE WorkerCrash(w)
      <3>1. AttemptsCounted'
        BY <2>4, CountKept DEF WorkerCrash, Release, Known, InHand
      <3> QED BY <1>a, <2>4, <3>1 DEF WorkerCrash
    <2>5. CASE DeferralFails(w)
      <3>1. held[w] \in Envelopes /\ Known(held[w])
        BY <2>5 DEF DeferralFails, Known, InHand
      <3>2. /\ Deferred(held[w]) \in Envelopes
            /\ Deferred(held[w]).attempts <= failures[Deferred(held[w]).task]
        BY <2>5, <3>1, DeferredEnvelope, CountedMeans DEF DeferralFails
      <3>3. \A e \in Envelopes : Known(e)' => Known(e) \/ e = Deferred(held[w])
        BY <2>5 DEF DeferralFails, ZAdd, Known, InHand
      <3> QED BY <2>5, <3>2, <3>3, CountRaised DEF DeferralFails
    <2> QED BY <1>4, <2>1, <2>2, <2>3, <2>4, <2>5 DEF Break
  <1> QED BY <1>1, <1>2, <1>3, <1>4 DEF Next

(* A job with a handler is given up only after MaxRetries + 1 failures,    *)
(* however many duplicates of it the drain made.                           *)
THEOREM RetriesAreUsedUp == Spec => []DroppedOnlyWhenExhausted
  <1>1. TypeOK /\ RetryInv /\ [Next]_vars => TypeOK' /\ RetryInv'
    BY TypeNext, RetryNext
  <1>2. RetryInv => DroppedOnlyWhenExhausted
    BY DEF RetryInv
  <1> QED BY TypeInit, RetryInit, <1>1, <1>2, PTL DEF Spec

(* Every copy of a job knows of no more attempts than its handler failed,  *)
(* in whatever list, set, batch or hand it is.                             *)
THEOREM AttemptsAreCounted == Spec => []AttemptsCounted
  <1>1. TypeOK /\ RetryInv /\ [Next]_vars => TypeOK' /\ RetryInv'
    BY TypeNext, RetryNext
  <1>2. RetryInv => AttemptsCounted
    BY DEF RetryInv
  <1> QED BY TypeInit, RetryInit, <1>1, <1>2, PTL DEF Spec

-----------------------------------------------------------------------------
(* One worker without faults: a job has one copy. Only between the LPUSH   *)
(* and the ZREM of a drain is it in the list and in the sorted set at once, *)
(* and then the worker does not pop.                                       *)
OneWorker == \A v, w \in Workers : v = w

Here(e) == list[e] > 0 \/ e \in sched \/ InHand(e)

FailedOnce(e) == \E w \in Workers : pc[w] = "failed" /\ held[w] = e

Alone(e) ==
    /\ \A f \in Envelopes : f.task = e.task /\ Here(f) => f = e
    /\ list[e] <= 1
    /\ list[e] > 0 /\ e \in sched => Removing(e)
    /\ InHand(e) => list[e] = 0 /\ e \notin sched
    /\ e.task \in accepted /\ e.task \notin done \cup dropped
    /\ failures[e.task] <= e.attempts + (IF FailedOnce(e) THEN 1 ELSE 0)

DrainOK(w) ==
    /\ pc[w] \in {"push", "remove"} => batch[w] \subseteq sched
    /\ pc[w] = "remove" => \A e \in batch[w] : list[e] > 0

NewJobs == \A t \in Tasks : Unsubmitted(t) => failures[t] = 0 /\ t \notin done \cup dropped

SingleInv ==
    /\ \A e \in Envelopes : Here(e) => Alone(e)
    /\ \A w \in Workers : DrainOK(w)
    /\ NewJobs

LEMMA SingleInit == Init => SingleInv
  BY DEF Init, SingleInv, Here, DrainOK, NewJobs, InHand

LEMMA NoFault ==
    ASSUME TypeOK, MaxFaults = 0
    PROVE  ~Fault
  BY DEF TypeOK, Fault

LEMMA SingleProduce ==
    ASSUME TypeOK, TypeOK', SingleInv, MaxFaults = 0, NEW t \in Tasks, Produce(t)
    PROVE  SingleInv'
  <1> DEFINE new == Fresh(t)
  <1>1. new \in Envelopes /\ new.task = t /\ new.attempts = 0
    BY FreshEnvelope
  <1>2. /\ t \notin accepted /\ t \notin done \cup dropped /\ failures[t] = 0
        /\ accepted' = accepted \cup {t}
        /\ UNCHANGED <<pc, batch, held, refused, done, dropped, failures>>
        /\ \/ LPush({new}) /\ sched' = sched
           \/ list' = list /\ sched' = sched \cup {new}
    BY NoFault DEF Produce, EnqueueTask, EnqueueWithDelay, EnqueueFails, Unsubmitted, SingleInv,
                   NewJobs, ZAdd
  <1> HIDE DEF new
  <1>3. ~Here(new) /\ \A e \in Envelopes : Here(e) => e.task # t
    BY <1>1, <1>2 DEF SingleInv, Alone
  <1>4. /\ \A e \in Envelopes \ {new} : list'[e] = list[e] /\ (e \in sched' <=> e \in sched)
        /\ \/ list'[new] = 1 /\ new \notin sched'
           \/ list'[new] = 0 /\ new \in sched'
    BY <1>1, <1>2, <1>3 DEF TypeOK, LPush, Here
  <1>5. \A e \in Envelopes : /\ InHand(e)' = InHand(e) /\ Removing(e)' = Removing(e)
                            /\ FailedOnce(e)' = FailedOnce(e)
    BY <1>2 DEF InHand, Removing, FailedOnce
  <1>6. \A e \in Envelopes : Here(e)' <=> Here(e) \/ e = new
    BY <1>1, <1>3, <1>4, <1>5 DEF Here
  <1>7. ASSUME NEW e \in Envelopes, Here(e)' PROVE Alone(e)'
    <2>1. CASE e = new
      <3>1. \A f \in Envelopes : f.task = e.task /\ Here(f)' => f = e
        BY <1>1, <1>3, <1>6, <2>1
      <3>2. ~InHand(e)'
        BY <1>3, <1>5, <2>1 DEF Here
      <3>3. failures'[e.task] <= e.attempts
        BY <1>1, <1>2, <2>1
      <3>4. e.attempts \in Int /\ failures'[e.task] \in Int
        BY RankOrder DEF TypeOK
      <3> QED BY <1>1, <1>2, <1>4, <2>1, <3>1, <3>2, <3>3, <3>4 DEF Alone
    <2>2. CASE e # new
      <3>1. Here(e) /\ Alone(e) /\ e.task # t
        BY <1>3, <1>6, <1>7, <2>2 DEF SingleInv
      <3>2. \A f \in Envelopes : f.task = e.task /\ Here(f)' => f = e
        BY <1>1, <1>6, <3>1 DEF Alone
      <3>3. list'[e] = list[e] /\ (e \in sched' <=> e \in sched)
        BY <1>4, <2>2
      <3> QED BY <1>2, <1>5, <3>1, <3>2, <3>3 DEF Alone
    <2> QED BY <2>1, <2>2
  <1>8. ASSUME NEW w \in Workers PROVE DrainOK(w)'
    <2>1. DrainOK(w) /\ batch[w] \subseteq Envelopes
      BY DEF SingleInv, TypeOK
    <2>2. sched \subseteq sched' /\ \A e \in Envelopes : list[e] > 0 => list'[e] > 0
      BY <1>2, <1>3, <1>4 DEF Here
    <2> QED BY <1>2, <2>1, <2>2 DEF DrainOK
  <1>9. NewJobs'
    BY <1>2 DEF SingleInv, NewJobs, Unsubmitted
  <1> QED BY <1>7, <1>8, <1>9 DEF SingleInv

(* The steps of the drain make no other envelope and settle nothing. *)
LEMMA SingleDrain ==
    ASSUME TypeOK, TypeOK', SingleInv, OneWorker, NEW w \in Workers,
           DrainRead(w) \/ DrainPush(w) \/ DrainRemove(w)
    PROVE  SingleInv'
  <1>1. /\ UNCHANGED <<held, accepted, refused, done, dropped, failures>>
        /\ pc[w] \in {"drain", "push", "remove"} /\ held[w] = NoTask
    BY DEF TypeOK, DrainRead, DrainPush, DrainRemove, history
  <1>2. DrainOK(w) /\ batch[w] \subseteq Envelopes
    BY DEF SingleInv, TypeOK
  <1>3. ASSUME NEW e \in Envelopes
        PROVE  /\ ~InHand(e) /\ ~InHand(e)' /\ ~FailedOnce(e)
               /\ Removing(e) <=> pc[w] = "remove" /\ e \in batch[w]
               /\ Removing(e)' <=> pc'[w] = "remove" /\ e \in batch'[w]
               /\ ~FailedOnce(e)'
    BY <1>1, NoTaskAssumption DEF OneWorker, InHand, Removing, FailedOnce
  <1>4. ASSUME NEW e \in Envelopes
        PROVE  /\ Here(e)' <=> Here(e)
               /\ Here(e) /\ list[e] <= 1 /\ (list[e] > 0 /\ e \in sched => Removing(e)) =>
                    list'[e] <= 1 /\ (list'[e] > 0 /\ e \in sched' => Removing(e)')
    <2>1. CASE DrainRead(w)
      BY <1>3, <2>1 DEF DrainRead, redis, Here
    <2>2. CASE DrainPush(w)
      <3>1. /\ batch[w] \subseteq sched /\ sched' = sched /\ batch' = batch /\ pc'[w] = "remove"
            /\ pc[w] = "push"
            /\ list'[e] = list[e] + (IF e \in batch[w] THEN 1 ELSE 0) /\ list[e] \in Nat
        BY <1>2, <2>2 DEF TypeOK, DrainOK, DrainPush, LPush
      <3> QED BY <1>3, <3>1 DEF Here
    <2>3. CASE DrainRemove(w)
      <3>1. /\ sched' = sched \ batch[w] /\ list' = list /\ pc[w] = "remove"
            /\ \A f \in batch[w] : list[f] > 0
        BY <1>2, <2>3 DEF DrainOK, DrainRemove, ZRem
      <3> QED BY <1>3, <3>1 DEF Here
    <2> QED BY <2>1, <2>2, <2>3
  <1>5. ASSUME NEW e \in Envelopes, Here(e)' PROVE Alone(e)'
    <2>1. Here(e) /\ Alone(e)
      BY <1>4, <1>5 DEF SingleInv
    <2>2. list'[e] <= 1 /\ (list'[e] > 0 /\ e \in sched' => Removing(e)')
      BY <1>4, <2>1 DEF Alone
    <2>3. \A f \in Envelopes : f.task = e.task /\ Here(f)' => f = e
      BY <1>4, <2>1 DEF Alone
    <2> QED BY <1>1, <1>3, <2>1, <2>2, <2>3 DEF Alone
  <1>6. ASSUME NEW v \in Workers PROVE DrainOK(v)'
    <2>1. v = w
      BY DEF OneWorker
    <2>2. CASE DrainRead(w)
      BY <2>1, <2>2 DEF TypeOK, DrainRead, DrainOK, redis
    <2>3. CASE DrainPush(w)
      <3>1. batch[w] \subseteq sched /\ \A f \in batch[w] : list'[f] > 0
        BY <1>2, <2>3 DEF TypeOK, DrainPush, DrainOK, LPush
      <3> QED BY <2>1, <2>3, <3>1 DEF DrainPush, DrainOK
    <2>4. CASE DrainRemove(w)
      <3>1. pc'[w] \in {"pop", "drain"}
        BY <2>4 DEF TypeOK, DrainRemove
      <3> QED BY <2>1, <3>1 DEF DrainOK
    <2> QED BY <2>2, <2>3, <2>4
  <1>7. NewJobs'
    BY <1>1 DEF SingleInv, NewJobs, Unsubmitted
  <1> QED BY <1>5, <1>6, <1>7 DEF SingleInv

(* The worker pops, or its pop times out: it is not removing anything. *)
LEMMA SinglePop ==
    ASSUME TypeOK, TypeOK', SingleInv, OneWorker, NEW w \in Workers, Pop(w) \/ PopTimeout(w)
    PROVE  SingleInv'
  <1>1. /\ pc[w] = "pop" /\ pc'[w] \in {"drain", "run"} /\ held[w] = NoTask
        /\ UNCHANGED <<sched, batch, accepted, refused, done, failures>>
    BY DEF TypeOK, Pop, PopTimeout, redis, history
  <1>2. \A v \in Workers : DrainOK(v)'
    BY <1>1 DEF OneWorker, DrainOK
  <1>3. CASE PopTimeout(w)
    <2>1. UNCHANGED <<list, held, dropped>>
      BY <1>3 DEF PopTimeout, redis, history
    <2>2. \A e \in Envelopes : (Here(e)' <=> Here(e)) /\ (Alone(e) => Alone(e)')
      BY <1>1, <2>1 DEF OneWorker, Here, Alone, InHand, Removing, FailedOnce
    <2> QED BY <1>1, <1>2, <2>1, <2>2 DEF SingleInv, NewJobs, Unsubmitted
  <1>4. CASE Pop(w)
    <2>1. PICK e \in Envelopes :
             /\ list[e] > 0
             /\ list' = [list EXCEPT ![e] = @ - 1]
             /\ \/ /\ dropped' = dropped \cup {e.task} /\ held' = held
                \/ /\ held' = [held EXCEPT ![w] = e] /\ pc'[w] = "run"
                   /\ dropped' = dropped
      BY <1>4 DEF Pop, TypeOK
    <2>2. \A f \in Envelopes : ~Removing(f) /\ ~Removing(f)' /\ ~InHand(f) /\ ~FailedOnce(f)
                              /\ ~FailedOnce(f)'
      BY <1>1, NoTaskAssumption DEF OneWorker, Removing, InHand, FailedOnce
    <2>3. Here(e) /\ Alone(e) /\ list[e] = 1 /\ e \notin sched /\ list'[e] = 0
      BY <2>1, <2>2 DEF TypeOK, SingleInv, Here, Alone
    <2>4. \A f \in Envelopes \ {e} : list'[f] = list[f] /\ ~InHand(f)'
      BY <1>1, <2>1, NoTaskAssumption DEF TypeOK, OneWorker, InHand
    <2>5. \A f \in Envelopes \ {e} : Here(f)' => Here(f) /\ f.task # e.task
      BY <1>1, <2>2, <2>3, <2>4 DEF Here, Alone
    <2>6. ASSUME NEW f \in Envelopes, Here(f)' PROVE Alone(f)'
      <3>1. Alone(f) /\ list[f] \in Nat
        BY <2>3, <2>5, <2>6 DEF SingleInv, TypeOK
      <3>2. f.task \notin dropped'
        <4>1. CASE f = e
          <5>1. dropped' = dropped
            BY <1>1, <2>1, <2>3, <2>6, <4>1, NoTaskAssumption DEF OneWorker, Here, InHand
          <5> QED BY <3>1, <5>1 DEF Alone
        <4>2. CASE f # e
          BY <2>1, <2>5, <2>6, <3>1, <4>2 DEF Alone
        <4> QED BY <4>1, <4>2
      <3>3. \A g \in Envelopes : g.task = f.task /\ Here(g)' => g = f
        BY <2>3, <2>5, <2>6, <3>1 DEF Alone
      <3>4. list'[f] <= 1 /\ (list'[f] > 0 => f \notin sched')
        BY <1>1, <2>1, <2>2, <2>3, <2>4, <3>1 DEF Alone
      <3>5. InHand(f)' => list'[f] = 0 /\ f \notin sched'
        BY <1>1, <2>3, <2>4
      <3> QED BY <1>1, <2>2, <3>1, <3>2, <3>3, <3>4, <3>5 DEF Alone
    <2>7. NewJobs'
      BY <1>1, <2>1, <2>3 DEF SingleInv, NewJobs, Alone, Unsubmitted
    <2> QED BY <1>2, <2>6, <2>7 DEF SingleInv
  <1> QED BY <1>3, <1>4

(* A step of the worker that runs or disposes of h, the only copy of its   *)
(* job, leaves every other job alone.                                      *)
LEMMA SingleRest ==
    ASSUME TypeOK, TypeOK', SingleInv, OneWorker, NEW w \in Workers,
           NEW h \in Envelopes, held[w] = h, held'[w] \in {h, NoTask},
           pc[w] \in {"run", "failed"}, pc'[w] \in {"failed", "drain"},
           UNCHANGED <<list, batch, accepted, refused>>,
           \A e \in Envelopes : e.task # h.task => (e \in sched' <=> e \in sched),
           \A t \in Tasks \ {h.task} : /\ failures'[t] = failures[t]
                                       /\ t \in done' \cup dropped' <=> t \in done \cup dropped,
           \A e \in Envelopes : e.task = h.task /\ Here(e)' => Alone(e)'
    PROVE  SingleInv'
  <1>1. Here(h) /\ Alone(h) /\ h.task \in Tasks
    BY RankOrder DEF SingleInv, Here, InHand
  <1>2. \A e \in Envelopes : /\ ~Removing(e) /\ ~Removing(e)'
                             /\ (e # h => ~InHand(e) /\ ~InHand(e)' /\ ~FailedOnce(e)
                                        /\ ~FailedOnce(e)')
    BY NoTaskAssumption DEF OneWorker, Removing, InHand, FailedOnce
  <1>3. ASSUME NEW e \in Envelopes, Here(e)', e.task # h.task PROVE Alone(e)'
    <2>1. Here(e) /\ Alone(e) /\ e.task \in Tasks
      BY <1>2, <1>3, RankOrder DEF SingleInv, Here
    <2>2. \A f \in Envelopes : f.task = e.task /\ Here(f)' => f = e
      BY <1>2, <1>3, <2>1 DEF Here, Alone
    <2>3. failures'[e.task] = failures[e.task] /\ e.task \notin done' \cup dropped'
      BY <1>3, <2>1 DEF Alone
    <2>4. e.task \in accepted' /\ list'[e] <= 1 /\ ~(list'[e] > 0 /\ e \in sched')
      BY <1>2, <1>3, <2>1 DEF Alone
    <2> QED BY <1>2, <1>3, <2>1, <2>2, <2>3, <2>4 DEF Alone
  <1>4. \A v \in Workers : DrainOK(v)'
    BY DEF OneWorker, DrainOK
  <1>5. NewJobs'
    <2> SUFFICES ASSUME NEW t \in Tasks, Unsubmitted(t)'
                 PROVE  failures'[t] = 0 /\ t \notin done' \cup dropped'
      BY DEF NewJobs
    <2>1. t # h.task /\ failures[t] = 0 /\ t \notin done \cup dropped
      BY <1>1 DEF SingleInv, NewJobs, Alone, Unsubmitted
    <2> QED BY <2>1
  <1> QED BY <1>3, <1>4, <1>5 DEF SingleInv

(* The handler returns, or the retries are used up: no copy is left.       *)
LEMMA SingleEnds ==
    ASSUME TypeOK, TypeOK', SingleInv, OneWorker, NEW w \in Workers,
           NEW h \in Envelopes, held[w] = h, pc[w] \in {"run", "failed"},
           Release(w), UNCHANGED <<redis, batch, accepted, refused, failures>>,
           \A t \in Tasks \ {h.task} : t \in done' \cup dropped' <=> t \in done \cup dropped
    PROVE  SingleInv'
  <1>1. Here(h) /\ Alone(h) /\ InHand(h)
    BY DEF SingleInv, Here, InHand
  <1>2. held'[w] = NoTask /\ pc'[w] = "drain"
    BY DEF TypeOK, Release
  <1>3. \A e \in Envelopes : ~InHand(e)'
    BY <1>2, NoTaskAssumption DEF OneWorker, InHand
  <1>4. \A e \in Envelopes : e.task = h.task => ~Here(e)'
    BY <1>1, <1>3 DEF redis, Here, Alone
  <1>5. \A e \in Envelopes : e.task # h.task => (e \in sched' <=> e \in sched)
    BY DEF redis
  <1> QED BY <1>2, <1>4, <1>5, SingleRest DEF redis

(* The envelope is succeeded by one of the sorted set, the only copy.      *)
LEMMA SingleMoves ==
    ASSUME TypeOK, TypeOK', SingleInv, OneWorker, NEW w \in Workers,
           NEW h \in Envelopes, held[w] = h, pc[w] \in {"run", "failed"},
           NEW s \in Envelopes, s.task = h.task,
           s.attempts = h.attempts + (IF pc[w] = "failed" THEN 1 ELSE 0),
           ZAdd(s), Release(w),
           UNCHANGED <<list, batch, accepted, refused, done, dropped, failures>>
    PROVE  SingleInv'
  <1>1. Here(h) /\ Alone(h) /\ InHand(h)
    BY DEF SingleInv, Here, InHand
  <1>2. held'[w] = NoTask /\ pc'[w] = "drain"
    BY DEF TypeOK, Release
  <1>3. \A e \in Envelopes : ~InHand(e)' /\ ~FailedOnce(e)' /\ (FailedOnce(h) <=> pc[w] = "failed")
    BY <1>2, NoTaskAssumption DEF OneWorker, InHand, FailedOnce
  <1>4. \A e \in Envelopes : e.task = h.task => /\ list[e] = 0 /\ e \notin sched
    BY <1>1 DEF Here, Alone, TypeOK
  <1>5. \A e \in Envelopes : e.task = h.task /\ Here(e)' => e = s
    BY <1>3, <1>4 DEF Here, ZAdd
  <1>6. failures[s.task] <= s.attempts
    BY <1>1, <1>3, RankOrder DEF Alone, TypeOK
  <1>7. s.attempts \in Int /\ failures[s.task] \in Int /\ list[s] = 0
    BY <1>4, RankOrder DEF TypeOK
  <1>8. Alone(s)'
    <2>1. s.task \in accepted /\ s.task \notin done \cup dropped
      BY <1>1 DEF Alone
    <2> QED BY <1>3, <1>5, <1>6, <1>7, <2>1 DEF Alone
  <1>9. \A e \in Envelopes : e.task # h.task => (e \in sched' <=> e \in sched)
    BY DEF ZAdd
  <1> QED BY <1>2, <1>5, <1>8, <1>9, SingleRest

LEMMA SingleHandles ==
    ASSUME TypeOK, TypeOK', SingleInv, OneWorker, NEW w \in Workers,
           HandlerSucceeds(w) \/ HandlerDefers(w) \/ HandlerFails(w) \/ RequeueIfFailed(w)
    PROVE  SingleInv'
  <1>0. PICK h \in Envelopes : h = held[w]
    BY DEF TypeOK, HandlerSucceeds, HandlerDefers, HandlerFails, RequeueIfFailed, Exhausted
  <1>1. held[w] = h /\ h.task \in Tasks /\ h.attempts \in Nat /\ pc[w] \in {"run", "failed"}
    BY <1>0, RankOrder DEF TypeOK, HandlerSucceeds, HandlerDefers, HandlerFails, RequeueIfFailed, Exhausted
  <1>2. Here(h) /\ Alone(h) /\ InHand(h)
    BY <1>1 DEF SingleInv, Here, InHand
  <1>3. CASE HandlerSucceeds(w)
    BY <1>1, <1>3, SingleEnds DEF HandlerSucceeds
  <1>4. CASE HandlerDefers(w)
    <2>1. Deferred(h) \in Envelopes /\ Deferred(h).task = h.task /\ Deferred(h).attempts = h.attempts
      BY <1>1, <1>4, DeferredEnvelope DEF HandlerDefers
    <2>2. pc[w] = "run" /\ ZAdd(Deferred(h)) /\ Release(w)
          /\ UNCHANGED <<list, batch, accepted, refused, done, dropped, failures>>
      BY <1>1, <1>4 DEF HandlerDefers, history
    <2>3. Deferred(h).attempts = h.attempts + (IF pc[w] = "failed" THEN 1 ELSE 0)
      BY <1>1, <2>1, <2>2
    <2> QED BY <1>1, <2>1, <2>2, <2>3, SingleMoves
  <1>5. CASE HandlerFails(w)
    <2>1. /\ pc[w] = "run" /\ pc'[w] = "failed" /\ held' = held /\ sched' = sched
          /\ UNCHANGED <<list, batch, accepted, refused, done, dropped>>
          /\ failures' = [failures EXCEPT ![h.task] = @ + 1]
      BY <1>1, <1>5 DEF TypeOK, HandlerFails, redis
    <2>2. \A e \in Envelopes : InHand(e)' = InHand(e) /\ (FailedOnce(e) => FALSE)
                              /\ ~Removing(e) /\ (Here(e)' = Here(e))
      BY <2>1 DEF OneWorker, InHand, FailedOnce, Removing, Here
    <2>3. FailedOnce(h)' /\ failures'[h.task] = failures[h.task] + 1
      BY <1>1, <2>1 DEF FailedOnce, TypeOK
    <2>4. failures[h.task] <= h.attempts /\ failures[h.task] \in Nat
      BY <1>1, <1>2, <2>2 DEF Alone, TypeOK
    <2>5. Alone(h)'
      <3>1. failures'[h.task] <= h.attempts + 1
        BY <1>1, <2>3, <2>4
      <3>2. \A f \in Envelopes : f.task = h.task /\ Here(f)' => f = h
        BY <1>2, <2>2 DEF Alone
      <3> QED BY <1>1, <1>2, <2>1, <2>2, <2>3, <3>1, <3>2 DEF Alone
    <2>6. \A e \in Envelopes : e.task = h.task /\ Here(e)' => e = h
      BY <1>2, <2>2 DEF Alone
    <2>7. \A t \in Tasks \ {h.task} : failures'[t] = failures[t]
      BY <2>1 DEF TypeOK
    <2>8. \A e \in Envelopes : e.task = h.task /\ Here(e)' => Alone(e)'
      BY <2>5, <2>6
    <2> QED BY <1>1, <2>1, <2>7, <2>8, SingleRest
  <1>6. CASE RequeueIfFailed(w)
    <2>1. pc[w] = "failed" /\ Release(w)
          /\ UNCHANGED <<list, batch, accepted, refused, done, failures>>
      BY <1>6 DEF RequeueIfFailed, Exhausted
    <2>2. CASE Exhausted(h)
      <3>1. dropped' = dropped \cup {h.task} /\ UNCHANGED redis
        BY <1>1, <1>6, <2>2 DEF RequeueIfFailed, redis
      <3> QED BY <1>1, <2>1, <3>1, SingleEnds
    <2>3. CASE ~Exhausted(h)
      <3>1. ZAdd(Retried(h)) /\ dropped' = dropped
        BY <1>1, <1>6, <2>3 DEF RequeueIfFailed
      <3>2. /\ Retried(h) \in Envelopes /\ Retried(h).task = h.task
            /\ Retried(h).attempts = h.attempts + 1
        BY <1>1, <2>3, RetriesLeft, RetriedEnvelope
      <3>3. Retried(h).attempts = h.attempts + (IF pc[w] = "failed" THEN 1 ELSE 0)
        BY <2>1, <3>2
      <3> QED BY <1>1, <2>1, <3>1, <3>2, <3>3, SingleMoves
    <2> QED BY <2>2, <2>3
  <1> QED BY <1>3, <1>4, <1>5, <1>6

LEMMA SingleNext ==
    ASSUME TypeOK, TypeOK', SingleInv, OneWorker, MaxFaults = 0, [Next]_vars
    PROVE  SingleInv'
  <1>1. CASE BecomeDue
    <2>1. UNCHANGED <<list, sched, pc, batch, held, accepted, refused, done, dropped, failures>>
      BY <1>1 DEF BecomeDue, history
    <2>2. \A e \in Envelopes : (Here(e)' <=> Here(e)) /\ (Alone(e) => Alone(e)')
      BY <2>1 DEF Here, Alone, InHand, Removing, FailedOnce
    <2> QED BY <2>1, <2>2 DEF SingleInv, DrainOK, NewJobs, Unsubmitted
  <1>2. ASSUME NEW t \in Tasks, Produce(t) PROVE SingleInv'
    BY <1>2, SingleProduce
  <1>3. ASSUME NEW w \in Workers, Work(w) PROVE SingleInv'
    BY <1>3, SingleDrain, SinglePop, SingleHandles DEF Work
  <1>4. ASSUME NEW w \in Workers, Break(w) PROVE FALSE
    BY <1>4, NoFault DEF Break, DequeueError, PopReplyLost, DeferralFails, RequeueError, WorkerCrash
  <1>5. CASE UNCHANGED vars
    <2>1. UNCHANGED <<list, sched, pc, batch, held, accepted, refused, done, dropped, failures>>
      BY <1>5 DEF vars
    <2>2. \A e \in Envelopes : (Here(e)' <=> Here(e)) /\ (Alone(e) => Alone(e)')
      BY <2>1 DEF Here, Alone, InHand, Removing, FailedOnce
    <2> QED BY <2>1, <2>2 DEF SingleInv, DrainOK, NewJobs, Unsubmitted
  <1> QED BY <1>1, <1>2, <1>3, <1>4, <1>5 DEF Next

(* With one worker and no fault, a handler is never started for a job that *)
(* has completed or was given up, and fails at most MaxRetries + 1 times   *)
(* for a job: the drain and the requeue leave one copy of it.              *)
THEOREM NothingRunsAgain ==
    ASSUME OneWorker, MaxFaults = 0
    PROVE  Spec => []NoRerun
  <1>1. TypeOK /\ SingleInv /\ [Next]_vars => TypeOK' /\ SingleInv'
    BY TypeNext, SingleNext
  <1>2. TypeOK /\ SingleInv => NoRerun
    <2> SUFFICES ASSUME TypeOK, SingleInv, NEW w \in Workers, held[w] # NoTask
                 PROVE  /\ held[w].task \notin done \cup dropped
                        /\ failures[held[w].task] <= MaxRetries + 1
      BY DEF NoRerun
    <2>1. held[w] \in Envelopes /\ Alone(held[w])
      BY DEF TypeOK, SingleInv, Here, InHand
    <2>2. held[w].attempts \in 0..MaxRetries /\ failures[held[w].task] \in Nat
      BY <2>1 DEF TypeOK, Envelopes
    <2> QED BY <2>1, <2>2 DEF Alone
  <1> QED BY TypeInit, SingleInit, <1>1, <1>2, PTL DEF Spec
=============================================================================
