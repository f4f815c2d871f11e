---------------------------- MODULE CaioPageProofs ----------------------------
(***************************************************************************)
(* Proofs about CaioPage for any events and any number of requests under   *)
(* way: the cards shown say nothing that is not on the ledger, because the *)
(* ledger only ever grows and whatever is on its way was read from it. And *)
(* about the cards the page makes of the log, of any length: each proposal *)
(* is on one, and the loop pairs wrongly only while one waits for its      *)
(* decision.                                                               *)
(***************************************************************************)
EXTENDS CaioPage, FiniteSetTheorems, WellFoundedInduction, TLAPS

(* What the cards say is on a ledger with verdicts v, starts s and         *)
(* completions f.                                                          *)
True(cards, v, s, f) == \A c \in cards :
    /\ c.verdict \in {Undecided, v[c.event]}
    /\ c.started => c.event \in s
    /\ c.completed => c.event \in f

(* So does every answer that has not arrived yet. *)
LoadsTrue == \A l \in Loads :
    load[l] \notin {Idle, NoAnswer} => True(load[l], verdict, started, completed)
PostsTrue == \A e \in Events :
    post[e].answer \notin {NoAnswer, Refused} =>
        True({post[e].answer}, verdict, started, completed)

IInv == TypeOK /\ ShownIsTrue /\ LoadsTrue /\ PostsTrue

LedgerTypeOK ==
    /\ verdict \in [Events -> Ledger!Verdicts \cup {Undecided}]
    /\ started \subseteq Events /\ completed \subseteq Events

(* No verdict is ever changed, no start or completion taken back. *)
LedgerGrows ==
    /\ \A e \in Events : verdict[e] # Undecided => verdict'[e] = verdict[e]
    /\ started \subseteq started' /\ completed \subseteq completed'

-----------------------------------------------------------------------------
LEMMA IInvInit == Init => IInv
  <1> SUFFICES ASSUME Init PROVE IInv
    OBVIOUS
  <1>1. TypeOK
    BY DEF Init, TypeOK, NoPost, Answers, Ledger!Init
  <1>2. ShownIsTrue /\ LoadsTrue
    BY DEF Init, ShownIsTrue, LoadsTrue
  <1>3. PostsTrue
    BY DEF Init, PostsTrue, NoPost
  <1> QED BY <1>1, <1>2, <1>3 DEF IInv

(* A card read from the ledger is true, and one kind of answer. *)
LEMMA CardTrue ==
    ASSUME LedgerTypeOK, NEW e \in Events
    PROVE  /\ Card(e) \in Cards /\ Card(e).event = e
           /\ True({Card(e)}, verdict, started, completed)
  <1>1. verdict[e] \in Ledger!Verdicts \cup {Undecided}
    BY DEF LedgerTypeOK
  <1>2. /\ Card(e) \in Cards
        /\ Card(e).event = e /\ Card(e).verdict = verdict[e]
        /\ Card(e).started = (e \in started) /\ Card(e).completed = (e \in completed)
    BY <1>1 DEF Card, Cards
  <1> QED BY <1>2 DEF True

(* Cards that were true stay true while the ledger grows. *)
LEMMA StaysTrue ==
    ASSUME LedgerTypeOK, LedgerGrows, NEW cards \in SUBSET Cards,
           True(cards, verdict, started, completed)
    PROVE  True(cards, verdict', started', completed')
  <1> SUFFICES ASSUME NEW c \in cards
               PROVE  /\ c.verdict \in {Undecided, verdict'[c.event]}
                      /\ c.started => c.event \in started'
                      /\ c.completed => c.event \in completed'
    BY DEF True
  <1>1. c.event \in Events
    BY DEF Cards
  <1>2. /\ c.verdict \in {Undecided, verdict[c.event]}
        /\ c.started => c.event \in started
        /\ c.completed => c.event \in completed
    BY DEF True
  <1> QED BY <1>1, <1>2 DEF LedgerGrows

LEMMA DecideGrows ==
    ASSUME LedgerTypeOK, NEW e \in Events, Ledger!Decide(e)
    PROVE  LedgerTypeOK' /\ LedgerGrows
  BY DEF LedgerTypeOK, LedgerGrows, Ledger!Decide

LEMMA LedgerStepGrows ==
    ASSUME LedgerTypeOK, Ledger!Next
    PROVE  LedgerTypeOK' /\ LedgerGrows
  <1> PICK e \in Events : Ledger!Decide(e) \/ Ledger!Start(e) \/ Ledger!Complete(e)
    BY DEF Ledger!Next
  <1>1. CASE Ledger!Decide(e)
    BY <1>1, DecideGrows
  <1>2. CASE Ledger!Start(e)
    BY <1>2 DEF LedgerTypeOK, LedgerGrows, Ledger!Start
  <1>3. CASE Ledger!Complete(e)
    BY <1>3 DEF LedgerTypeOK, LedgerGrows, Ledger!Complete
  <1> QED BY <1>1, <1>2, <1>3

-----------------------------------------------------------------------------
(* The steps at the page, which leave the ledger alone. *)

LEMMA LoadStep ==
    ASSUME IInv, NEW l \in Loads,
           SendLoad(l) \/ ServeLoad(l) \/ LoadArrives(l) \/ LoadFails(l)
    PROVE  IInv'
  <1> USE DEF IInv, Unchanged
  <1>1. CASE SendLoad(l)
    <2>1. TypeOK'
      BY <1>1 DEF SendLoad, TypeOK
    <2>2. ShownIsTrue' /\ PostsTrue'
      BY <1>1 DEF SendLoad, ShownIsTrue, PostsTrue
    <2>3. LoadsTrue'
      BY <1>1 DEF SendLoad, LoadsTrue, TypeOK
    <2> QED BY <2>1, <2>2, <2>3
  <1>2. CASE ServeLoad(l)
    <2> PICK items \in {Snapshot, {}} : load' = [load EXCEPT ![l] = items]
      BY <1>2 DEF ServeLoad
    <2>1. items \subseteq Cards /\ True(items, verdict, started, completed)
      BY CardTrue DEF Snapshot, True, TypeOK, LedgerTypeOK
    <2>2. TypeOK'
      BY <1>2, <2>1 DEF ServeLoad, TypeOK
    <2>3. ShownIsTrue' /\ PostsTrue'
      BY <1>2 DEF ServeLoad, ShownIsTrue, PostsTrue
    <2>4. LoadsTrue'
      BY <1>2, <2>1 DEF ServeLoad, LoadsTrue, TypeOK
    <2> QED BY <2>2, <2>3, <2>4
  <1>3. CASE LoadArrives(l)
    <2>1. TypeOK'
      BY <1>3 DEF LoadArrives, TypeOK
    <2>2. ShownIsTrue'
      BY <1>3 DEF LoadArrives, ShownIsTrue, LoadsTrue, True
    <2>3. LoadsTrue'
      BY <1>3 DEF LoadArrives, LoadsTrue, TypeOK
    <2>4. PostsTrue'
      BY <1>3 DEF LoadArrives, PostsTrue
    <2> QED BY <2>1, <2>2, <2>3, <2>4
  <1>4. CASE LoadFails(l)
    <2>1. TypeOK'
      BY <1>4 DEF LoadFails, TypeOK
    <2>2. ShownIsTrue' /\ PostsTrue'
      BY <1>4 DEF LoadFails, ShownIsTrue, PostsTrue
    <2>3. LoadsTrue'
      BY <1>4 DEF LoadFails, LoadsTrue, TypeOK
    <2> QED BY <2>1, <2>2, <2>3
  <1> QED BY <1>1, <1>2, <1>3, <1>4

LEMMA PageStep ==
    ASSUME IInv, NEW e \in Events,
           (\E d \in Ledger!Verdicts : MarkDecision(e, d)) \/ PostArrives(e) \/ PostFails(e)
    PROVE  IInv'
  <1> USE DEF IInv, Unchanged
  <1>1. CASE \E d \in Ledger!Verdicts : MarkDecision(e, d)
    <2> PICK d \in Ledger!Verdicts : MarkDecision(e, d)
      BY <1>1
    <2>1. TypeOK'
      BY DEF MarkDecision, TypeOK
    <2>2. ShownIsTrue' /\ LoadsTrue'
      BY DEF MarkDecision, ShownIsTrue, LoadsTrue
    <2>3. PostsTrue'
      BY DEF MarkDecision, PostsTrue, TypeOK, NoPost
    <2> QED BY <2>1, <2>2, <2>3
  <1>2. CASE PostArrives(e)
    <2>1. Patched(e) \subseteq Cards
      <3>1. post[e].answer \in Answers /\ post[e].answer # NoAnswer /\ list \subseteq Cards
        BY <1>2 DEF PostArrives, TypeOK
      <3> QED BY <3>1 DEF Patched, Answers
    <2>2. True(Patched(e), verdict, started, completed)
      BY <1>2 DEF PostArrives, Patched, TypeOK, ShownIsTrue, PostsTrue, True
    <2>3. TypeOK'
      BY <1>2, <2>1 DEF PostArrives, TypeOK, NoPost, Answers
    <2>4. ShownIsTrue'
      BY <1>2, <2>2 DEF PostArrives, ShownIsTrue, True
    <2>5. LoadsTrue' /\ PostsTrue'
      BY <1>2 DEF PostArrives, LoadsTrue, PostsTrue, TypeOK, NoPost
    <2> QED BY <2>3, <2>4, <2>5
  <1>3. CASE PostFails(e)
    <2>1. TypeOK'
      BY <1>3 DEF PostFails, TypeOK, NoPost, Answers
    <2>2. ShownIsTrue' /\ LoadsTrue' /\ PostsTrue'
      BY <1>3 DEF PostFails, ShownIsTrue, LoadsTrue, PostsTrue, TypeOK, NoPost
    <2> QED BY <2>1, <2>2
  <1> QED BY <1>1, <1>2, <1>3

-----------------------------------------------------------------------------
(* The steps at the ledger: whatever is shown or on its way stays true. *)

LEMMA OthersStayTrue ==
    ASSUME IInv, LedgerGrows
    PROVE  /\ True(list, verdict', started', completed')
           /\ \A l \in Loads : load[l] \notin {Idle, NoAnswer} =>
                 True(load[l], verdict', started', completed')
           /\ \A e \in Events : post[e].answer \notin {NoAnswer, Refused} =>
                 True({post[e].answer}, verdict', started', completed')
  <1>1. LedgerTypeOK
    BY DEF IInv, TypeOK, LedgerTypeOK
  <1>2. list \in SUBSET Cards /\ True(list, verdict, started, completed)
    BY DEF IInv, TypeOK, ShownIsTrue, True
  <1>3. ASSUME NEW l \in Loads, load[l] \notin {Idle, NoAnswer}
        PROVE  True(load[l], verdict', started', completed')
    <2>1. load[l] \in SUBSET Cards /\ True(load[l], verdict, started, completed)
      BY <1>3 DEF IInv, TypeOK, LoadsTrue
    <2> QED BY <1>1, <2>1, StaysTrue
  <1>4. ASSUME NEW e \in Events, post[e].answer \notin {NoAnswer, Refused}
        PROVE  True({post[e].answer}, verdict', started', completed')
    <2>1. /\ {post[e].answer} \in SUBSET Cards
          /\ True({post[e].answer}, verdict, started, completed)
      BY <1>4 DEF IInv, TypeOK, Answers, PostsTrue
    <2> QED BY <1>1, <2>1, StaysTrue
  <1> QED BY <1>1, <1>2, <1>3, <1>4, StaysTrue

LEMMA ServePostStep ==
    ASSUME IInv, NEW e \in Events, ServePost(e)
    PROVE  IInv'
  <1>1. LedgerTypeOK
    BY DEF IInv, TypeOK, LedgerTypeOK
  <1>2. LedgerTypeOK' /\ LedgerGrows
    <2>1. CASE verdict[e] = Undecided
      BY <2>1, <1>1, DecideGrows DEF ServePost
    <2>2. CASE verdict[e] # Undecided
      BY <2>2, <1>1 DEF ServePost, Unchanged, LedgerTypeOK, LedgerGrows
    <2> QED BY <2>1, <2>2
  <1>3. PICK answer : /\ answer \in {Card(e)', Refused}
                      /\ post' = [post EXCEPT ![e].answer = answer]
    BY DEF ServePost
  <1>4. /\ Card(e)' \in Cards
        /\ True({Card(e)'}, verdict', started', completed')
    <2>1. verdict'[e] \in Ledger!Verdicts \cup {Undecided}
      BY <1>2 DEF LedgerTypeOK
    <2>2. /\ Card(e)' \in Cards
          /\ Card(e)'.event = e /\ Card(e)'.verdict = verdict'[e]
          /\ Card(e)'.started = (e \in started') /\ Card(e)'.completed = (e \in completed')
      BY <2>1 DEF Card, Cards
    <2> QED BY <2>2 DEF True
  <1>5. TypeOK'
    <2>1. answer \in Answers
      BY <1>3, <1>4 DEF Answers
    <2>2. post' \in [Events -> [asked : Ledger!Verdicts \cup {Undecided}, answer : Answers]]
      BY <1>3, <2>1 DEF IInv, TypeOK
    <2> QED BY <1>2, <2>2 DEF IInv, TypeOK, ServePost, LedgerTypeOK
  <1>6. ShownIsTrue' /\ LoadsTrue'
    BY <1>2, OthersStayTrue DEF ServePost, ShownIsTrue, LoadsTrue, True
  <1>7. PostsTrue'
    <2> SUFFICES ASSUME NEW d \in Events, post'[d].answer \notin {NoAnswer, Refused}
                 PROVE  True({post'[d].answer}, verdict', started', completed')
      BY DEF PostsTrue
    <2>1. CASE d = e
      BY <2>1, <1>3, <1>4 DEF IInv, TypeOK
    <2>2. CASE d # e
      BY <2>2, <1>2, <1>3, OthersStayTrue DEF IInv, TypeOK
    <2> QED BY <2>1, <2>2
  <1> QED BY <1>5, <1>6, <1>7 DEF IInv

LEMMA ElsewhereStep ==
    ASSUME IInv, Elsewhere
    PROVE  IInv'
  <1>1. LedgerTypeOK' /\ LedgerGrows
    BY LedgerStepGrows DEF Elsewhere, IInv, TypeOK, LedgerTypeOK
  <1>2. TypeOK'
    BY <1>1 DEF IInv, TypeOK, Elsewhere, LedgerTypeOK
  <1>3. ShownIsTrue' /\ LoadsTrue' /\ PostsTrue'
    BY <1>1, OthersStayTrue DEF Elsewhere, ShownIsTrue, LoadsTrue, PostsTrue, True
  <1> QED BY <1>2, <1>3 DEF IInv

LEMMA IInvNext == IInv /\ [Next]_pageVars => IInv'
  <1> SUFFICES ASSUME IInv, [Next]_pageVars PROVE IInv'
    OBVIOUS
  <1>1. ASSUME NEW l \in Loads, SendLoad(l) \/ ServeLoad(l) \/ LoadArrives(l) \/ LoadFails(l)
        PROVE  IInv'
    BY <1>1, LoadStep
  <1>2. ASSUME NEW e \in Events, NEW d \in Ledger!Verdicts, MarkDecision(e, d)
        PROVE  IInv'
    BY <1>2, PageStep
  <1>3. ASSUME NEW e \in Events, ServePost(e) \/ PostArrives(e) \/ PostFails(e)
        PROVE  IInv'
    BY <1>3, PageStep, ServePostStep
  <1>4. CASE Elsewhere
    BY <1>4, ElsewhereStep
  <1>5. CASE UNCHANGED pageVars
    BY <1>5 DEF pageVars, IInv, TypeOK, ShownIsTrue, LoadsTrue, PostsTrue
  <1> QED BY <1>1, <1>2, <1>3, <1>4, <1>5 DEF Next

-----------------------------------------------------------------------------
(* Every variable of the page, the ledger and the requests keeps its type. *)
THEOREM TypeCorrect == Spec => []TypeOK
  <1>1. IInv => TypeOK
    BY DEF IInv
  <1> QED BY <1>1, IInvInit, IInvNext, PTL DEF Spec

(* For any events and any number of loads and clicks under way, answered   *)
(* in any order, the page shows no verdict, start or completion that the   *)
(* server's ledger does not hold (app/caio/page.tsx:1068-1216).            *)
THEOREM CardsAreTrue == Spec => []ShownIsTrue
  <1>1. IInv => ShownIsTrue
    BY DEF IInv
  <1> QED BY <1>1, IInvInit, IInvNext, PTL DEF Spec

-----------------------------------------------------------------------------
(* Induction over the naturals, for a set instead of a predicate: what is  *)
(* not in the set has a least member.                                      *)
LEMMA SetInduction ==
    ASSUME NEW S, 0 \in S, \A n \in Nat : n \in S => n + 1 \in S
    PROVE  Nat \subseteq S
  <1> DEFINE T == Nat \ S
             R == OpToRel(<, Nat)
  <1> SUFFICES ASSUME T # {} PROVE FALSE
    OBVIOUS
  <1>1. IsWellFoundedOn(R, Nat)
    BY NatLessThanWellFounded
  <1>2. T \subseteq Nat
    OBVIOUS
  <1> HIDE DEF R
  <1>3. \E x \in T : \A y \in T : ~(<<y, x>> \in R)
    <2> HIDE DEF T
    <2> QED BY <1>1, <1>2, WFMin
  <1>4. PICK x \in T : \A y \in T : ~(<<y, x>> \in R)
    BY <1>3
  <1>5. x - 1 \in T
    BY SMT
  <1>6. <<x - 1, x>> \in R
    BY <1>5 DEF R, OpToRel
  <1> QED BY <1>4, <1>5, <1>6

(* A recursion over 0..N defines a function. *)
Follows(g, X, b, N, F) == g \in [0..N -> X] /\ g[0] = b /\ \A k \in 1..N : g[k] = F[<<g[k - 1], k>>]

LEMMA Recursion ==
    ASSUME NEW X, NEW b \in X, NEW N \in Nat, NEW F \in [X \X (1..N) -> X]
    PROVE  \E g : Follows(g, X, b, N, F)
  <1> DEFINE Runs(m) == {g \in [0..m -> X] :
                 g[0] = b /\ \A k \in 1..m : g[k] = F[<<g[k - 1], k>>]}
             S == {m \in Nat : m <= N => Runs(m) # {}}
  <1>1. 0 \in S
    <2>1. [n \in 0..0 |-> b] \in Runs(0)
      OBVIOUS
    <2> QED BY <2>1
  <1>2. ASSUME NEW m \in Nat, m \in S PROVE m + 1 \in S
    <2> SUFFICES ASSUME m + 1 <= N PROVE Runs(m + 1) # {}
      OBVIOUS
    <2>1. PICK g \in Runs(m) : TRUE
      BY <1>2
    <2> DEFINE h == [n \in 0..(m + 1) |-> IF n = m + 1 THEN F[<<g[m], m + 1>>] ELSE g[n]]
    <2>2. F[<<g[m], m + 1>>] \in X
      BY <2>1
    <2>3. h \in [0..(m + 1) -> X]
      BY <2>1, <2>2
    <2>4. \A n \in 0..m : h[n] = g[n]
      OBVIOUS
    <2>5. h[m + 1] = F[<<g[m], m + 1>>]
      OBVIOUS
    <2>6. h[0] = b /\ \A k \in 1..(m + 1) : h[k] = F[<<h[k - 1], k>>]
      <3> HIDE DEF h
      <3>1. h[0] = b
        BY <2>1, <2>4
      <3>2. ASSUME NEW k \in 1..(m + 1) PROVE h[k] = F[<<h[k - 1], k>>]
        <4>1. CASE k = m + 1
          BY <2>4, <2>5, <4>1
        <4>2. CASE k # m + 1
          <5>1. k \in 1..m /\ k - 1 \in 0..m /\ k \in 0..m
            BY <4>2
          <5> QED BY <2>1, <2>4, <5>1
        <4> QED BY <4>1, <4>2
      <3> QED BY <3>1, <3>2
    <2> QED BY <2>3, <2>6
  <1>3. N \in S
    <2> HIDE DEF S
    <2> QED BY <1>1, <1>2, SetInduction
  <1> QED BY <1>3 DEF Follows

-----------------------------------------------------------------------------
(* The loop of Pairs *)
Loop(log, order, g) == g = [n \in 0..Len(order) |->
    IF n = 0 THEN {} ELSE g[n - 1] \cup Taken(log, order, g[n - 1], order[n])]

PairRecords == [policy : Nat, proposal : Nat]

LEMMA LoopEnds ==
    ASSUME NEW log, NEW order \in Seq(Nat)
    PROVE  \E g : Loop(log, order, g) /\ Pairs(log, order) = g[Len(order)]
  <1> DEFINE N == Len(order)
             X == SUBSET PairRecords
             F == [a \in X \X (1..N) |-> a[1] \cup Taken(log, order, a[1], order[a[2]])]
  <1>1. N \in Nat /\ {} \in X
    OBVIOUS
  <1>2. F \in [X \X (1..N) -> X]
    BY DEF Taken, FirstListed, Candidates, PairRecords
  <1>3. PICK g : Follows(g, X, {}, N, F)
    <2> HIDE DEF F, X, N
    <2> QED BY <1>1, <1>2, Recursion
  <1>4. Loop(log, order, g)
    <2>1. g \in [0..N -> X] /\ g[0] = {}
      BY <1>3 DEF Follows
    <2>2. \A k \in 1..N : g[k] = g[k - 1] \cup Taken(log, order, g[k - 1], order[k])
      <3> SUFFICES ASSUME NEW k \in 1..N
                   PROVE  g[k] = g[k - 1] \cup Taken(log, order, g[k - 1], order[k])
        OBVIOUS
      <3>1. <<g[k - 1], k>> \in X \X (1..N)
        <4>1. k - 1 \in 0..N
          BY <1>1
        <4> HIDE DEF X, N
        <4> QED BY <2>1, <4>1
      <3>2. g[k] = F[<<g[k - 1], k>>]
        <4> HIDE DEF X, N, F
        <4> QED BY <1>3 DEF Follows
      <3> HIDE DEF X, N
      <3> QED BY <3>1, <3>2
    <2> QED BY <2>1, <2>2 DEF Loop
  <1> DEFINE h == CHOOSE f : Loop(log, order, f)
  <1>5. Loop(log, order, h)
    BY <1>4, Zenon
  <1>6. Pairs(log, order) = h[N]
    BY DEF Pairs, Loop
  <1> QED BY <1>5, <1>6

-----------------------------------------------------------------------------
(* The logs *)
WellFormed(log) == \A i \in DOMAIN log :
    IF IsProposal(log, i) THEN log[i].about = i /\ ~log[i].blocked
    ELSE /\ log[i].about \in 1..(i - 1) /\ IsProposal(log, log[i].about)
         /\ Near(log, i, log[i].about)

Stamped(log) == \A i, j \in DOMAIN log : i < j =>
    log[i].at <= log[j].at /\ (log[i].type = log[j].type => log[i].at < log[j].at)

(* Decisions are made in the order of the proposals, and none is skipped. *)
InTurn(log) == \A i, j \in DOMAIN log :
    i < j /\ ~IsProposal(log, i) /\ ~IsProposal(log, j) => log[i].about < log[j].about
NoneSkipped(log) == \A i \in DOMAIN log : ~IsProposal(log, i) =>
    \A q \in 1..(log[i].about - 1) : IsProposal(log, q) => DecidedOn(log, q, DOMAIN log)

LogOK(log) == log \in Seq(LogEvents) /\ WellFormed(log) /\ Stamped(log) /\ InTurn(log) /\ NoneSkipped(log)

LEMMA Appended ==
    ASSUME NEW log, LogOK(log), NEW e \in NextEvents(log)
    PROVE  LogOK(Append(log, e))
  <1> DEFINE new == Append(log, e)
             n == Len(log)
  <1>1. /\ e \in LogEvents /\ log \in Seq(LogEvents) /\ n \in Nat
        /\ \A i \in DOMAIN log : log[i].at <= e.at /\ (log[i].type = e.type => log[i].at < e.at)
        /\ \A q \in Oldest(log) : e.at <= log[q].at + Lag
        /\ e.type = "proposal" => e.about = n + 1 /\ ~e.blocked
        /\ e.type # "proposal" => e.about \in Oldest(log)
    BY DEF NextEvents, LogOK
  <1>2. /\ new \in Seq(LogEvents) /\ DOMAIN new = 1..(n + 1) /\ DOMAIN log = 1..n
        /\ new[n + 1] = e /\ \A i \in 1..n : new[i] = log[i]
    BY <1>1
  <1> HIDE DEF new, n
  <1>3. \A i \in 1..n : IsProposal(new, i) <=> IsProposal(log, i)
    BY <1>2 DEF IsProposal
  <1>4. IsProposal(new, n + 1) <=> e.type = "proposal"
    BY <1>2 DEF IsProposal
  <1>5. \A q : DecidedOn(log, q, DOMAIN log) => DecidedOn(new, q, DOMAIN new)
    BY <1>1, <1>2, <1>3 DEF DecidedOn
  <1>6. \A i \in 1..n : /\ log[i].at \in Nat /\ log[i].about \in Nat
                        /\ IsProposal(log, i) => log[i].about = i /\ ~log[i].blocked
                        /\ ~IsProposal(log, i) =>
                             /\ log[i].about \in 1..(i - 1) /\ IsProposal(log, log[i].about)
                             /\ Near(log, i, log[i].about)
    <2> SUFFICES ASSUME NEW i \in 1..n
                 PROVE  /\ log[i].at \in Nat /\ log[i].about \in Nat
                        /\ IsProposal(log, i) => log[i].about = i /\ ~log[i].blocked
                        /\ ~IsProposal(log, i) =>
                             /\ log[i].about \in 1..(i - 1) /\ IsProposal(log, log[i].about)
                             /\ Near(log, i, log[i].about)
      OBVIOUS
    <2>1. i \in DOMAIN log /\ log[i] \in LogEvents
      BY <1>1, <1>2
    <2>2. log[i].at \in Nat /\ log[i].about \in Nat
      BY <2>1, CaioCardsAssumption DEF LogEvents
    <2> QED BY <2>1, <2>2, Zenon DEF LogOK, WellFormed
  <1>7. e.type # "proposal" =>
           /\ e.about \in 1..n /\ IsProposal(log, e.about)
           /\ ~DecidedOn(log, e.about, DOMAIN log)
           /\ \A i \in 1..(e.about - 1) : IsProposal(log, i) => DecidedOn(log, i, DOMAIN log)
           /\ e.at - log[e.about].at \in 0..Lag
    <2>1. e.at \in Nat
      BY <1>1 DEF LogEvents
    <2>2. CASE e.type # "proposal"
      <3>1. /\ e.about \in 1..n /\ IsProposal(log, e.about)
            /\ ~DecidedOn(log, e.about, DOMAIN log)
            /\ \A i \in 1..(e.about - 1) : DecidedOn(log, log[i].about, DOMAIN log)
        BY <1>1, <1>2, <2>2 DEF Oldest
      <3>2. e.at - log[e.about].at \in 0..Lag
        BY <1>1, <1>2, <1>6, <2>1, <2>2, <3>1, CaioCardsAssumption
      <3>3. \A i \in 1..(e.about - 1) : i \in 1..n
        BY <1>1, <3>1
      <3> QED BY <1>6, <3>1, <3>2, <3>3
    <2> QED BY <2>2
  <1>8. ASSUME NEW i \in 1..n, ~IsProposal(log, i), e.type # "proposal"
        PROVE  log[i].about < e.about
    <2>1. log[i].about # e.about
      BY <1>2, <1>7, <1>8 DEF DecidedOn
    <2>2. ~(e.about < log[i].about)
      <3>1. \A q \in 1..(log[i].about - 1) : IsProposal(log, q) => DecidedOn(log, q, DOMAIN log)
        <4>1. i \in DOMAIN log
          BY <1>2
        <4> QED BY <1>8, <4>1 DEF LogOK, NoneSkipped
      <3> QED BY <1>6, <1>7, <1>8, <3>1
    <2> QED BY <1>6, <1>7, <1>8, <2>1, <2>2
  <1>9. \A i \in 1..(n + 1) :
          IF IsProposal(new, i) THEN new[i].about = i /\ ~new[i].blocked
          ELSE /\ new[i].about \in 1..(i - 1) /\ IsProposal(new, new[i].about)
               /\ Near(new, i, new[i].about)
    <2> SUFFICES ASSUME NEW i \in 1..(n + 1)
                 PROVE  IF IsProposal(new, i) THEN new[i].about = i /\ ~new[i].blocked
                        ELSE /\ new[i].about \in 1..(i - 1) /\ IsProposal(new, new[i].about)
                             /\ Near(new, i, new[i].about)
      OBVIOUS
    <2>1. CASE i = n + 1
      <3>1. CASE e.type = "proposal"
        BY <1>1, <1>2, <1>4, <2>1, <3>1
      <3>2. CASE e.type # "proposal"
        <4>1. e.at - log[e.about].at \in (-Window)..Window
          BY <1>7, <3>2, CaioCardsAssumption
        <4>2. new[e.about] = log[e.about] /\ new[i] = e
          BY <1>2, <1>7, <2>1, <3>2
        <4> QED BY <1>1, <1>3, <1>4, <1>7, <2>1, <3>2, <4>1, <4>2 DEF Near
      <3> QED BY <3>1, <3>2
    <2>2. CASE i # n + 1
      <3>1. i \in 1..n /\ new[i] = log[i]
        BY <1>1, <1>2, <2>2
      <3>2. ~IsProposal(log, i) => new[log[i].about] = log[log[i].about] /\ log[i].about \in 1..n
        BY <1>1, <1>2, <1>6, <3>1
      <3> QED BY <1>3, <1>6, <3>1, <3>2 DEF Near
    <2> QED BY <2>1, <2>2
  <1>10. \A i, j \in 1..(n + 1) : i < j =>
           new[i].at <= new[j].at /\ (new[i].type = new[j].type => new[i].at < new[j].at)
    <2> SUFFICES ASSUME NEW i \in 1..(n + 1), NEW j \in 1..(n + 1), i < j
                 PROVE  new[i].at <= new[j].at /\ (new[i].type = new[j].type => new[i].at < new[j].at)
      OBVIOUS
    <2>1. i \in 1..n
      BY <1>1
    <2>2. CASE j = n + 1
      BY <1>1, <1>2, <2>1, <2>2
    <2>3. CASE j # n + 1
      <3>1. j \in 1..n /\ i \in DOMAIN log /\ j \in DOMAIN log
        BY <1>1, <1>2, <2>1, <2>3
      <3>2. log[i].at <= log[j].at /\ (log[i].type = log[j].type => log[i].at < log[j].at)
        BY <3>1 DEF LogOK, Stamped
      <3> QED BY <1>2, <2>1, <3>1, <3>2
    <2> QED BY <2>2, <2>3
  <1>11. \A i, j \in 1..(n + 1) : i < j /\ ~IsProposal(new, i) /\ ~IsProposal(new, j) =>
           new[i].about < new[j].about
    <2> SUFFICES ASSUME NEW i \in 1..(n + 1), NEW j \in 1..(n + 1), i < j,
                        ~IsProposal(new, i), ~IsProposal(new, j)
                 PROVE  new[i].about < new[j].about
      OBVIOUS
    <2>1. i \in 1..n
      BY <1>1
    <2>2. CASE j = n + 1
      BY <1>2, <1>3, <1>4, <1>8, <2>1, <2>2
    <2>3. CASE j # n + 1
      <3>1. j \in 1..n
        BY <1>1, <2>3
      <3>2. log[i].about < log[j].about
        <4>1. i \in DOMAIN log /\ j \in DOMAIN log /\ ~IsProposal(log, i) /\ ~IsProposal(log, j)
          BY <1>2, <1>3, <2>1, <3>1
        <4> QED BY <4>1 DEF LogOK, InTurn
      <3> QED BY <1>2, <2>1, <3>1, <3>2
    <2> QED BY <2>2, <2>3
  <1>12. ASSUME NEW i \in 1..(n + 1), ~IsProposal(new, i),
                NEW q \in 1..(new[i].about - 1), IsProposal(new, q)
         PROVE  DecidedOn(new, q, DOMAIN new)
    <2>1. DecidedOn(log, q, DOMAIN log)
      <3>1. CASE i = n + 1
        <4>1. e.type # "proposal" /\ new[i] = e
          BY <1>2, <1>4, <1>12, <3>1
        <4>2. q \in 1..(e.about - 1) /\ q \in 1..n
          BY <1>1, <1>7, <4>1
        <4> QED BY <1>3, <1>7, <1>12, <4>1, <4>2
      <3>2. CASE i # n + 1
        <4>1. i \in 1..n /\ new[i] = log[i] /\ ~IsProposal(log, i)
          BY <1>1, <1>2, <1>3, <1>12, <3>2
        <4>2. q \in 1..n /\ q \in 1..(log[i].about - 1)
          BY <1>1, <1>6, <4>1
        <4>3. i \in DOMAIN log /\ IsProposal(log, q)
          BY <1>2, <1>3, <1>12, <4>1, <4>2
        <4> QED BY <4>1, <4>2, <4>3 DEF LogOK, NoneSkipped
      <3> QED BY <3>1, <3>2
    <2> QED BY <1>5, <2>1
  <1>13. WellFormed(new)
    BY <1>2, <1>9 DEF WellFormed
  <1>14. Stamped(new)
    BY <1>2, <1>10 DEF Stamped
  <1>15. InTurn(new)
    BY <1>2, <1>11 DEF InTurn
  <1>16. NoneSkipped(new)
    BY <1>2, <1>12, Zenon DEF NoneSkipped
  <1> QED BY <1>2, <1>13, <1>14, <1>15, <1>16 DEF LogOK, new

(* Every log the runtime can have written is one. *)
LogLoop(g) == g = [n \in 0..MaxEvents |->
    IF n = 0 THEN {<<>>}
    ELSE LET shorter == g[n - 1] IN
         shorter \cup UNION {{Append(log, e) : e \in NextEvents(log)} :
                                log \in {l \in shorter : Len(l) = n - 1}}]

LEMMA LogsOK == \A log \in Logs : LogOK(log)
  <1> DEFINE N == MaxEvents
             X == SUBSET {l \in Seq(LogEvents) : LogOK(l)}
             Longer(s, n) == s \cup UNION {{Append(log, e) : e \in NextEvents(log)} :
                                log \in {l \in s : Len(l) = n - 1}}
             F == [a \in X \X (1..N) |-> Longer(a[1], a[2])]
  <1>1. N \in Nat
    BY CaioCardsAssumption
  <1>2. {<<>>} \in X
    BY DEF LogOK, WellFormed, Stamped, InTurn, NoneSkipped
  <1>3. ASSUME NEW s \in X, NEW n \in 1..N PROVE Longer(s, n) \in X
    <2>1. ASSUME NEW log \in s, NEW e \in NextEvents(log)
          PROVE  Append(log, e) \in Seq(LogEvents) /\ LogOK(Append(log, e))
      <3>1. LogOK(log)
        OBVIOUS
      <3> QED BY <3>1, Appended DEF LogOK
    <2> SUFFICES ASSUME NEW new \in Longer(s, n) PROVE new \in Seq(LogEvents) /\ LogOK(new)
      OBVIOUS
    <2>2. CASE new \in s
      BY <2>2
    <2>3. CASE new \notin s
      <3>1. \E log \in s : \E e \in NextEvents(log) : new = Append(log, e)
        BY <2>3
      <3> QED BY <2>1, <3>1
    <2> QED BY <2>2, <2>3
  <1>4. F \in [X \X (1..N) -> X]
    <2> HIDE DEF Longer, X
    <2> QED BY <1>3
  <1>5. PICK g : Follows(g, X, {<<>>}, N, F)
    <2> HIDE DEF F, X, N
    <2> QED BY <1>1, <1>2, <1>4, Recursion
  <1>6. LogLoop(g)
    <2>1. g \in [0..N -> X] /\ g[0] = {<<>>}
      BY <1>5 DEF Follows
    <2>2. \A k \in 1..N : g[k] = Longer(g[k - 1], k)
      <3> SUFFICES ASSUME NEW k \in 1..N PROVE g[k] = Longer(g[k - 1], k)
        OBVIOUS
      <3>1. <<g[k - 1], k>> \in X \X (1..N)
        <4>1. k - 1 \in 0..N
          BY <1>1
        <4> HIDE DEF X, N
        <4> QED BY <2>1, <4>1
      <3>2. g[k] = F[<<g[k - 1], k>>]
        <4> HIDE DEF X, N, F
        <4> QED BY <1>5 DEF Follows
      <3> HIDE DEF X, N, Longer
      <3> QED BY <3>1, <3>2
    <2> QED BY <2>1, <2>2 DEF LogLoop
  <1> DEFINE h == CHOOSE f : LogLoop(f)
  <1>7. LogLoop(h)
    BY <1>6, Zenon
  <1>8. Logs = h[N]
    BY DEF Logs, LogLoop
  <1>9. Nat \subseteq {n \in Nat : n <= N => h[n] \in X}
    <2> DEFINE S == {n \in Nat : n <= N => h[n] \in X}
    <2> HIDE DEF h
    <2>1. \A n \in 0..N : h[n] = IF n = 0 THEN {<<>>} ELSE Longer(h[n - 1], n)
      BY <1>7 DEF LogLoop
    <2>2. 0 \in S
      <3> HIDE DEF X, Longer
      <3> QED BY <1>1, <1>2, <2>1
    <2>3. ASSUME NEW n \in Nat, n \in S PROVE n + 1 \in S
      <3> HIDE DEF X, Longer
      <3> SUFFICES ASSUME n + 1 <= N PROVE h[n + 1] \in X
        OBVIOUS
      <3>1. h[n] \in X /\ n + 1 \in 1..N
        BY <1>1, <2>3
      <3> QED BY <1>1, <1>3, <2>1, <3>1
    <2> HIDE DEF S
    <2>4. Nat \subseteq S
      BY <2>2, <2>3, SetInduction
    <2> QED BY <2>4 DEF S
  <1>10. h[N] \in X
    <2> HIDE DEF h, X
    <2> QED BY <1>1, <1>9
  <1> QED BY <1>8, <1>10

LEMMA ListedOnce ==
    ASSUME NEW S, IsFiniteSet(S), NEW f \in [1..Cardinality(S) -> S],
           \A i, j \in 1..Cardinality(S) : i # j => f[i] # f[j]
    PROVE  \A x \in S : \E i \in 1..Cardinality(S) : f[i] = x
  <1>1. Cardinality(S) \in Nat
    BY FS_CardinalityType
  <1>2. IsFiniteSet(1..Cardinality(S)) /\ Cardinality(1..Cardinality(S)) = Cardinality(S)
    BY <1>1, FS_Interval
  <1>3. f \in Injection(1..Cardinality(S), S)
    BY DEF Injection, IsInjective
  <1>4. f \in Surjection(1..Cardinality(S), S)
    BY <1>2, <1>3, FS_Injection
  <1> QED BY <1>4 DEF Surjection

(* A listing has each of the newest events once, newest first. *)
ListingOK(log, order) ==
    /\ order \in Seq(Nat)
    /\ \A i, j \in DOMAIN order : i # j => order[i] # order[j]
    /\ ToSet(order) \in Newest(log)
    /\ \A i, j \in DOMAIN order : i < j => log[order[i]].at >= log[order[j]].at

LEMMA ListingsOK ==
    ASSUME NEW log, LogOK(log), NEW order \in Listings(log)
    PROVE  ListingOK(log, order)
  <1>0. PICK S \in Newest(log) : order \in SetToSeqs(S)
    BY DEF Listings
  <1> DEFINE n == Cardinality(S)
  <1>1. S \subseteq 1..Len(log) /\ Len(log) \in Nat
    BY DEF Newest, LogOK
  <1>2. IsFiniteSet(S)
    <2>1. IsFiniteSet(1..Len(log))
      BY <1>1, FS_Interval
    <2> QED BY <1>1, <2>1, FS_Subset
  <1>3. n \in Nat
    BY <1>2, FS_CardinalityType
  <1>4. order \in [1..n -> S] /\ \A i, j \in 1..n : i # j => order[i] # order[j]
    BY <1>0 DEF SetToSeqs
  <1>5. \A x \in S : \E i \in 1..n : order[i] = x
    BY <1>2, <1>4, ListedOnce
  <1> HIDE DEF n
  <1>6. S \subseteq Nat
    BY <1>1
  <1>7. order \in Seq(Nat) /\ DOMAIN order = 1..n
    <2>1. order \in [1..n -> Nat]
      BY <1>4, <1>6
    <2> QED BY <1>3, <2>1
  <1>8. ToSet(order) = S
    BY <1>4, <1>5, <1>7 DEF ToSet
  <1>9. \A i, j \in DOMAIN order : i < j => log[order[i]].at >= log[order[j]].at
    BY DEF Listings
  <1> QED BY <1>0, <1>4, <1>7, <1>8, <1>9 DEF ListingOK

LEMMA ReadingsOK == \A r \in Readings : LogOK(r[1]) /\ ListingOK(r[1], r[2])
  <1> SUFFICES ASSUME NEW r \in Readings PROVE LogOK(r[1]) /\ ListingOK(r[1], r[2])
    OBVIOUS
  <1>1. PICK log \in Logs : r \in {<<log, order>> : order \in Listings(log)}
    BY DEF Readings
  <1>2. PICK order \in Listings(log) : r = <<log, order>>
    BY <1>1
  <1> QED BY <1>2, LogsOK, ListingsOK

-----------------------------------------------------------------------------
(* What is taken: the first candidate, if there is one. *)
LEMMA TakesFirst ==
    ASSUME NEW log, NEW order \in Seq(Nat), NEW pairs, NEW p
    PROVE  \A a, b \in Taken(log, order, pairs, p) : a = b
  <1> DEFINE K == FirstListed(Candidates(log, order, pairs, p))
  <1>1. K \subseteq Nat
    BY DEF FirstListed, Candidates
  <1>2. \A k, l \in K : k <= l /\ l <= k
    BY DEF FirstListed
  <1>3. \A k, l \in K : k = l
    BY <1>1, <1>2
  <1> QED BY <1>3 DEF Taken

LEMMA WhatIsTaken ==
    ASSUME NEW log, NEW order \in Seq(Nat), NEW pairs, NEW p, NEW a \in Taken(log, order, pairs, p)
    PROVE  \E k \in DOMAIN order :
              /\ a = [policy |-> p, proposal |-> order[k]]
              /\ ~IsProposal(log, p) /\ IsProposal(log, order[k])
              /\ \A pair \in pairs : pair.proposal # order[k]
  BY DEF Taken, FirstListed, Candidates

(* After n rounds of the loop: a policy decision among the first n has     *)
(* taken in one proposal at most, and a proposal is taken in once at most. *)
Paired(log, order, n, pairs) ==
    /\ \A pair \in pairs :
          /\ pair = [policy |-> pair.policy, proposal |-> pair.proposal]
          /\ \E k \in 1..n : pair.policy = order[k]
          /\ \E k \in DOMAIN order : pair.proposal = order[k]
          /\ ~IsProposal(log, pair.policy) /\ IsProposal(log, pair.proposal)
    /\ \A a, b \in pairs : a.policy = b.policy \/ a.proposal = b.proposal => a = b

LEMMA PairedStep ==
    ASSUME NEW log, NEW order, ListingOK(log, order), NEW n \in Nat, n + 1 \in DOMAIN order,
           NEW pairs, Paired(log, order, n, pairs)
    PROVE  Paired(log, order, n + 1, pairs \cup Taken(log, order, pairs, order[n + 1]))
  <1> DEFINE new == Taken(log, order, pairs, order[n + 1])
  <1>1. order \in Seq(Nat) /\ \A i, j \in DOMAIN order : i # j => order[i] # order[j]
    BY DEF ListingOK
  <1>2. DOMAIN order = 1..Len(order) /\ Len(order) \in Nat
    BY <1>1
  <1>3. \A a, b \in new : a = b
    BY <1>1, TakesFirst
  <1>4. \A a \in new :
          /\ a = [policy |-> a.policy, proposal |-> a.proposal]
          /\ a.policy = order[n + 1]
          /\ \E k \in DOMAIN order : a.proposal = order[k]
          /\ ~IsProposal(log, a.policy) /\ IsProposal(log, a.proposal)
          /\ \A pair \in pairs : pair.proposal # a.proposal
    <2> SUFFICES ASSUME NEW a \in new
                 PROVE  /\ a = [policy |-> a.policy, proposal |-> a.proposal]
                        /\ a.policy = order[n + 1]
                        /\ \E k \in DOMAIN order : a.proposal = order[k]
                        /\ ~IsProposal(log, a.policy) /\ IsProposal(log, a.proposal)
                        /\ \A pair \in pairs : pair.proposal # a.proposal
      OBVIOUS
    <2>1. PICK k \in DOMAIN order :
              /\ a = [policy |-> order[n + 1], proposal |-> order[k]]
              /\ ~IsProposal(log, order[n + 1]) /\ IsProposal(log, order[k])
              /\ \A pair \in pairs : pair.proposal # order[k]
      BY <1>1, WhatIsTaken
    <2>2. a.policy = order[n + 1] /\ a.proposal = order[k]
      BY <2>1
    <2> QED BY <2>1, <2>2
  <1>5. \A pair \in pairs : \E k \in 1..n : pair.policy = order[k] /\ k \in 1..(n + 1)
    BY DEF Paired
  <1>6. \A pair \in pairs, a \in new : pair.policy # a.policy
    <2> SUFFICES ASSUME NEW pair \in pairs, NEW a \in new PROVE pair.policy # a.policy
      OBVIOUS
    <2>1. PICK k \in 1..n : pair.policy = order[k]
      BY <1>5
    <2>2. k \in DOMAIN order /\ k # n + 1
      BY <1>2
    <2> QED BY <1>1, <1>4, <2>1, <2>2
  <1> HIDE DEF new
  <1>7. \A pair \in pairs \cup new :
          /\ pair = [policy |-> pair.policy, proposal |-> pair.proposal]
          /\ \E k \in 1..(n + 1) : pair.policy = order[k]
          /\ \E k \in DOMAIN order : pair.proposal = order[k]
          /\ ~IsProposal(log, pair.policy) /\ IsProposal(log, pair.proposal)
    <2>1. n + 1 \in 1..(n + 1)
      OBVIOUS
    <2> QED BY <1>4, <1>5, <2>1, Zenon DEF Paired
  <1>8. \A a, b \in pairs \cup new : a.policy = b.policy \/ a.proposal = b.proposal => a = b
    <2>1. \A a, b \in pairs : a.policy = b.policy \/ a.proposal = b.proposal => a = b
      BY DEF Paired
    <2> QED BY <1>3, <1>4, <1>6, <2>1, Zenon
  <1> QED BY <1>7, <1>8 DEF Paired, new

-----------------------------------------------------------------------------
(* Nothing listed is undecided: then the pairs are the right ones, and     *)
(* each decision so far whose proposal is listed has its pair.             *)
Settled(log, order) == \A q \in ToSet(order) :
    IsProposal(log, q) => \E d \in ToSet(order) : ~IsProposal(log, d) /\ log[d].about = q

Right(log, order, n, pairs) ==
    /\ \A pair \in pairs : pair.proposal = log[pair.policy].about
    /\ \A k \in 1..n : ~IsProposal(log, order[k]) /\ log[order[k]].about \in ToSet(order) =>
          [policy |-> order[k], proposal |-> log[order[k]].about] \in pairs

(* A proposal newer than the one a decision is on has been taken in before *)
(* it: its own decision is newer, and listed before.                       *)
LEMMA NewerIsTaken ==
    ASSUME NEW log, LogOK(log), NEW order, ListingOK(log, order), Settled(log, order),
           NEW n \in Nat, n + 1 \in DOMAIN order, NEW pairs, Right(log, order, n, pairs),
           NEW p, p = order[n + 1], ~IsProposal(log, p),
           NEW x \in ToSet(order), IsProposal(log, x), log[p].about < x
    PROVE  \E pair \in pairs : pair.proposal = x
  <1>1. /\ order \in Seq(Nat) /\ ToSet(order) \subseteq DOMAIN log
        /\ DOMAIN log = 1..Len(log) /\ Len(log) \in Nat
        /\ \A i, j \in DOMAIN order : i < j => log[order[i]].at >= log[order[j]].at
    BY DEF ListingOK, Newest, LogOK
  <1>2. DOMAIN order = 1..Len(order) /\ Len(order) \in Nat
    BY <1>1
  <1>3. p \in ToSet(order)
    BY DEF ToSet
  <1>4. PICK d \in ToSet(order) : ~IsProposal(log, d) /\ log[d].about = x
    BY DEF Settled
  <1>5. d \in DOMAIN log /\ p \in DOMAIN log /\ x \in Nat /\ d \in Nat /\ p \in Nat
    BY <1>1, <1>3
  <1>6. log[p].about \in Nat /\ log[p].at \in Nat /\ log[d].at \in Nat
    <2>1. log[p] \in LogEvents /\ log[d] \in LogEvents
      BY <1>5 DEF LogOK
    <2> QED BY <2>1, CaioCardsAssumption DEF LogEvents
  <1>7. p < d
    <2>1. ~(d < p)
      <3>1. d < p => log[d].about < log[p].about
        BY <1>4, <1>5 DEF LogOK, InTurn
      <3> QED BY <1>4, <1>5, <1>6, <3>1
    <2>2. d # p
      BY <1>4, <1>5, <1>6
    <2> QED BY <1>5, <2>1, <2>2
  <1>8. log[p].at < log[d].at
    <2>1. log[p].type = log[d].type
      <3>1. log[p] \in LogEvents /\ log[d] \in LogEvents
        BY <1>5 DEF LogOK
      <3> QED BY <1>4, <3>1 DEF LogEvents, IsProposal
    <2> QED BY <1>5, <1>7, <2>1 DEF LogOK, Stamped
  <1>9. PICK j \in DOMAIN order : d = order[j]
    BY DEF ToSet
  <1>10. j \in 1..n
    <2>1. ~(n + 1 < j)
      BY <1>1, <1>6, <1>8, <1>9
    <2>2. j # n + 1
      BY <1>6, <1>8, <1>9
    <2> QED BY <1>2, <2>1, <2>2
  <1>11. [policy |-> d, proposal |-> x] \in pairs
    BY <1>4, <1>9, <1>10 DEF Right
  <1> QED BY <1>11

LEMMA RightStep ==
    ASSUME NEW log, LogOK(log), NEW order, ListingOK(log, order), Settled(log, order),
           NEW n \in Nat, n + 1 \in DOMAIN order,
           NEW pairs, Paired(log, order, n, pairs), Right(log, order, n, pairs)
    PROVE  Right(log, order, n + 1, pairs \cup Taken(log, order, pairs, order[n + 1]))
  <1> DEFINE p == order[n + 1]
             a == log[p].about
             new == Taken(log, order, pairs, p)
             K == Candidates(log, order, pairs, p)
  <1>1. /\ order \in Seq(Nat) /\ ToSet(order) \in Newest(log)
        /\ ToSet(order) \subseteq DOMAIN log
        /\ DOMAIN log = 1..Len(log) /\ Len(log) \in Nat
        /\ \A i, j \in DOMAIN order : i # j => order[i] # order[j]
        /\ \A i, j \in DOMAIN order : i < j => log[order[i]].at >= log[order[j]].at
    BY DEF ListingOK, Newest, LogOK
  <1>2. DOMAIN order = 1..Len(order) /\ Len(order) \in Nat
    BY <1>1
  <1>3. p \in DOMAIN log /\ \A k \in DOMAIN order : order[k] \in ToSet(order)
    BY <1>1 DEF ToSet
  <1>4. \A pair \in pairs : pair.proposal = log[pair.policy].about
    BY DEF Right
  <1>5. CASE IsProposal(log, p)
    <2>1. new = {}
      BY <1>5 DEF Taken, FirstListed, Candidates
    <2>2. \A k \in 1..(n + 1) : k \in 1..n \/ k = n + 1
      OBVIOUS
    <2> QED BY <1>5, <2>1, <2>2 DEF Right
  <1>6. CASE ~IsProposal(log, p)
    <2>1. a \in 1..(p - 1) /\ IsProposal(log, a) /\ Near(log, p, a) /\ a \in Nat
      <3>1. a \in 1..(p - 1) /\ IsProposal(log, a) /\ Near(log, p, a)
        BY <1>3, <1>6 DEF LogOK, WellFormed
      <3> QED BY <3>1
    <2>2. \A k \in K : ~(a < order[k])
      <3> SUFFICES ASSUME NEW k \in K, a < order[k] PROVE FALSE
        OBVIOUS
      <3>1. /\ k \in DOMAIN order /\ order[k] \in ToSet(order) /\ IsProposal(log, order[k])
            /\ \A pair \in pairs : pair.proposal # order[k]
        BY <1>3 DEF Candidates
      <3>2. \E pair \in pairs : pair.proposal = order[k]
        BY <1>6, <3>1, NewerIsTaken
      <3> QED BY <3>1, <3>2
    <2>3. CASE a \notin ToSet(order)
      <3>1. \A k \in DOMAIN order : IsProposal(log, order[k]) => a < order[k]
        <4> SUFFICES ASSUME NEW k \in DOMAIN order, IsProposal(log, order[k]) PROVE a < order[k]
          OBVIOUS
        <4>1. /\ a \in DOMAIN log /\ order[k] \in DOMAIN log /\ order[k] \in Nat
              /\ order[k] \in ToSet(order) /\ order[k] # a
          BY <1>1, <1>3, <2>1, <2>3
        <4>2. log[order[k]].at >= log[a].at
          BY <1>1, <2>3, <4>1 DEF Newest
        <4>3. order[k] < a => log[order[k]].at < log[a].at
          BY <2>1, <4>1 DEF LogOK, Stamped, IsProposal
        <4>4. log[order[k]].at \in Nat /\ log[a].at \in Nat
          <5>1. log[order[k]] \in LogEvents /\ log[a] \in LogEvents
            BY <4>1 DEF LogOK
          <5> QED BY <5>1, CaioCardsAssumption DEF LogEvents
        <4> HIDE DEF a
        <4> QED BY <2>1, <4>1, <4>2, <4>3, <4>4
      <3>2. K = {}
        BY <2>2, <3>1 DEF Candidates
      <3>3. new = {}
        BY <3>2 DEF Taken, FirstListed
      <3>4. \A k \in 1..(n + 1) : k \in 1..n \/ k = n + 1
        OBVIOUS
      <3> QED BY <2>3, <3>3, <3>4 DEF Right
    <2>4. CASE a \in ToSet(order)
      <3>1. PICK m \in DOMAIN order : order[m] = a
        BY <2>4 DEF ToSet
      <3>2. \A pair \in pairs : pair.proposal # a
        <4> SUFFICES ASSUME NEW pair \in pairs, pair.proposal = a PROVE FALSE
          OBVIOUS
        <4>1. PICK k \in 1..n : pair.policy = order[k] /\ ~IsProposal(log, order[k])
          BY DEF Paired
        <4>2. k \in DOMAIN order /\ k # n + 1
          BY <1>2
        <4>3. order[k] # p /\ order[k] \in DOMAIN log
          BY <1>1, <1>3, <4>2
        <4>4. log[order[k]].about = a
          BY <1>4, <4>1
        <4>5. ~(order[k] < p) /\ ~(p < order[k])
          <5>1. order[k] < p => log[order[k]].about < a
            BY <1>3, <1>6, <4>1, <4>3 DEF LogOK, InTurn
          <5>2. p < order[k] => a < log[order[k]].about
            BY <1>3, <1>6, <4>1, <4>3 DEF LogOK, InTurn
          <5> QED BY <2>1, <4>4, <5>1, <5>2
        <4> QED BY <1>1, <1>3, <4>3, <4>5
      <3>3. m \in K
        BY <1>6, <2>1, <3>1, <3>2 DEF Candidates
      <3>4. \A k \in K : m <= k
        <4> SUFFICES ASSUME NEW k \in K, k < m PROVE FALSE
          BY <1>2, <3>1 DEF Candidates
        <4>1. k \in DOMAIN order /\ IsProposal(log, order[k]) /\ order[k] \in DOMAIN log
          BY <1>1, <1>3 DEF Candidates
        <4>2. log[order[k]].at >= log[a].at /\ order[k] # a
          BY <1>1, <1>2, <3>1, <4>1
        <4>3. order[k] < a => log[order[k]].at < log[a].at
          <5>1. a \in DOMAIN log /\ log[order[k]].type = log[a].type
            BY <1>1, <2>1, <2>4, <4>1 DEF IsProposal
          <5> QED BY <4>1, <5>1 DEF LogOK, Stamped
        <4>4. log[order[k]].at \in Nat /\ log[a].at \in Nat
          <5>1. log[order[k]] \in LogEvents /\ log[a] \in LogEvents
            BY <1>1, <2>4, <4>1 DEF LogOK
          <5> QED BY <5>1, CaioCardsAssumption DEF LogEvents
        <4>5. a < order[k]
          <5>1. order[k] \in Nat /\ ~(order[k] < a)
            <6>1. order[k] \in Nat
              BY <1>1, <4>1
            <6> HIDE DEF a, K
            <6> QED BY <4>2, <4>3, <4>4, <6>1
          <5> QED BY <2>1, <4>2, <5>1
        <4> QED BY <2>2, <4>5
      <3>5. \A k \in FirstListed(K) : k = m
        <4>1. K \subseteq Nat
          BY <1>2 DEF Candidates
        <4>2. \A k \in FirstListed(K) : k \in K /\ k <= m
          BY <3>3 DEF FirstListed
        <4> QED BY <3>3, <3>4, <4>1, <4>2
      <3>6. m \in FirstListed(K)
        BY <3>3, <3>4 DEF FirstListed
      <3>7. new = {[policy |-> p, proposal |-> a]}
        BY <3>1, <3>5, <3>6 DEF Taken
      <3>8. \A k \in 1..(n + 1) : k \in 1..n \/ k = n + 1
        OBVIOUS
      <3>9. \A pair \in pairs \cup new : pair.proposal = log[pair.policy].about
        BY <1>4, <3>7
      <3>10. \A k \in 1..(n + 1) : ~IsProposal(log, order[k]) /\ log[order[k]].about \in ToSet(order) =>
               [policy |-> order[k], proposal |-> log[order[k]].about] \in pairs \cup new
        BY <3>7, <3>8 DEF Right
      <3> QED BY <3>9, <3>10 DEF Right
    <2> QED BY <2>3, <2>4
  <1> QED BY <1>5, <1>6

-----------------------------------------------------------------------------
(* After the whole loop *)
LEMMA PairsOK ==
    ASSUME NEW log, LogOK(log), NEW order, ListingOK(log, order)
    PROVE  /\ Paired(log, order, Len(order), Pairs(log, order))
           /\ Settled(log, order) => Right(log, order, Len(order), Pairs(log, order))
  <1> DEFINE N == Len(order)
  <1>1. order \in Seq(Nat) /\ N \in Nat /\ DOMAIN order = 1..N
    BY DEF ListingOK
  <1>2. PICK g : Loop(log, order, g) /\ Pairs(log, order) = g[N]
    BY <1>1, LoopEnds
  <1> DEFINE P(n) == /\ Paired(log, order, n, g[n])
                     /\ Settled(log, order) => Right(log, order, n, g[n])
             S == {n \in Nat : n <= N => P(n)}
  <1>3. g[0] = {} /\ \A n \in 1..N : g[n] = g[n - 1] \cup Taken(log, order, g[n - 1], order[n])
    <2> HIDE DEF S
    <2>1. g = [n \in 0..N |->
                IF n = 0 THEN {} ELSE g[n - 1] \cup Taken(log, order, g[n - 1], order[n])]
      BY <1>2 DEF Loop
    <2> HIDE DEF N
    <2>2. 0 \in 0..N /\ \A n \in 1..N : n \in 0..N /\ n # 0
      BY <1>1
    <2>3. g[0] = {}
      BY <2>1, <2>2, Zenon
    <2>4. \A n \in 1..N : g[n] = g[n - 1] \cup Taken(log, order, g[n - 1], order[n])
      BY <2>1, <2>2, Zenon
    <2> QED BY <2>3, <2>4
  <1>4. 0 \in S
    BY <1>3 DEF Paired, Right
  <1> HIDE DEF N, P
  <1>5. ASSUME NEW n \in Nat, n \in S PROVE n + 1 \in S
    <2> SUFFICES ASSUME n + 1 <= N PROVE P(n + 1)
      OBVIOUS
    <2>1. n + 1 \in DOMAIN order /\ n <= N
      BY <1>1
    <2>2. Paired(log, order, n, g[n]) /\ (Settled(log, order) => Right(log, order, n, g[n]))
      <3>1. P(n)
        BY <1>5, <2>1
      <3> QED BY <3>1 DEF P
    <2>3. g[n + 1] = g[n] \cup Taken(log, order, g[n], order[n + 1])
      <3>1. n + 1 \in 1..N /\ (n + 1) - 1 = n
        BY <1>1
      <3>2. g[n + 1] = g[(n + 1) - 1] \cup Taken(log, order, g[(n + 1) - 1], order[n + 1])
        BY <1>3, <3>1, Zenon
      <3> QED BY <3>1, <3>2
    <2> HIDE DEF S
    <2>4. Paired(log, order, n + 1, g[n + 1])
      BY <2>1, <2>2, <2>3, PairedStep
    <2>5. Settled(log, order) => Right(log, order, n + 1, g[n + 1])
      BY <2>1, <2>2, <2>3, RightStep
    <2> QED BY <2>4, <2>5 DEF P
  <1>6. N \in S
    <2> HIDE DEF S
    <2> QED BY <1>1, <1>4, <1>5, SetInduction
  <1>7. P(N)
    BY <1>1, <1>6
  <1> QED BY <1>2, <1>7 DEF N, P

LEMMA NotUnsettled ==
    ASSUME NEW log, NEW order, ~Unsettled(log, order) PROVE Settled(log, order)
  BY DEF Unsettled, DecidedOn, Settled

(* Settled, every listed decision whose proposal is listed has its pair. *)
LEMMA PairsRight ==
    ASSUME NEW log, LogOK(log), NEW order, ListingOK(log, order), ~Unsettled(log, order)
    PROVE  /\ \A pair \in Pairs(log, order) : pair.proposal = log[pair.policy].about
           /\ \A d \in ToSet(order) : ~IsProposal(log, d) /\ log[d].about \in ToSet(order) =>
                 [policy |-> d, proposal |-> log[d].about] \in Pairs(log, order)
  <1>1. Right(log, order, Len(order), Pairs(log, order))
    BY NotUnsettled, PairsOK
  <1>2. DOMAIN order = 1..Len(order)
    BY DEF ListingOK
  <1> QED BY <1>1, <1>2 DEF Right, ToSet

LEMMA CardsRight ==
    ASSUME NEW log, LogOK(log), NEW order, ListingOK(log, order), NEW q \in Proposals(log, order)
    PROVE  Cardinality(ShownOn(log, order, q)) = 1
  <1> DEFINE pairs == Pairs(log, order)
  <1>1. /\ \A pair \in pairs :
             /\ pair = [policy |-> pair.policy, proposal |-> pair.proposal]
             /\ pair.policy \in ToSet(order)
             /\ ~IsProposal(log, pair.policy) /\ IsProposal(log, pair.proposal)
        /\ \A a, b \in pairs : a.proposal = b.proposal => a = b
    <2>1. Paired(log, order, Len(order), pairs)
      BY PairsOK
    <2>2. DOMAIN order = 1..Len(order)
      BY DEF ListingOK
    <2>3. \A k \in 1..Len(order) : order[k] \in ToSet(order)
      BY <2>2 DEF ToSet
    <2> QED BY <2>1, <2>3, Zenon DEF Paired
  <1>2. q \in ToSet(order) /\ IsProposal(log, q)
    BY DEF Proposals
  <1> HIDE DEF pairs
  <1>3. \E i : ShownOn(log, order, q) = {i}
    <2>1. CASE \E pair \in pairs : pair.proposal = q
      <3>1. PICK pair \in pairs : pair.proposal = q
        BY <2>1
      <3>2. [policy |-> pair.policy, proposal |-> q] \in pairs
        BY <1>1, <3>1
      <3>3. pair.policy \in Shown(log, order)
        BY <1>1, <3>1 DEF Shown, pairs
      <3>4. \A i \in ShownOn(log, order, q) : i = pair.policy
        <4> SUFFICES ASSUME NEW i \in ShownOn(log, order, q) PROVE i = pair.policy
          OBVIOUS
        <4>1. i # q
          BY <3>1 DEF ShownOn, Shown, pairs
        <4>2. [policy |-> i, proposal |-> q] \in pairs
          BY <4>1 DEF ShownOn, pairs
        <4>3. [policy |-> i, proposal |-> q] = pair
          BY <1>1, <3>1, <4>2
        <4> QED BY <4>3
      <3>5. pair.policy \in ShownOn(log, order, q)
        BY <3>2, <3>3 DEF ShownOn, pairs
      <3> QED BY <3>4, <3>5
    <2>2. CASE \A pair \in pairs : pair.proposal # q
      <3>1. q \in ShownOn(log, order, q)
        BY <1>2, <2>2 DEF ShownOn, Shown, pairs
      <3>2. \A i \in ShownOn(log, order, q) : i = q
        BY <2>2 DEF ShownOn, pairs
      <3> QED BY <3>1, <3>2
    <2> QED BY <2>1, <2>2
  <1> QED BY <1>3, FS_Singleton

LEMMA AskedRight ==
    ASSUME NEW log, LogOK(log), NEW order, ListingOK(log, order), ~Unsettled(log, order),
           NEW q \in Proposals(log, order), NEW i \in ShownOn(log, order, q), log[q].pedro
    PROVE  \/ Category(log, order, i) = "pedro"
           \/ DecidedOn(log, q, {p \in ToSet(order) : log[p].blocked})
  <1>1. q \in ToSet(order) /\ IsProposal(log, q) /\ i \in ToSet(order)
    BY DEF Proposals, ShownOn, Shown
  <1>2. i # q
    <2>1. PICK d \in ToSet(order) : ~IsProposal(log, d) /\ log[d].about = q
      BY <1>1, NotUnsettled DEF Settled
    <2>2. [policy |-> d, proposal |-> q] \in Pairs(log, order)
      BY <1>1, <2>1, PairsRight
    <2>3. q \notin Shown(log, order)
      BY <2>2 DEF Shown
    <2> QED BY <2>3 DEF ShownOn
  <1>3. [policy |-> i, proposal |-> q] \in Pairs(log, order)
    BY <1>2 DEF ShownOn
  <1>4. log[i].about = q /\ ~IsProposal(log, i)
    <2>1. [policy |-> i, proposal |-> q].proposal = log[[policy |-> i, proposal |-> q].policy].about
      BY <1>3, PairsRight, Zenon
    <2>2. ~IsProposal(log, [policy |-> i, proposal |-> q].policy)
      BY <1>3, PairsOK DEF Paired
    <2> QED BY <2>1, <2>2
  <1>5. AsksPedro(log, order, i)
    <2>1. log[[policy |-> i, proposal |-> q].proposal].pedro
      OBVIOUS
    <2> QED BY <1>3, <2>1 DEF AsksPedro
  <1>6. CASE log[i].blocked
    BY <1>1, <1>4, <1>6 DEF DecidedOn
  <1>7. CASE ~log[i].blocked
    BY <1>5, <1>7 DEF Category
  <1> QED BY <1>6, <1>7

LEMMA CardsOK == OnOneCard /\ PairedRight /\ Asked
  <1>1. OnOneCard
    BY ReadingsOK, CardsRight, Zenon DEF OnOneCard
  <1>2. PairedRight
    BY ReadingsOK, PairsRight, Zenon DEF PairedRight
  <1>3. Asked
    BY ReadingsOK, AskedRight, Zenon DEF Asked
  <1> QED BY <1>1, <1>2, <1>3

-----------------------------------------------------------------------------
(* However long the log and in whatever order equal stamps are listed,     *)
(* every listed proposal is on exactly one card: the loop takes in no      *)
(* proposal twice and no decision is itself taken in                       *)
(* (app/caio/page.tsx:1255-1294).                                          *)
THEOREM OneCard == Spec => []OneCardPerProposal
  <1>1. OneCardPerProposal
    BY CardsOK DEF OneCardPerProposal
  <1> QED BY <1>1, PTL

(* Once every listed proposal has been decided on, pairing by time alone   *)
(* gives each decision the proposal it is on: a newer proposal was taken   *)
(* in by its own decision, which is listed before (page.tsx:1266-1279).    *)
THEOREM WrongPairs == Spec => []WrongPairOnlyUnsettled
  <1>1. WrongPairOnlyUnsettled
    BY CardsOK DEF WrongPairOnlyUnsettled
  <1> QED BY <1>1, PTL

(* A proposal that needs Pedro then reaches the tab that asks for him,     *)
(* unless its policy decision blocked it (page.tsx:605-640).               *)
THEOREM PedroAsked == Spec => []PedroIsAsked
  <1>1. PedroIsAsked
    BY CardsOK DEF PedroIsAsked
  <1> QED BY <1>1, PTL
=============================================================================
