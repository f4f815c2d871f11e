------------------------- MODULE CaioDecisionsProofs -------------------------
(***************************************************************************)
(* Proofs about CaioDecisions for any number of events, messages and       *)
(* requests: its invariants, and that it implements DecisionLedger.        *)
(***************************************************************************)
EXTENDS CaioDecisions, TLAPS

(* A request that goes on to stamp a row has found it approved: rows are   *)
(* never removed and decisions never change.                               *)
WorkApproved == \A q \in Requests : pc[q] \in {"start", "complete"} => Approved(event[q])

IInv == TypeOK /\ WorkApproved /\ AnswersAgree

-----------------------------------------------------------------------------
LEMMA RowFields ==
    ASSUME NEW r \in Rows
    PROVE  /\ r.decision \in Decisions /\ r.message \in MessageIds
           /\ r.started \in Nat /\ r.completed \in Nat
           /\ r # NoRow
  BY NoRowAssumption DEF Rows

LEMMA IInvInit == Init => IInv
  <1> SUFFICES ASSUME Init PROVE IInv
    OBVIOUS
  <1>1. TypeOK
    BY CaioAssumption DEF Init, TypeOK, PCs, Decisions, MessageIds
  <1>2. WorkApproved /\ AnswersAgree
    BY DEF Init, WorkApproved, AnswersAgree
  <1> QED BY <1>1, <1>2 DEF IInv

(* How a row may change: it appears, or keeps its decision and message.    *)
Kept == \A e \in Events : row[e] # NoRow =>
    /\ row'[e] # NoRow
    /\ row'[e].decision = row[e].decision
    /\ row'[e].message = row[e].message

LEMMA StepType ==
    ASSUME IInv, NEW q \in Requests,
           Post(q) \/ Insert(q) \/ Resolve(q) \/ PostStart(q) \/ PostComplete(q)
             \/ Stamp(q)
    PROVE  TypeOK' /\ Kept
  <1> USE DEF IInv, TypeOK, PCs, asked
  <1>1. CASE Post(q)
    BY <1>1, CaioAssumption DEF Post, Serve, Goto, Kept
  <1>2. CASE Insert(q)
    <2>1. [decision |-> decision[q], message |-> message[q],
           started |-> Never, completed |-> Never] \in Rows
      BY DEF Rows, Never
    <2>2. CASE row[event[q]] = NoRow /\ Recorded(q) /\ Accept(q) /\ Goto(q, "idle")
      <3>1. row' \in [Events -> Rows \cup {NoRow}] /\ Kept
        BY <2>1, <2>2 DEF Recorded, Kept
      <3>2. accepted' \subseteq
              [event : Events, decision : Decisions, message : MessageIds]
        BY <2>2 DEF Accept
      <3> QED BY <1>2, <2>2, <3>1, <3>2 DEF Insert, Goto
    <2>3. CASE Goto(q, "conflict") /\ UNCHANGED <<row, accepted>>
      BY <1>2, <2>3 DEF Insert, Goto, Kept
    <2> QED BY <1>2, <2>2, <2>3 DEF Insert
  <1>3. CASE Resolve(q)
    <2>1. accepted' \subseteq
            [event : Events, decision : Decisions, message : MessageIds]
      BY <1>3 DEF Resolve, Accept
    <2> QED BY <1>3, <2>1 DEF Resolve, Goto, Kept
  <1>4. CASE PostStart(q)
    BY <1>4, CaioAssumption DEF PostStart, Serve, Goto, Kept
  <1>5. CASE PostComplete(q)
    BY <1>5, CaioAssumption DEF PostComplete, Serve, Goto, Kept
  <1>6. CASE Stamp(q)
    <2>1. row[event[q]] \in Rows
      BY <1>6 DEF Stamp, WorkApproved, Approved
    <2>2. clock' \in Nat
      BY <1>6 DEF Stamp
    <2>3. PICK r \in Rows : /\ row' = [row EXCEPT ![event[q]] = r]
                            /\ r.decision = row[event[q]].decision
                            /\ r.message = row[event[q]].message
      <3>1. CASE pc[q] = "start"
        <4>1. [row[event[q]] EXCEPT !.started = clock'] \in Rows
          BY <2>1, <2>2 DEF Rows
        <4> QED BY <1>6, <2>1, <3>1, <4>1 DEF Stamp, Rows
      <3>2. CASE pc[q] = "complete"
        <4>1. [row[event[q]] EXCEPT !.completed = clock'] \in Rows
          BY <2>1, <2>2 DEF Rows
        <4> QED BY <1>6, <2>1, <3>2, <4>1 DEF Stamp, Rows
      <3> QED BY <1>6, <3>1, <3>2 DEF Stamp
    <2>4. Kept
      BY <2>3, RowFields DEF Kept
    <2> QED BY <1>6, <2>2, <2>3, <2>4 DEF Stamp, Goto
  <1> QED BY <1>1, <1>2, <1>3, <1>4, <1>5, <1>6

LEMMA StepWork ==
    ASSUME IInv, NEW q \in Requests, TypeOK', Kept,
           Post(q) \/ Insert(q) \/ Resolve(q) \/ PostStart(q) \/ PostComplete(q)
             \/ Stamp(q)
    PROVE  WorkApproved'
  <1> SUFFICES ASSUME NEW p \in Requests, pc'[p] \in {"start", "complete"}
               PROVE  Approved(event[p])'
    BY DEF WorkApproved
  <1>1. event[p] \in Events /\ event'[p] \in Events
    BY DEF IInv, TypeOK
  <1>2. CASE PostStart(q) /\ p = q
    BY <1>1, <1>2 DEF PostStart, Approved, IInv, TypeOK
  <1>3. CASE PostComplete(q) /\ p = q
    BY <1>1, <1>3 DEF PostComplete, Approved, IInv, TypeOK
  <1>4. CASE ~((PostStart(q) \/ PostComplete(q)) /\ p = q)
    <2>1. pc[p] = pc'[p] /\ event'[p] = event[p]
      BY <1>4 DEF Post, Insert, Resolve, PostStart, PostComplete, Stamp, Serve,
                  Goto, asked, IInv, TypeOK
    <2>2. Approved(event[p])
      BY <2>1 DEF IInv, WorkApproved
    <2> QED BY <1>1, <2>1, <2>2 DEF Kept, Approved
  <1> QED BY <1>2, <1>3, <1>4

LEMMA StepAnswers ==
    ASSUME IInv, NEW q \in Requests, TypeOK', Kept,
           Post(q) \/ Insert(q) \/ Resolve(q) \/ PostStart(q) \/ PostComplete(q)
             \/ Stamp(q)
    PROVE  AnswersAgree'
  <1> DEFINE answer == [event |-> event[q], decision |-> decision[q],
                        message |-> message[q]]
             Agrees(x) == /\ row'[x.event] # NoRow
                          /\ row'[x.event].decision = x.decision
                          /\ \/ x.message = NoMessage
                             \/ row'[x.event].message \in {NoMessage, x.message}
  <1>1. \A x \in accepted : Agrees(x)
    <2> SUFFICES ASSUME NEW x \in accepted PROVE Agrees(x)
      OBVIOUS
    <2>1. x.event \in Events
      BY DEF IInv, TypeOK
    <2> QED BY <2>1 DEF IInv, AnswersAgree, Kept
  <1>2. accepted' = accepted \/ (accepted' = accepted \cup {answer} /\ Agrees(answer))
    <2>1. CASE Insert(q)
      <3>1. CASE row[event[q]] = NoRow /\ Recorded(q) /\ Accept(q)
        <4>1. row'[event[q]] = [decision |-> decision[q], message |-> message[q],
                                started |-> Never, completed |-> Never]
          BY <3>1 DEF Recorded, IInv, TypeOK
        <4>2. row'[event[q]] \in Rows
          BY <4>1 DEF Rows, Never, IInv, TypeOK
        <4>3. Agrees(answer)
          BY <4>1, <4>2, RowFields
        <4> QED BY <3>1, <4>3 DEF Accept
      <3> QED BY <2>1, <3>1 DEF Insert
    <2>2. CASE Resolve(q)
      <3>1. CASE row[event[q]] # NoRow /\ Compatible(q, row[event[q]])
        <4>1. Agrees(answer)
          BY <2>2, <3>1 DEF Resolve, Compatible
        <4> QED BY <2>2, <3>1, <4>1 DEF Resolve, Accept
      <3> QED BY <2>2, <3>1 DEF Resolve
    <2> QED BY <2>1, <2>2 DEF Post, PostStart, PostComplete, Stamp
  <1>3. \A x \in accepted' : Agrees(x)
    BY <1>1, <1>2
  <1> QED BY <1>3 DEF AnswersAgree

LEMMA IInvNext == IInv /\ [Next]_vars => IInv'
  <1> SUFFICES ASSUME IInv, [Next]_vars PROVE IInv'
    OBVIOUS
  <1>1. CASE UNCHANGED vars
    BY <1>1 DEF vars, asked, IInv, TypeOK, WorkApproved, Approved, AnswersAgree
  <1>2. ASSUME NEW q \in Requests,
               Post(q) \/ Insert(q) \/ Resolve(q) \/ PostStart(q) \/ PostComplete(q)
                 \/ Stamp(q)
        PROVE  IInv'
    BY <1>2, StepType, StepWork, StepAnswers DEF IInv
  <1> QED BY <1>1, <1>2 DEF Next

LEMMA IInvAlways == Spec => []IInv
  BY IInvInit, IInvNext, PTL DEF Spec

(* Every variable keeps its type. *)
THEOREM TypeCorrect == Spec => []TypeOK
  <1>1. IInv => TypeOK
    BY DEF IInv
  <1> QED BY <1>1, IInvAlways, PTL

(* No two requests that were answered with 200 contradict each other       *)
(* about an event: mark_think_loop_decision is first-wins, with the unique *)
(* index as its only synchronisation.                                      *)
THEOREM AnswersNeverContradict == Spec => []AnswersAgree
  <1>1. IInv => AnswersAgree
    BY DEF IInv
  <1> QED BY <1>1, IInvAlways, PTL
-----------------------------------------------------------------------------
(* Refinement: a step of a request records a verdict on an event without   *)
(* one, stamps an approved event, or leaves the ledger as it is.           *)
LEMMA LedgerInit == Init => Ledger!Init
  BY DEF Init, Ledger!Init, Verdict, Stamped

LEMMA VerdictInsert ==
    ASSUME IInv, NEW q \in Requests, row[event[q]] = NoRow, Recorded(q)
    PROVE  Ledger!Decide(event[q])
  <1>1. event[q] \in Events /\ decision[q] \in Ledger!Verdicts
    BY DEF IInv, TypeOK, Ledger!Verdicts, Decisions
  <1> DEFINE new == [decision |-> decision[q], message |-> message[q],
                     started |-> Never, completed |-> Never]
  <1>2. new \in Rows
    BY DEF Rows, Never, IInv, TypeOK
  <1>3. row' = [row EXCEPT ![event[q]] = new] /\ new # NoRow
    BY <1>2, RowFields DEF Recorded
  <1>4. \A e \in Events :
          Verdict(e)' = IF e = event[q] THEN decision[q] ELSE Verdict(e)
    BY <1>1, <1>3 DEF Verdict, IInv, TypeOK
  <1>5. \A e \in Events : (Stamped(e, "started")' <=> Stamped(e, "started"))
                        /\ (Stamped(e, "completed")' <=> Stamped(e, "completed"))
    BY <1>1, <1>3 DEF Stamped, IInv, TypeOK
  <1>6. Verdict(event[q]) = NoRow
    BY DEF Verdict
  <1> QED BY <1>1, <1>4, <1>5, <1>6 DEF Ledger!Decide

LEMMA RowsKept ==
    ASSUME UNCHANGED row
    PROVE  UNCHANGED Ledger!ledger
  BY DEF Ledger!ledger, Verdict, Stamped

LEMMA StampRefines ==
    ASSUME IInv, NEW q \in Requests, Stamp(q)
    PROVE  Ledger!Start(event[q]) \/ Ledger!Complete(event[q])
  <1>1. event[q] \in Events /\ row[event[q]] \in Rows /\ Approved(event[q])
    BY DEF Stamp, IInv, TypeOK, WorkApproved, Approved
  <1>2. clock' \in Nat /\ clock' # Never
    BY DEF Stamp, IInv, TypeOK, Never
  <1>3. Verdict(event[q]) = "approve"
    BY <1>1 DEF Approved, Verdict
  <1>4. CASE pc[q] = "start"
    <2> DEFINE new == [row[event[q]] EXCEPT !.started = clock']
    <2>1. row' = [row EXCEPT ![event[q]] = new]
      BY <1>4 DEF Stamp
    <2>2. /\ new \in Rows /\ new.started = clock'
          /\ new.decision = row[event[q]].decision
          /\ new.completed = row[event[q]].completed
      BY <1>1, <1>2 DEF Rows
    <2>3. \A e \in Events : Verdict(e)' = Verdict(e)
      BY <1>1, <2>1, <2>2, RowFields DEF Verdict, IInv, TypeOK
    <2>4. \A e \in Events : Stamped(e, "completed")' <=> Stamped(e, "completed")
      BY <1>1, <2>1, <2>2, RowFields DEF Stamped, IInv, TypeOK
    <2>5. \A e \in Events :
            Stamped(e, "started")' <=> Stamped(e, "started") \/ e = event[q]
      BY <1>1, <1>2, <2>1, <2>2, RowFields DEF Stamped, IInv, TypeOK
    <2> QED BY <1>1, <1>3, <2>3, <2>4, <2>5 DEF Ledger!Start
  <1>5. CASE pc[q] = "complete"
    <2> DEFINE new == [row[event[q]] EXCEPT !.completed = clock']
    <2>1. row' = [row EXCEPT ![event[q]] = new]
      BY <1>5 DEF Stamp
    <2>2. /\ new \in Rows /\ new.completed = clock'
          /\ new.decision = row[event[q]].decision
          /\ new.started = row[event[q]].started
      BY <1>1, <1>2 DEF Rows
    <2>3. \A e \in Events : Verdict(e)' = Verdict(e)
      BY <1>1, <2>1, <2>2, RowFields DEF Verdict, IInv, TypeOK
    <2>4. \A e \in Events : Stamped(e, "started")' <=> Stamped(e, "started")
      BY <1>1, <2>1, <2>2, RowFields DEF Stamped, IInv, TypeOK
    <2>5. \A e \in Events :
            Stamped(e, "completed")' <=> Stamped(e, "completed") \/ e = event[q]
      BY <1>1, <1>2, <2>1, <2>2, RowFields DEF Stamped, IInv, TypeOK
    <2> QED BY <1>1, <1>3, <2>3, <2>4, <2>5 DEF Ledger!Complete
  <1> QED BY <1>4, <1>5 DEF Stamp

LEMMA LedgerNext == IInv /\ [Next]_vars => [Ledger!Next]_Ledger!ledger
  <1> SUFFICES ASSUME IInv, [Next]_vars PROVE [Ledger!Next]_Ledger!ledger
    OBVIOUS
  <1>1. CASE UNCHANGED vars
    BY <1>1, RowsKept DEF vars
  <1>2. ASSUME NEW q \in Requests, Insert(q) PROVE Ledger!Next \/ UNCHANGED Ledger!ledger
    <2>1. event[q] \in Events
      BY DEF IInv, TypeOK
    <2> QED BY <1>2, <2>1, VerdictInsert, RowsKept DEF Insert, Ledger!Next
  <1>3. ASSUME NEW q \in Requests, Stamp(q) PROVE Ledger!Next
    <2>1. event[q] \in Events
      BY DEF IInv, TypeOK
    <2> QED BY <1>3, <2>1, StampRefines DEF Ledger!Next
  <1>4. ASSUME NEW q \in Requests,
               Post(q) \/ Resolve(q) \/ PostStart(q) \/ PostComplete(q)
        PROVE  UNCHANGED Ledger!ledger
    BY <1>4, RowsKept DEF Post, Resolve, PostStart, PostComplete
  <1> QED BY <1>1, <1>2, <1>3, <1>4 DEF Next

(* The decision endpoints implement the ledger: the first verdict is       *)
(* terminal, stamps are only set, and only on approved events.             *)
THEOREM EndpointsImplementLedger == Spec => ImplementsLedger
  BY IInvAlways, LedgerInit, LedgerNext, PTL DEF Spec, ImplementsLedger, Ledger!Spec
=============================================================================
