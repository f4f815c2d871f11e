--------------------------- MODULE OnboardingProofs ---------------------------
(***************************************************************************)
(* Proofs about Onboarding for any number of dialogs, polls and failures:  *)
(* type correctness, that a dialog is out of date only for the causes      *)
(* named, and that an answer is taken for what the user saw. The argument  *)
(* follows the one call that a dialog has under way: until the agent is    *)
(* told behind its back or a poll comes late, the agent has at most one    *)
(* message to reply to, and what the dialog shows lets it wait for that.   *)
(***************************************************************************)
EXTENDS Onboarding, FiniteSetTheorems, SequenceTheorems, TLAPS

(* Each dialog inserts one session at most: those that have not started    *)
(* yet are still to insert theirs.                                         *)
Starting(c) == c.op = "start" /\ c.phase \in {"sent", "dispatched"}
Unstarted == {i \in Dialogs : i > opened \/ Starting(call[i])}
Numbered == Len(rows) + Cardinality(Unstarted) <= MaxDialogs

Sessions ==
    /\ rows \in Seq(Rows)
    /\ \A r \in DOMAIN rows : rows[r].draft # 0 => rows[r].status # "active"
    /\ newest \in 0..Len(rows)
    /\ due \in Nat /\ said \in Nat

(* What a call holds in each of its phases. *)
Held(c) ==
    /\ (c.op = "none" \/ c.phase = "idle") => c = NoCall
    /\ (c.op = "start" /\ c.phase = "ok") => c.copy # None
    /\ (c.op = "answer" /\ c.phase \in {"dispatched", "ok"}) => c.copy # None
    /\ c.phase = "dispatched" => c.op # "confirm"
    /\ (c.phase = "dispatched" /\ c.copy # None) => c.copy.id <= Len(rows)

Calls ==
    /\ call \in [Dialogs -> Posts]
    /\ \A i \in Dialogs : Held(call[i]) /\ (i > opened => call[i] = NoCall)

Displays ==
    /\ opened \in 0..MaxDialogs /\ open \subseteq 1..opened /\ stale \subseteq 1..opened
    /\ get \in [Dialogs -> [Polls -> {None} \cup Copies]]
    /\ session \in [Dialogs -> {None} \cup Copies]
    /\ awaiting \in [Dialogs -> Nat]
    /\ faults \in 0..MaxTrouble /\ lost \in BOOLEAN
    /\ \A i \in Dialogs : awaiting[i] # 0 => awaiting[i] = Last(i)
    /\ \A i \in Dialogs \ open :
        session[i] = None /\ awaiting[i] = 0 /\ \A p \in Polls : get[i][p] = None

Base == Sessions /\ Numbered /\ Calls /\ Displays

-----------------------------------------------------------------------------
Newest == Copy(newest)
Blank(copy) == copy.kind = "none" /\ copy.draft = 0
Waits(i) == session[i] = None \/ Blank(session[i]) \/ awaiting[i] # 0

(* The agent has nothing to reply to, and the dialog shows the latest, or  *)
(* will once its polls come.                                               *)
Settled(i) ==
    /\ due = 0
    /\ session[i] # None => IsLatest(session[i])
    /\ session[i] = None => \A p \in Polls : get[i][p] = None \/ IsLatest(get[i][p])

Asked(c) ==
    /\ c.op = "answer" => newest # 0 /\ c.before = Newest.last
    /\ c.op = "confirm" => newest # 0 /\ c.before = Newest.draft

Idle(i) == i \in open /\ call[i] = NoCall =>
    /\ (due = 0 /\ session[i] # None /\ IsLatest(session[i])) \/ Waits(i)
    /\ session[i] = None => Settled(i)
    /\ due > 0 => newest # 0 /\ (Blank(Newest) \/ (awaiting[i] # 0 /\ awaiting[i] = Newest.last))

Sent(i) == call[i].phase = "sent" => Settled(i) /\ Asked(call[i])
Failed(i) == call[i].phase = "failed" => Settled(i)

Dispatched(c) == c.phase = "dispatched" =>
    /\ (c.op = "start" /\ c.copy # None) => (due > 0 => Blank(Copy(c.copy.id)))
    /\ c.op = "answer" => c.copy.last = c.before

Ok(c) == c.phase = "ok" =>
    /\ c.op = "start" =>
        /\ (due = 0 /\ IsLatest(c.copy)) \/ Blank(c.copy) \/ c.copy.id # newest
        /\ due > 0 => newest # 0 /\ Blank(Newest)
    /\ c.op = "answer" =>
        /\ c.copy.last = c.before
        /\ due > 0 => newest # 0 /\ Newest.last = c.before

Stage(i) == Idle(i) /\ Sent(i) /\ Failed(i) /\ Dispatched(call[i]) /\ Ok(call[i])

(* Nobody tells the agent anything for another dialog. *)
Undisturbed(i) == \A k \in Dialogs \ {i} : call[k].phase # "dispatched"

UpToDate(i) == due <= 1 /\ Undisturbed(i) /\ Stage(i)

IInv == Base /\ \A i \in Dialogs : i <= opened /\ i \notin stale => UpToDate(i)

-----------------------------------------------------------------------------
(* Types *)

LEMMA UnstartedFinite ==
    /\ Unstarted \in SUBSET Dialogs
    /\ IsFiniteSet(Unstarted)
    /\ Cardinality(Unstarted) \in Nat
    /\ Cardinality(Dialogs) = MaxDialogs /\ IsFiniteSet(Dialogs)
  <1>1. IsFiniteSet(Dialogs) /\ Cardinality(Dialogs) = MaxDialogs
    BY FS_Interval, BoundsAssumption DEF Dialogs
  <1>2. Unstarted \in SUBSET Dialogs
    BY DEF Unstarted
  <1> QED BY <1>1, <1>2, FS_Subset, FS_CardinalityType

LEMMA CallRecords ==
    /\ NoCall \in Posts /\ NoCall.op = "none" /\ NoCall.phase = "idle"
    /\ Start \in Posts /\ Start.op = "start" /\ Start.phase = "sent" /\ Start.copy = None
  BY DEF NoCall, Start, Post, Posts, Told

LEMMA CopyTypes ==
    ASSUME Sessions, Len(rows) <= MaxDialogs, NEW r \in DOMAIN rows
    PROVE  /\ Copy(r) \in Copies /\ Copy(r) # None /\ Copy(r).id = r
           /\ Copy(r).last = rows[r].last /\ Copy(r).kind = rows[r].kind
           /\ Copy(r).draft = rows[r].draft
           /\ r \in Dialogs /\ r \in 1..Len(rows) /\ rows[r] \in Rows
  <1>1. r \in 1..Len(rows) /\ rows[r] \in Rows /\ Len(rows) \in Nat
    BY DEF Sessions
  <1>2. r \in Dialogs
    BY <1>1, BoundsAssumption DEF Dialogs
  <1>3. /\ Copy(r).id = r /\ Copy(r).last = rows[r].last /\ Copy(r).kind = rows[r].kind
        /\ Copy(r).draft = rows[r].draft
    BY DEF Copy, CopyOf
  <1>4. Copy(r) \in Copies
    BY <1>1, <1>2 DEF Copy, CopyOf, Copies, Rows
  <1> QED BY <1>1, <1>2, <1>3, <1>4, MarksAssumption

LEMMA FewRows ==
    ASSUME Base
    PROVE  Len(rows) \in Nat /\ Len(rows) <= MaxDialogs /\ DOMAIN rows = 1..Len(rows)
  BY UnstartedFinite, BoundsAssumption DEF Base, Sessions, Numbered

LEMMA TypedIfBase == Base => TypeOK
  BY FewRows DEF Base, Sessions, Calls, Displays, TypeOK, Told

(* A step that gives one dialog another call. *)
LEMMA CallStep ==
    ASSUME Base, NEW i \in Dialogs, NEW new \in Posts,
           call' = [call EXCEPT ![i] = new], Held(new)',
           Len(rows') \in Nat, opened' \in Nat, opened' >= opened, i <= opened',
           \/ Len(rows') = Len(rows) /\ (Starting(new) => i \in Unstarted)
           \/ Len(rows') = Len(rows) + 1 /\ i \in Unstarted /\ ~Starting(new)
    PROVE  Calls' /\ Numbered' /\ Len(rows') <= MaxDialogs
  <1> USE DEF Base
  <1>1. Len(rows) \in Nat /\ opened \in Nat
    BY FewRows DEF Displays
  <1>2. call' \in [Dialogs -> Posts] /\ call'[i] = new /\ \A j \in Dialogs \ {i} : call'[j] = call[j]
    BY DEF Calls
  <1>3. Unstarted' \in SUBSET Unstarted
    <2>1. ASSUME NEW j \in Dialogs, j > opened' \/ Starting(call'[j])
          PROVE  j > opened \/ Starting(call[j])
      <3>1. CASE j = i
        BY <1>1, <1>2, <2>1, <3>1 DEF Dialogs, Unstarted
      <3>2. CASE j # i
        BY <1>1, <1>2, <2>1, <3>2 DEF Dialogs
      <3> QED BY <3>1, <3>2
    <2>2. Unstarted' = {j \in Dialogs : j > opened' \/ Starting(call'[j])}
      BY DEF Unstarted, Starting
    <2> QED BY <2>1, <2>2 DEF Unstarted
  <1>4. Len(rows') = Len(rows) + 1 /\ Len(rows') # Len(rows) => i \in Unstarted /\ i \notin Unstarted'
    BY <1>1, <1>2 DEF Unstarted, Starting, Dialogs
  <1>5. IsFiniteSet(Unstarted') /\ Cardinality(Unstarted') \in Nat
        /\ Cardinality(Unstarted') <= Cardinality(Unstarted)
        /\ (Unstarted' # Unstarted => Cardinality(Unstarted') # Cardinality(Unstarted))
    BY <1>3, UnstartedFinite, FS_Subset, FS_CardinalityType
  <1>6. Len(rows') + Cardinality(Unstarted') <= MaxDialogs
    BY <1>1, <1>4, <1>5, UnstartedFinite, BoundsAssumption DEF Numbered
  <1>7. \A j \in Dialogs : Held(call[j])'
    <2> TAKE j \in Dialogs
    <2>1. CASE j = i
      BY <2>1, <1>2
    <2>2. CASE j # i
      BY <2>2, <1>1, <1>2 DEF Held, Calls, Posts, Copies, Dialogs, NoCall, Post
    <2> QED BY <2>1, <2>2
  <1>8. \A j \in Dialogs : j > opened' => call'[j] = NoCall
    BY <1>1, <1>2 DEF Calls, Dialogs
  <1> QED BY <1>1, <1>2, <1>5, <1>6, <1>7, <1>8, BoundsAssumption DEF Calls, Numbered

(* Neither the calls nor the number of sessions change. *)
LEMMA SameCalls ==
    ASSUME Base, UNCHANGED <<call, opened>>, Len(rows') = Len(rows)
    PROVE  Calls' /\ Numbered'
  BY DEF Base, Calls, Held, Numbered, Unstarted

(* A step of the server puts the call in another phase, or forgets it. *)
LEMMA SetCall ==
    ASSUME Base, NEW i \in Dialogs, NEW phase \in {"dispatched", "ok", "failed"},
           NEW copy \in Copies \cup {None}, Set(i, phase, copy),
           call[i].op # "none", call[i].phase \in {"sent", "dispatched"},
           call[i].op = "start" /\ phase = "ok" => copy # None,
           call[i].op = "answer" /\ phase \in {"dispatched", "ok"} => copy # None,
           phase = "dispatched" => call[i].op # "confirm",
           phase = "dispatched" /\ copy # None => copy.id <= Len(rows),
           Len(rows') = Len(rows) \/
               (Len(rows') = Len(rows) + 1 /\ call[i].op = "start" /\ phase = "ok"),
           opened' = opened
    PROVE  /\ Calls' /\ Numbered' /\ Len(rows') <= MaxDialogs /\ i <= opened
           /\ \A j \in Dialogs \ {i} : call'[j] = call[j]
           /\ \/ /\ call'[i].op = call[i].op /\ call'[i].phase = phase /\ call'[i].copy = copy
                 /\ call'[i].before = call[i].before
              \/ i \notin open /\ phase # "dispatched" /\ call'[i] = NoCall
  <1> USE DEF Base
  <1>1. call[i] \in Posts /\ Len(rows) \in Nat /\ opened \in Nat
    BY FewRows DEF Calls, Displays
  <1>2. i <= opened
    BY <1>1, CallRecords DEF Calls, Dialogs
  <1>3. PICK c : c = Post(call[i].op, phase, copy, call[i].before)
    OBVIOUS
  <1>4. /\ c \in Posts /\ c.op = call[i].op /\ c.phase = phase /\ c.copy = copy
        /\ c.before = call[i].before
    <2>1. call[i].op \in {"none", "start", "answer", "confirm"} /\ call[i].before \in Nat
          /\ phase \in {"idle", "sent", "dispatched", "ok", "failed"}
      BY <1>1 DEF Posts, Told
    <2> QED BY <1>3, <2>1 DEF Post, Posts, Told
  <1>5. PICK new \in Posts : /\ call' = [call EXCEPT ![i] = new]
                             /\ new = c \/ (i \notin open /\ phase # "dispatched" /\ new = NoCall)
    <2>1. CASE phase = "dispatched" \/ i \in open
      BY <1>3, <1>4, <2>1 DEF Set
    <2>2. CASE ~(phase = "dispatched" \/ i \in open)
      <3>1. call' = [call EXCEPT ![i] = NoCall]
        BY <2>2 DEF Set
      <3> QED BY <2>2, <3>1, CallRecords
    <2> QED BY <2>1, <2>2
  <1>6. Held(new)'
    BY <1>1, <1>4, <1>5, CallRecords DEF Held
  <1>7. Starting(new) => i \in Unstarted
    BY <1>4, <1>5, CallRecords DEF Starting, Unstarted
  <1>8. call[i].op = "start" /\ phase = "ok" => i \in Unstarted /\ ~Starting(new)
    BY <1>4, <1>5, CallRecords DEF Starting, Unstarted
  <1>9. Calls' /\ Numbered' /\ Len(rows') <= MaxDialogs
    <2>1. Len(rows') \in Nat /\ opened' \in Nat /\ opened' >= opened /\ i <= opened'
      BY <1>1, <1>2
    <2>2. call' = [call EXCEPT ![i] = new] /\ Held(new)'
      BY <1>5, <1>6
    <2>3. \/ Len(rows') = Len(rows) /\ (Starting(new) => i \in Unstarted)
          \/ Len(rows') = Len(rows) + 1 /\ i \in Unstarted /\ ~Starting(new)
      BY <1>7, <1>8
    <2> QED BY <2>1, <2>2, <2>3, CallStep
  <1>10. call'[i] = new /\ \A j \in Dialogs \ {i} : call'[j] = call[j]
    BY <1>5 DEF Calls
  <1> QED BY <1>2, <1>4, <1>5, <1>9, <1>10

-----------------------------------------------------------------------------
(* The server *)

LEMMA DispatchCases ==
    ASSUME Base, NEW i \in Dialogs, NEW copy, NEW knowing, Dispatch(i, copy, knowing)
    PROVE  /\ due' \in Nat /\ faults' \in 0..MaxTrouble /\ lost' \in BOOLEAN
           /\ stale \subseteq stale' /\ stale' \subseteq 1..opened
           /\ \/ /\ Set(i, "dispatched", copy)
                 /\ (1..opened) \ knowing \subseteq stale'
                 /\ due' = due + 1 \/ 1..opened \subseteq stale'
              \/ /\ Set(i, "failed", None)
                 /\ due' = due \/ 1..opened \subseteq stale'
  <1> USE DEF Base
  <1>0. due \in Nat /\ stale \subseteq 1..opened /\ faults \in 0..MaxTrouble /\ lost \in BOOLEAN
    BY DEF Sessions, Displays
  <1>1. ASSUME Fail PROVE faults' \in 0..MaxTrouble
    <2>1. open \subseteq Dialogs
      BY BoundsAssumption DEF Displays, Dialogs
    <2>2. Cardinality(open) \in Nat
      BY <2>1, UnstartedFinite, FS_Subset, FS_CardinalityType
    <2> QED BY <1>0, <1>1, <2>2, BoundsAssumption DEF Fail, LittleTrouble
  <1>2. CASE /\ due' = due + 1 /\ Set(i, "dispatched", copy)
             /\ stale' = stale \cup ((1..opened) \ knowing) /\ UNCHANGED <<faults, lost>>
    <2>1. due' \in Nat /\ faults' \in 0..MaxTrouble /\ lost' \in BOOLEAN
      BY <1>0, <1>2
    <2>2. stale \subseteq stale' /\ stale' \subseteq 1..opened /\ (1..opened) \ knowing \subseteq stale'
      BY <1>0, <1>2, Zenon
    <2> QED BY <1>2, <2>1, <2>2
  <1>3. CASE /\ due' = due + 2 /\ Fail /\ Set(i, "dispatched", copy)
             /\ stale' = 1..opened /\ UNCHANGED lost
    BY <1>0, <1>1, <1>3
  <1>4. CASE /\ due' \in {due, due + 1} /\ Fail /\ Set(i, "failed", None)
             /\ stale' = IF due' = due THEN stale ELSE 1..opened
             /\ lost' = (lost \/ call[i].op = "start")
    <2>1. lost' \in BOOLEAN
      BY <1>0, <1>4, Zenon
    <2>2. due' \in Nat /\ faults' \in 0..MaxTrouble
      BY <1>0, <1>1, <1>4
    <2>3. CASE due' = due
      BY <1>0, <1>4, <2>1, <2>2, <2>3, Zenon
    <2>4. CASE due' # due
      BY <1>0, <1>4, <2>1, <2>2, <2>4, Zenon
    <2> QED BY <2>3, <2>4
  <1> QED BY <1>2, <1>3, <1>4 DEF Dispatch

(* What the steps that call the gateway, or answer at once, have in common. *)
Send(i, phase, copy) ==
    /\ call[i].phase = "sent" /\ call[i].op \in {"start", "answer"}
    /\ UNCHANGED <<rows, newest, said, opened, open, get, session, awaiting>>
    /\ Set(i, phase, copy)
    /\ due' \in Nat /\ faults' \in 0..MaxTrouble /\ lost' \in BOOLEAN
    /\ stale \subseteq stale' /\ stale' \subseteq 1..opened
    /\ copy # None => copy.id \in DOMAIN rows /\ copy = Copy(copy.id)
    /\ phase = "dispatched" =>
        /\ \A j \in 1..opened : j # i => j \in stale'
        /\ due' = due + 1 \/ 1..opened \subseteq stale'
        /\ call[i].op = "answer" => newest # 0 /\ copy = Newest
        /\ call[i].op = "start" /\ copy # None => Blank(copy) \/ 1..opened \subseteq stale'
    /\ phase = "failed" => due' = due \/ 1..opened \subseteq stale'
    /\ phase = "ok" => due' = due /\ call[i].op = "start" /\ copy # None

LEMMA Sends ==
    ASSUME Base, NEW i \in Dialogs, ResumeStart(i) \/ FirstStart(i) \/ SendAnswer(i)
    PROVE  \E phase \in {"dispatched", "ok", "failed"}, copy \in Copies \cup {None} :
               Send(i, phase, copy)
  <1> USE DEF Base
  <1>1. UNCHANGED <<rows, newest, said, opened, open, get, session, awaiting>>
    BY DEF ResumeStart, FirstStart, SendAnswer, dialogs
  <1>2. call[i].phase = "sent" /\ call[i].op \in {"start", "answer"}
    BY DEF ResumeStart, FirstStart, SendAnswer, Phase
  <1>3. ASSUME NEW copy \in Copies \cup {None}, NEW knowing \in {{}, {i}},
               Dispatch(i, copy, knowing),
               copy # None => copy.id \in DOMAIN rows /\ copy = Copy(copy.id),
               call[i].op = "answer" => newest # 0 /\ copy = Newest,
               call[i].op = "start" /\ copy # None => Blank(copy) \/ knowing = {}
        PROVE  \E phase \in {"dispatched", "ok", "failed"}, k \in Copies \cup {None} :
                   Send(i, phase, k)
    <2>1. /\ due' \in Nat /\ faults' \in 0..MaxTrouble /\ lost' \in BOOLEAN
          /\ stale \subseteq stale' /\ stale' \subseteq 1..opened
          /\ \/ /\ Set(i, "dispatched", copy)
                /\ (1..opened) \ knowing \subseteq stale'
                /\ due' = due + 1 \/ 1..opened \subseteq stale'
             \/ /\ Set(i, "failed", None)
                /\ due' = due \/ 1..opened \subseteq stale'
      BY <1>3, DispatchCases
    <2>2. CASE /\ Set(i, "dispatched", copy)
               /\ (1..opened) \ knowing \subseteq stale'
               /\ due' = due + 1 \/ 1..opened \subseteq stale'
      <3>1. \A j \in 1..opened : j # i => j \in stale'
        BY <1>3, <2>2
      <3>2. call[i].op = "start" /\ copy # None => Blank(copy) \/ 1..opened \subseteq stale'
        BY <1>3, <2>2
      <3>3. Send(i, "dispatched", copy)
        BY <1>1, <1>2, <1>3, <2>1, <2>2, <3>1, <3>2 DEF Send
      <3> QED BY <3>3
    <2>3. CASE Set(i, "failed", None) /\ (due' = due \/ 1..opened \subseteq stale')
      <3>1. Send(i, "failed", None)
        BY <1>1, <1>2, <2>1, <2>3 DEF Send
      <3> QED BY <3>1
    <2> QED BY <2>1, <2>2, <2>3
  <1>4. CASE ResumeStart(i)
    <2>1. call[i].op = "start"
      BY <1>4 DEF ResumeStart, Phase
    <2>2. PICK r \in Active :
              IF rows[r].turn = "user"
              THEN Dispatch(i, Copy(r), IF rows[r].kind = "none" THEN {i} ELSE {})
              ELSE Set(i, "ok", Copy(r)) /\ UNCHANGED <<due, faults, lost, stale>>
      BY <1>4 DEF ResumeStart
    <2>3. r \in DOMAIN rows /\ rows[r].status = "active" /\ rows[r].draft = 0
      BY DEF Active, Sessions
    <2>4. /\ Copy(r) \in Copies /\ Copy(r) # None /\ Copy(r).id = r
          /\ Copy(r).kind = rows[r].kind /\ Copy(r).draft = 0
      BY <2>3, FewRows, CopyTypes
    <2>5. CASE rows[r].turn = "user"
      <3>1. PICK knowing : knowing = IF rows[r].kind = "none" THEN {i} ELSE {}
        OBVIOUS
      <3>2. Dispatch(i, Copy(r), knowing) /\ knowing \in {{}, {i}}
        BY <2>2, <2>5, <3>1
      <3>3. Blank(Copy(r)) \/ knowing = {}
        BY <2>4, <3>1 DEF Blank
      <3> QED BY <1>3, <2>1, <2>3, <2>4, <3>2, <3>3
    <2>6. CASE rows[r].turn # "user"
      <3>1. Send(i, "ok", Copy(r))
        BY <1>1, <1>2, <2>1, <2>2, <2>3, <2>4, <2>6 DEF Send, Sessions, Displays
      <3> QED BY <2>4, <3>1
    <2> QED BY <2>5, <2>6
  <1>5. CASE FirstStart(i)
    <2>1. Dispatch(i, None, {i}) /\ call[i].op = "start"
      BY <1>5 DEF FirstStart, Phase
    <2> QED BY <1>3, <2>1
  <1>6. CASE SendAnswer(i)
    <2>1. Dispatch(i, Copy(newest), {i}) /\ call[i].op = "answer" /\ newest # 0
      BY <1>6 DEF SendAnswer, Phase
    <2>2. newest \in DOMAIN rows
      BY <2>1, FewRows DEF Sessions
    <2>3. Copy(newest) \in Copies /\ Copy(newest).id = newest
      BY <2>2, FewRows, CopyTypes
    <2> QED BY <1>3, <2>1, <2>2, <2>3 DEF Newest
  <1> QED BY <1>4, <1>5, <1>6

LEMMA SendCall ==
    ASSUME Base, NEW i \in Dialogs, NEW phase \in {"dispatched", "ok", "failed"},
           NEW copy \in Copies \cup {None}, Send(i, phase, copy)
    PROVE  /\ Calls' /\ Numbered' /\ i <= opened
           /\ \A j \in Dialogs \ {i} : call'[j] = call[j]
           /\ \/ /\ call'[i].op = call[i].op /\ call'[i].phase = phase /\ call'[i].copy = copy
                 /\ call'[i].before = call[i].before
              \/ i \notin open /\ phase # "dispatched" /\ call'[i] = NoCall
  <1>1. /\ Set(i, phase, copy) /\ call[i].op \in {"start", "answer"} /\ call[i].phase = "sent"
        /\ call[i].op = "start" /\ phase = "ok" => copy # None
        /\ call[i].op = "answer" /\ phase \in {"dispatched", "ok"} => copy # None
        /\ Len(rows') = Len(rows) /\ opened' = opened
    <2>1. newest # 0 => Newest # None
      <3>1. newest # 0 => newest \in DOMAIN rows
        BY FewRows DEF Base, Sessions
      <3> QED BY <3>1, FewRows, CopyTypes DEF Base, Newest
    <2> QED BY <2>1 DEF Send
  <1>2. copy # None => copy.id <= Len(rows)
    BY FewRows DEF Send
  <1> QED BY <1>1, <1>2, SetCall

LEMMA SendKeepsBase ==
    ASSUME Base, NEW i \in Dialogs, ResumeStart(i) \/ FirstStart(i) \/ SendAnswer(i)
    PROVE  Base'
  <1>1. PICK phase \in {"dispatched", "ok", "failed"}, copy \in Copies \cup {None} :
            Send(i, phase, copy)
    BY Sends
  <1>2. Calls' /\ Numbered'
    BY <1>1, SendCall
  <1>3. Sessions' /\ Displays'
    BY <1>1 DEF Send, Base, Sessions, Displays, Last
  <1> QED BY <1>2, <1>3 DEF Base

LEMMA SameDisplays ==
    ASSUME Base, UNCHANGED <<opened, open, get, session, awaiting>>,
           faults' \in 0..MaxTrouble, lost' \in BOOLEAN, stale' \subseteq 1..opened
    PROVE  Displays'
  BY DEF Base, Displays, Last

LEMMA CopyOfTypes ==
    ASSUME NEW r \in Dialogs, NEW row \in Rows
    PROVE  /\ CopyOf(r, row) \in Copies /\ CopyOf(r, row) # None /\ CopyOf(r, row).id = r
           /\ CopyOf(r, row).last = row.last /\ CopyOf(r, row).kind = row.kind
           /\ CopyOf(r, row).draft = row.draft
  <1>1. /\ CopyOf(r, row).id = r /\ CopyOf(r, row).last = row.last
        /\ CopyOf(r, row).kind = row.kind /\ CopyOf(r, row).draft = row.draft
    BY DEF CopyOf
  <1>2. CopyOf(r, row) \in Copies
    BY DEF CopyOf, Copies, Rows
  <1> QED BY <1>1, <1>2, MarksAssumption

(* The rows after a session is found again, or inserted. *)
LEMMA FinishStartRows ==
    ASSUME Base, NEW i \in Dialogs, FinishStart(i)
    PROVE  /\ call[i].op = "start" /\ call[i].phase = "dispatched"
           /\ newest' \in 1..Len(rows') /\ newest' \in Dialogs /\ DOMAIN rows' = 1..Len(rows')
           /\ rows' \in Seq(Rows) /\ Sessions'
           /\ call[i].copy # None =>
                  newest' = call[i].copy.id /\ rows' = rows /\ newest' \in DOMAIN rows
           /\ call[i].copy = None => Len(rows') = Len(rows) + 1 /\ rows'[newest'] = NewRow
           /\ Set(i, "ok", CopyOf(newest', rows'[newest']))
           /\ UNCHANGED <<due, said, opened, open, get, session, awaiting, faults, lost, stale>>
  <1> USE DEF Base
  <1>1. Len(rows) \in Nat /\ call[i] \in Posts /\ rows \in Seq(Rows) /\ DOMAIN rows = 1..Len(rows)
    BY FewRows DEF Sessions, Calls
  <1>2. NewRow \in Rows
    BY DEF NewRow, Rows, Told
  <1>3. /\ call[i].op = "start" /\ call[i].phase = "dispatched" /\ Held(call[i])
        /\ UNCHANGED <<due, said, opened, open, get, session, awaiting, faults, lost, stale>>
    BY DEF FinishStart, Phase, Calls, dialogs, history
  <1>4. CASE call[i].copy = None
    <2>1. /\ newest' = Len(rows) + 1
          /\ rows' = IF Len(rows) + 1 \in DOMAIN rows THEN rows ELSE Append(rows, NewRow)
          /\ Set(i, "ok", CopyOf(newest', rows'[newest']))
      BY <1>4, Zenon DEF FinishStart
    <2>2. rows' = Append(rows, NewRow)
      <3>1. Len(rows) + 1 \notin DOMAIN rows
        BY <1>1
      <3> QED BY <2>1, <3>1, Zenon
    <2>3. /\ rows' \in Seq(Rows) /\ Len(rows') = Len(rows) + 1 /\ DOMAIN rows' = 1..Len(rows')
          /\ rows'[Len(rows) + 1] = NewRow
          /\ \A r \in DOMAIN rows : rows'[r] = rows[r]
      BY <1>1, <1>2, <2>2
    <2>4. \A r \in DOMAIN rows' : rows'[r].draft # 0 => rows'[r].status # "active"
      BY <1>1, <2>3 DEF Sessions, NewRow
    <2>5. newest' \in Dialogs
      <3>1. i \in Unstarted
        BY <1>3 DEF Unstarted, Starting
      <3>2. Cardinality(Unstarted \ {i}) \in Nat /\ Cardinality(Unstarted) \in Nat
            /\ Cardinality(Unstarted \ {i}) = Cardinality(Unstarted) - 1
        BY <3>1, UnstartedFinite, FS_RemoveElement, FS_CardinalityType
      <3> QED BY <1>1, <2>1, <3>2, BoundsAssumption DEF Numbered, Dialogs
    <2> QED BY <1>1, <1>3, <1>4, <2>1, <2>3, <2>4, <2>5 DEF Sessions
  <1>5. CASE call[i].copy # None
    <2>1. call[i].copy.id \in DOMAIN rows /\ call[i].copy.id \in Dialogs
      BY <1>1, <1>3, <1>5 DEF Held, Posts, Copies, Dialogs
    <2>2. newest' = call[i].copy.id /\ rows' = rows
          /\ Set(i, "ok", CopyOf(newest', rows'[newest']))
      BY <1>5, <2>1 DEF FinishStart
    <2>3. newest' \in 1..Len(rows') /\ Len(rows') = Len(rows)
      BY <1>1, <2>1, <2>2
    <2>4. Sessions'
      BY <1>3, <2>2, <2>3 DEF Sessions
    <2> QED BY <1>1, <1>3, <1>5, <2>1, <2>2, <2>3, <2>4
  <1> QED BY <1>4, <1>5

LEMMA FinishStartKeepsBase ==
    ASSUME Base, NEW i \in Dialogs, FinishStart(i)
    PROVE  Base'
  <1> USE DEF Base
  <1>1. PICK k : k = CopyOf(newest', rows'[newest'])
    OBVIOUS
  <1>2. k \in Copies /\ k # None
    <2>1. rows'[newest'] \in Rows
      BY FinishStartRows
    <2> QED BY <1>1, <2>1, FinishStartRows, CopyOfTypes
  <1>3. Len(rows') = Len(rows) \/ Len(rows') = Len(rows) + 1
    BY FinishStartRows
  <1>4. /\ Set(i, "ok", k) /\ call[i].op = "start" /\ call[i].phase = "dispatched"
        /\ opened' = opened
    BY <1>1, FinishStartRows
  <1>5. Calls' /\ Numbered'
    BY <1>2, <1>3, <1>4, SetCall
  <1>6. Displays'
    <2>1. /\ UNCHANGED <<opened, open, get, session, awaiting>>
          /\ faults' \in 0..MaxTrouble /\ lost' \in BOOLEAN /\ stale' \subseteq 1..opened
      BY FinishStartRows DEF Displays
    <2> QED BY <2>1, SameDisplays
  <1> QED BY <1>5, <1>6, FinishStartRows

LEMMA FinishAnswerRows ==
    ASSUME Base, NEW i \in Dialogs, FinishAnswer(i)
    PROVE  /\ call[i].op = "answer" /\ call[i].phase = "dispatched" /\ call[i].copy \in Copies
           /\ newest' = call[i].copy.id /\ newest' \in DOMAIN rows /\ newest' \in Dialogs
           /\ rows' \in Seq(Rows) /\ Len(rows') = Len(rows)
           /\ \A q \in DOMAIN rows \ {newest'} : rows'[q] = rows[q]
           /\ rows'[newest'] = [status |-> rows[newest'].status, turn |-> "user",
                                last |-> call[i].copy.last, kind |-> call[i].copy.kind,
                                draft |-> rows[newest'].draft]
           /\ Set(i, "ok", CopyOf(newest', rows'[newest']))
           /\ UNCHANGED <<due, said, opened, open, get, session, awaiting, faults, stale>>
           /\ lost' \in BOOLEAN
  <1> USE DEF Base
  <1>1. Len(rows) \in Nat /\ call[i] \in Posts /\ rows \in Seq(Rows) /\ DOMAIN rows = 1..Len(rows)
    BY FewRows DEF Sessions, Calls
  <1>2. call[i].op = "answer" /\ call[i].phase = "dispatched" /\ Held(call[i])
    BY DEF FinishAnswer, Phase, Calls
  <1>3. call[i].copy \in Copies
    BY <1>1, <1>2 DEF Held, Posts
  <1>4. PICK r \in Dialogs : r = call[i].copy.id
    BY <1>3 DEF Copies
  <1>5. PICK old \in Copies : old = call[i].copy
    BY <1>3
  <1>6. r \in DOMAIN rows
    BY <1>1, <1>2, <1>3, <1>4, MarksAssumption DEF Held, Dialogs
  <1>7. /\ rows' = [rows EXCEPT ![r].turn = "user", ![r].last = old.last, ![r].kind = old.kind]
        /\ newest' = r
        /\ Set(i, "ok", CopyOf(r, rows'[r]))
    BY <1>4, <1>5 DEF FinishAnswer
  <1>8. rows[r] \in Rows
    BY <1>1, <1>6
  <1>9. rows'[r] = [status |-> rows[r].status, turn |-> "user", last |-> old.last,
                    kind |-> old.kind, draft |-> rows[r].draft]
    BY <1>1, <1>6, <1>7, <1>8 DEF Rows
  <1>10. rows'[r] \in Rows
    BY <1>8, <1>9 DEF Rows, Copies
  <1>11. /\ rows' \in Seq(Rows) /\ Len(rows') = Len(rows)
         /\ \A q \in DOMAIN rows \ {r} : rows'[q] = rows[q]
    <2>1. rows' = [rows EXCEPT ![r] = rows'[r]]
      BY <1>1, <1>6, <1>7
    <2> QED BY <1>1, <1>6, <1>10, <2>1, ExceptSeq
  <1>12. /\ UNCHANGED <<due, said, opened, open, get, session, awaiting, faults, stale>>
         /\ lost' \in BOOLEAN
    <2>1. lost \in BOOLEAN
      BY DEF Displays
    <2> QED BY <2>1, Zenon DEF FinishAnswer, dialogs
  <1> QED BY <1>2, <1>3, <1>4, <1>5, <1>6, <1>7, <1>9, <1>11, <1>12

LEMMA FinishAnswerKeepsBase ==
    ASSUME Base, NEW i \in Dialogs, FinishAnswer(i)
    PROVE  Base'
  <1> USE DEF Base
  <1>1. DOMAIN rows = 1..Len(rows) /\ DOMAIN rows' = 1..Len(rows) /\ Len(rows) \in Nat
        /\ rows'[newest'] \in Rows
    <2>1. rows' \in Seq(Rows) /\ Len(rows') = Len(rows) /\ newest' \in DOMAIN rows
      BY FinishAnswerRows
    <2> QED BY <2>1, FewRows
  <1>2. PICK k : k = CopyOf(newest', rows'[newest'])
    OBVIOUS
  <1>3. k \in Copies /\ k # None
    BY <1>1, <1>2, FinishAnswerRows, CopyOfTypes
  <1>4. /\ Set(i, "ok", k) /\ call[i].op = "answer" /\ call[i].phase = "dispatched"
        /\ opened' = opened /\ Len(rows') = Len(rows)
    BY <1>2, FinishAnswerRows
  <1>5. Calls' /\ Numbered'
    BY <1>3, <1>4, SetCall
  <1>6. Sessions'
    <2>1. rows'[newest'].draft = rows[newest'].draft /\ rows'[newest'].status = rows[newest'].status
      <3>1. rows'[newest'] = [status |-> rows[newest'].status, turn |-> "user",
                              last |-> call[i].copy.last, kind |-> call[i].copy.kind,
                              draft |-> rows[newest'].draft]
        BY FinishAnswerRows
      <3> QED BY <3>1
    <2>2. \A q \in DOMAIN rows \ {newest'} : rows'[q] = rows[q]
      BY FinishAnswerRows
    <2>3. \A q \in DOMAIN rows' : rows'[q].draft # 0 => rows'[q].status # "active"
      BY <1>1, <2>1, <2>2 DEF Sessions
    <2>4. /\ rows' \in Seq(Rows) /\ newest' \in 0..Len(rows') /\ due' \in Nat /\ said' \in Nat
      <3>1. rows' \in Seq(Rows) /\ Len(rows') = Len(rows) /\ newest' \in DOMAIN rows
            /\ due' = due /\ said' = said
        BY FinishAnswerRows
      <3>2. due \in Nat /\ said \in Nat
        BY DEF Sessions
      <3> QED BY <1>1, <3>1, <3>2
    <2> QED BY <2>3, <2>4 DEF Sessions
  <1>7. Displays'
    <2>1. /\ UNCHANGED <<opened, open, get, session, awaiting>>
          /\ faults' \in 0..MaxTrouble /\ lost' \in BOOLEAN /\ stale' \subseteq 1..opened
      BY FinishAnswerRows DEF Displays
    <2> QED BY <2>1, SameDisplays
  <1> QED BY <1>5, <1>6, <1>7

(* What is shown of the sessions does not change. *)
SameCopies == \A r \in DOMAIN rows : CopyOf(r, rows[r])' = CopyOf(r, rows[r])

LEMMA Confirms ==
    ASSUME Base, NEW i \in Dialogs, Confirm(i)
    PROVE  /\ call[i].op = "confirm" /\ call[i].phase = "sent"
           /\ rows' \in Seq(Rows) /\ Len(rows') = Len(rows) /\ DOMAIN rows' = DOMAIN rows
           /\ \A q \in DOMAIN rows' : rows'[q].draft # 0 => rows'[q].status # "active"
           /\ SameCopies
           /\ UNCHANGED <<newest, due, said, opened, open, get, session, awaiting, stale>>
           /\ faults' \in 0..MaxTrouble /\ lost' \in BOOLEAN
           /\ \E phase \in {"ok", "failed"} : Set(i, phase, None)
  <1> USE DEF Base
  <1>1. newest \in DOMAIN rows /\ DOMAIN rows = 1..Len(rows) /\ Len(rows) \in Nat
        /\ rows \in Seq(Rows)
    BY FewRows DEF Confirm, Sessions
  <1>2. rows' = rows \/ rows' = [rows EXCEPT ![newest].status = "confirmed"]
    BY DEF Confirm
  <1>3. /\ rows' \in Seq(Rows) /\ Len(rows') = Len(rows) /\ DOMAIN rows' = DOMAIN rows
        /\ \A q \in DOMAIN rows' : rows'[q].draft # 0 => rows'[q].status # "active"
        /\ SameCopies
    <2>1. CASE rows' = rows
      BY <1>1, <2>1 DEF SameCopies, Sessions
    <2>2. CASE rows' = [rows EXCEPT ![newest].status = "confirmed"]
      <3>1. PICK row \in Rows : row = rows[newest]
        BY <1>1
      <3>2. PICK new : new = [row EXCEPT !.status = "confirmed"]
        OBVIOUS
      <3>3. new \in Rows /\ new.status = "confirmed" /\ CopyOf(newest, new) = CopyOf(newest, row)
        BY <3>2 DEF Rows, CopyOf
      <3>4. rows' = [rows EXCEPT ![newest] = new]
        BY <2>2, <3>1, <3>2
      <3>5. /\ rows' \in Seq(Rows) /\ Len(rows') = Len(rows) /\ rows'[newest] = new
            /\ \A q \in DOMAIN rows \ {newest} : rows'[q] = rows[q]
        BY <1>1, <3>3, <3>4, ExceptSeq
      <3>6. DOMAIN rows' = DOMAIN rows
        BY <1>1, <3>5
      <3>7. \A q \in DOMAIN rows' : rows'[q].draft # 0 => rows'[q].status # "active"
        BY <3>3, <3>5, <3>6 DEF Sessions
      <3>8. SameCopies
        <4>1. \A r \in DOMAIN rows : CopyOf(r, rows'[r]) = CopyOf(r, rows[r])
          BY <3>1, <3>3, <3>5
        <4> QED BY <4>1 DEF SameCopies, CopyOf
      <3> QED BY <3>5, <3>6, <3>7, <3>8
    <2> QED BY <1>2, <2>1, <2>2
  <1>4. /\ call[i].op = "confirm" /\ call[i].phase = "sent"
        /\ UNCHANGED <<newest, due, said, opened, open, get, session, awaiting, stale, lost>>
        /\ \E phase \in {"ok", "failed"} : Set(i, phase, None)
    BY DEF Confirm, Phase, dialogs
  <1>5. faults' \in 0..MaxTrouble
    <2>1. open \subseteq Dialogs
      BY BoundsAssumption DEF Displays, Dialogs
    <2>2. Cardinality(open) \in Nat
      BY <2>1, UnstartedFinite, FS_Subset, FS_CardinalityType
    <2>3. faults' = faults \/ Fail
      BY DEF Confirm
    <2> QED BY <2>2, <2>3, BoundsAssumption DEF Fail, LittleTrouble, Displays
  <1> QED BY <1>3, <1>4, <1>5 DEF Displays

LEMMA ConfirmKeepsBase ==
    ASSUME Base, NEW i \in Dialogs, Confirm(i)
    PROVE  Base'
  <1> USE DEF Base
  <1>1. PICK phase \in {"ok", "failed"} : Set(i, phase, None)
    BY Confirms
  <1>2. Calls' /\ Numbered'
    <2>1. /\ call[i].op = "confirm" /\ call[i].phase = "sent" /\ Len(rows') = Len(rows)
          /\ opened' = opened
      BY Confirms
    <2> QED BY <1>1, <2>1, SetCall
  <1>3. Sessions' /\ Displays'
    <2>1. /\ UNCHANGED <<opened, open, get, session, awaiting>>
          /\ faults' \in 0..MaxTrouble /\ lost' \in BOOLEAN /\ stale' \subseteq 1..opened
      BY Confirms DEF Displays
    <2>2. /\ rows' \in Seq(Rows) /\ Len(rows') = Len(rows) /\ UNCHANGED <<newest, due, said>>
          /\ \A q \in DOMAIN rows' : rows'[q].draft # 0 => rows'[q].status # "active"
      BY Confirms
    <2> QED BY <2>1, <2>2, SameDisplays DEF Sessions
  <1> QED BY <1>2, <1>3

LEMMA AgentRows ==
    ASSUME Base, AgentReplies
    PROVE  /\ rows' \in Seq(Rows) /\ Len(rows') = Len(rows)
           /\ \A q \in DOMAIN rows' : rows'[q].draft # 0 => rows'[q].status # "active"
           /\ UNCHANGED <<newest, call, opened, open, get, session, awaiting, faults, stale>>
           /\ due > 0 /\ due' = due - 1 /\ due' \in Nat /\ said' \in Nat /\ lost' \in BOOLEAN
  <1> USE DEF Base
  <1>1. rows \in Seq(Rows) /\ Len(rows) \in Nat /\ DOMAIN rows = 1..Len(rows)
        /\ newest \in 0..Len(rows) /\ said \in Nat /\ due \in Nat
    BY FewRows DEF Sessions
  <1>2. /\ due > 0 /\ due' = due - 1 /\ said' = said + 1
        /\ UNCHANGED <<newest, call, opened, open, get, session, awaiting, faults, stale>>
    BY DEF AgentReplies, dialogs
  <1>3. lost' \in BOOLEAN
    <2>1. lost \in BOOLEAN
      BY DEF Displays
    <2> QED BY <2>1, Zenon DEF AgentReplies
  <1>4. /\ rows' \in Seq(Rows) /\ Len(rows') = Len(rows)
        /\ \A q \in DOMAIN rows' : rows'[q].draft # 0 => rows'[q].status # "active"
    <2>1. CASE UNCHANGED rows
      BY <1>1, <2>1 DEF Sessions
    <2>2. CASE newest # 0 /\ \E kind \in {"question", "complete"} :
                   rows' = [rows EXCEPT ![newest] = Replied(@, said + 1, kind)]
      <3>1. PICK kind \in {"question", "complete"} :
                rows' = [rows EXCEPT ![newest] = Replied(rows[newest], said + 1, kind)]
        BY <2>2
      <3>2. newest \in DOMAIN rows
        BY <1>1, <2>2
      <3>3. PICK row \in Rows : row = rows[newest]
        BY <1>1, <3>2
      <3>4. PICK new : new = Replied(row, said + 1, kind)
        OBVIOUS
      <3>5. /\ new.status = IF kind = "complete" THEN "completed" ELSE row.status
            /\ new.draft = IF kind = "complete" THEN said + 1 ELSE row.draft
            /\ new.last = said + 1
        BY <3>4 DEF Replied, Rows
      <3>6. new \in Rows
        <4>1. said + 1 \in Nat /\ kind \in {"none", "question", "complete"}
          BY <1>1
        <4>2. new.status \in {"active", "completed", "confirmed"} /\ new.draft \in Nat
          BY <3>5, <4>1 DEF Rows, Told
        <4>3. new = [row EXCEPT !.turn = "assistant", !.last = new.last, !.kind = kind,
                                !.status = new.status, !.draft = new.draft]
          BY <3>4, <3>5 DEF Replied
        <4> QED BY <3>5, <4>1, <4>2, <4>3 DEF Rows, Told
      <3>7. rows' = [rows EXCEPT ![newest] = new]
        BY <3>1, <3>3, <3>4
      <3>8. /\ rows' \in Seq(Rows) /\ Len(rows') = Len(rows) /\ rows'[newest] = new
            /\ \A q \in DOMAIN rows \ {newest} : rows'[q] = rows[q]
        BY <1>1, <3>2, <3>6, <3>7, ExceptSeq
      <3>9. DOMAIN rows' = DOMAIN rows
        BY <1>1, <3>8
      <3>10. new.draft # 0 => new.status # "active"
        <4>1. row.draft # 0 => row.status # "active"
          BY <3>2, <3>3 DEF Sessions
        <4> QED BY <3>5, <4>1
      <3> QED BY <3>8, <3>9, <3>10 DEF Sessions
    <2> QED BY <2>1, <2>2 DEF AgentReplies
  <1> QED BY <1>1, <1>2, <1>3, <1>4

LEMMA AgentKeepsBase ==
    ASSUME Base, AgentReplies
    PROVE  Base'
  <1>1. Sessions'
    <2>1. newest \in 0..Len(rows)
      BY DEF Base, Sessions
    <2> QED BY <2>1, AgentRows DEF Sessions
  <1>2. Calls' /\ Numbered'
    <2>1. UNCHANGED <<call, opened>> /\ Len(rows') = Len(rows)
      BY AgentRows
    <2> QED BY <2>1, SameCalls
  <1>3. Displays'
    <2>1. /\ UNCHANGED <<opened, open, get, session, awaiting>>
          /\ faults' \in 0..MaxTrouble /\ lost' \in BOOLEAN /\ stale' \subseteq 1..opened
      BY AgentRows DEF Base, Displays
    <2> QED BY <2>1, SameDisplays
  <1> QED BY <1>1, <1>2, <1>3 DEF Base

-----------------------------------------------------------------------------
(* The dialogs *)

(* A step that changes what one dialog on a page shows. *)
LEMMA DisplayStep ==
    ASSUME Base, NEW i \in Dialogs, opened' = opened,
           open' \in SUBSET open, open \ open' \subseteq {i},
           NEW polls \in [Polls -> {None} \cup Copies], NEW copy \in {None} \cup Copies,
           NEW wait \in Nat,
           get' = [get EXCEPT ![i] = polls], session' = [session EXCEPT ![i] = copy],
           awaiting' = [awaiting EXCEPT ![i] = wait],
           wait # 0 => copy # None /\ wait = copy.last,
           i \notin open' => copy = None /\ wait = 0 /\ \A p \in Polls : polls[p] = None,
           faults' \in 0..MaxTrouble, lost' \in BOOLEAN, stale' \subseteq 1..opened
    PROVE  Displays'
  <1> USE DEF Base
  <1>1. /\ get \in [Dialogs -> [Polls -> {None} \cup Copies]]
        /\ session \in [Dialogs -> {None} \cup Copies]
        /\ awaiting \in [Dialogs -> Nat]
        /\ opened \in 0..MaxDialogs /\ open \subseteq 1..opened
    BY DEF Displays
  <1>2. /\ get' \in [Dialogs -> [Polls -> {None} \cup Copies]] /\ get'[i] = polls
        /\ \A j \in Dialogs \ {i} : get'[j] = get[j]
    BY <1>1
  <1>3. /\ session' \in [Dialogs -> {None} \cup Copies] /\ session'[i] = copy
        /\ \A j \in Dialogs \ {i} : session'[j] = session[j]
    BY <1>1
  <1>4. /\ awaiting' \in [Dialogs -> Nat] /\ awaiting'[i] = wait
        /\ \A j \in Dialogs \ {i} : awaiting'[j] = awaiting[j]
    BY <1>1
  <1>5. \A j \in Dialogs : awaiting'[j] # 0 =>
            awaiting'[j] = IF session'[j] = None THEN 0 ELSE session'[j].last
    BY <1>3, <1>4 DEF Displays, Last
  <1>6. \A j \in Dialogs \ open' :
            session'[j] = None /\ awaiting'[j] = 0 /\ \A p \in Polls : get'[j][p] = None
    <2> TAKE j \in Dialogs \ open'
    <2>1. CASE j = i
      BY <2>1, <1>2, <1>3, <1>4
    <2>2. CASE j # i
      <3>1. j \notin open
        BY <2>2
      <3> QED BY <2>2, <3>1, <1>2, <1>3, <1>4 DEF Displays
    <2> QED BY <2>1, <2>2
  <1>7. open' \subseteq 1..opened' /\ opened' \in 0..MaxDialogs /\ stale' \subseteq 1..opened'
    BY <1>1
  <1>8. \A j \in Dialogs : awaiting'[j] # 0 => awaiting'[j] = Last(j)'
    BY <1>5 DEF Last
  <1> QED BY <1>2, <1>3, <1>4, <1>6, <1>7, <1>8 DEF Displays

LEMMA Shows ==
    ASSUME Base, NEW i \in Dialogs, NEW copy \in Copies, NEW wait \in Nat, NEW cause,
           Show(i, copy, wait, cause), opened' = opened, i <= opened
    PROVE  /\ session' = [session EXCEPT ![i] = copy] /\ session'[i] = copy
           /\ \E w \in {0, wait} : /\ awaiting' = [awaiting EXCEPT ![i] = w] /\ awaiting'[i] = w
                                   /\ w # 0 => w = copy.last
                                   /\ wait = copy.last => w = wait
           /\ \A j \in Dialogs \ {i} : session'[j] = session[j] /\ awaiting'[j] = awaiting[j]
           /\ stale' \subseteq 1..opened
           /\ \A j \in Dialogs \ {i} : j \in stale' <=> j \in stale
           /\ i \notin stale' =>
               \/ IsLatest(copy) /\ due = 0 /\ Dispatching = {} /\ call'[i].op = "none"
               \/ i \notin stale /\ ~cause
  <1> USE DEF Base
  <1>1. /\ session \in [Dialogs -> {None} \cup Copies] /\ awaiting \in [Dialogs -> Nat]
        /\ stale \subseteq 1..opened /\ i \in 1..opened
    BY DEF Displays, Dialogs
  <1>2. PICK w : w = IF wait = copy.last THEN wait ELSE 0
    OBVIOUS
  <1>3. session' = [session EXCEPT ![i] = copy] /\ awaiting' = [awaiting EXCEPT ![i] = w]
    BY <1>2 DEF Show
  <1>4. /\ stale' \subseteq 1..opened
        /\ \A j \in Dialogs \ {i} : j \in stale' <=> j \in stale
        /\ i \notin stale' =>
            \/ IsLatest(copy) /\ due = 0 /\ Dispatching = {} /\ call'[i].op = "none"
            \/ i \notin stale /\ ~cause
    <2>1. stale' = IF IsLatest(copy) /\ due = 0 /\ Dispatching = {} /\ ~Loading(i)'
                   THEN stale \ {i} ELSE IF cause THEN stale \cup {i} ELSE stale
      BY DEF Show
    <2>2. CASE IsLatest(copy) /\ due = 0 /\ Dispatching = {} /\ ~Loading(i)'
      <3>1. stale' = stale \ {i}
        BY <2>1, <2>2, Zenon
      <3> QED BY <1>1, <2>2, <3>1 DEF Loading
    <2>3. CASE ~(IsLatest(copy) /\ due = 0 /\ Dispatching = {} /\ ~Loading(i)')
      <3>1. stale' = IF cause THEN stale \cup {i} ELSE stale
        BY <2>1, <2>3, Zenon
      <3>2. CASE cause
        <4>1. stale' = stale \cup {i}
          BY <3>1, <3>2, Zenon
        <4> QED BY <1>1, <4>1
      <3>3. CASE ~cause
        <4>1. stale' = stale
          BY <3>1, <3>3, Zenon
        <4> QED BY <1>1, <3>3, <4>1
      <3> QED BY <3>2, <3>3
    <2> QED BY <2>2, <2>3
  <1> QED BY <1>1, <1>2, <1>3, <1>4

LEMMA DialogTypes ==
    ASSUME Base, NEW i \in Dialogs
    PROVE  /\ get[i] \in [Polls -> {None} \cup Copies] /\ session[i] \in {None} \cup Copies
           /\ awaiting[i] \in Nat /\ Last(i) \in Nat /\ call[i] \in Posts /\ Held(call[i])
           /\ awaiting[i] # 0 => session[i] # None /\ awaiting[i] = session[i].last
           /\ i \notin open => session[i] = None /\ awaiting[i] = 0
           /\ get = [get EXCEPT ![i] = get[i]] /\ session = [session EXCEPT ![i] = session[i]]
           /\ awaiting = [awaiting EXCEPT ![i] = awaiting[i]]
           /\ opened \in Nat /\ (i \in open => i <= opened) /\ (i > opened => i \notin open)
           /\ faults \in 0..MaxTrouble /\ lost \in BOOLEAN /\ stale \subseteq 1..opened
  BY BoundsAssumption DEF Base, Displays, Calls, Last, Copies, Told, Dialogs

LEMMA PollFacts ==
    ASSUME Base, NEW i \in Dialogs, NEW p \in Polls, Poll(i, p)
    PROVE  /\ i \in open /\ newest \in DOMAIN rows
           /\ UNCHANGED <<rows, newest, due, said, call, opened, open, session, awaiting, lost, stale>>
           /\ get' = [get EXCEPT ![i][p] = Copy(newest)]
           /\ faults' \in 0..MaxTrouble
  <1> USE DEF Base
  <1>1. /\ i \in open /\ newest # 0
        /\ UNCHANGED <<rows, newest, due, said, call, opened, open, session, awaiting, lost, stale>>
        /\ get' = [get EXCEPT ![i][p] = Copy(newest)]
        /\ faults' = faults \/ Fail
    BY DEF Poll, ShouldPoll, server
  <1>2. newest \in DOMAIN rows
    BY <1>1, FewRows DEF Sessions
  <1>3. open \in SUBSET Dialogs
    BY BoundsAssumption DEF Displays, Dialogs
  <1>4. Cardinality(open) \in Nat
    BY <1>3, UnstartedFinite, FS_Subset, FS_CardinalityType
  <1> QED BY <1>1, <1>2, <1>4, BoundsAssumption DEF Fail, LittleTrouble, Displays

LEMMA PollArrivesFacts ==
    ASSUME Base, NEW i \in Dialogs, NEW p \in Polls, PollArrives(i, p)
    PROVE  /\ i \in open /\ i <= opened /\ get[i][p] \in Copies
           /\ UNCHANGED <<rows, newest, due, said, call, opened, open, faults, lost>>
           /\ get' = [get EXCEPT ![i][p] = None]
           /\ Show(i, get[i][p], awaiting[i],
                   session[i] \notin {None, get[i][p]} /\ ~IsLatest(get[i][p]))
  <1>1. get[i][p] # None
    BY DEF PollArrives
  <1>2. i \in open /\ get[i][p] \in Copies
    BY <1>1, DialogTypes DEF Base, Displays
  <1> QED BY <1>2, DialogTypes DEF PollArrives, server

LEMMA PollKeepsBase ==
    ASSUME Base, NEW i \in Dialogs, NEW p \in Polls, Poll(i, p) \/ PollArrives(i, p)
    PROVE  Base'
  <1> USE DEF Base
  <1>1. UNCHANGED <<rows, newest, due, said, call, opened, open>> /\ i \in open /\ lost' = lost
        /\ faults' \in 0..MaxTrouble
    BY PollFacts, PollArrivesFacts DEF Displays
  <1>2. Calls' /\ Numbered' /\ Sessions'
    BY <1>1, SameCalls DEF Sessions
  <1>3. CASE Poll(i, p)
    <2>1. Copy(newest) \in Copies
      BY <1>3, PollFacts, FewRows, CopyTypes
    <2>2. PICK polls : polls = [get[i] EXCEPT ![p] = Copy(newest)]
      OBVIOUS
    <2>3. polls \in [Polls -> {None} \cup Copies]
      BY <2>1, <2>2, DialogTypes
    <2>4. get' = [get EXCEPT ![i] = polls] /\ UNCHANGED <<session, awaiting, stale>>
      BY <1>3, <2>2, PollFacts
    <2>5. session' = [session EXCEPT ![i] = session[i]]
          /\ awaiting' = [awaiting EXCEPT ![i] = awaiting[i]] /\ stale' \subseteq 1..opened
      BY <2>4, DialogTypes
    <2>6. /\ session[i] \in {None} \cup Copies /\ awaiting[i] \in Nat
          /\ awaiting[i] # 0 => session[i] # None /\ awaiting[i] = session[i].last
          /\ i \in open' /\ open' \in SUBSET open /\ open \ open' \subseteq {i}
          /\ opened' = opened /\ lost' \in BOOLEAN
      BY <1>1, DialogTypes
    <2>7. Displays'
      <3>1. PICK copy \in {None} \cup Copies, wait \in Nat : copy = session[i] /\ wait = awaiting[i]
        BY <2>6
      <3>2. session' = [session EXCEPT ![i] = copy] /\ awaiting' = [awaiting EXCEPT ![i] = wait]
            /\ (wait # 0 => copy # None /\ wait = copy.last)
        BY <2>5, <2>6, <3>1
      <3> QED BY <1>1, <2>3, <2>4, <2>5, <2>6, <3>2, DisplayStep
    <2> QED BY <1>2, <2>7
  <1>4. CASE PollArrives(i, p)
    <2>1. PICK polls : polls = [get[i] EXCEPT ![p] = None]
      OBVIOUS
    <2>2. polls \in [Polls -> {None} \cup Copies] /\ get' = [get EXCEPT ![i] = polls]
      BY <1>4, <2>1, DialogTypes, PollArrivesFacts
    <2>3. PICK copy \in Copies, cause \in BOOLEAN : Show(i, copy, awaiting[i], cause)
      <3>1. (session[i] \notin {None, get[i][p]} /\ ~IsLatest(get[i][p])) \in BOOLEAN
        OBVIOUS
      <3> QED BY <1>4, <3>1, PollArrivesFacts
    <2>4. awaiting[i] \in Nat /\ opened' = opened /\ i <= opened
      BY <1>1, DialogTypes
    <2>5. PICK w \in {0, awaiting[i]} :
              awaiting' = [awaiting EXCEPT ![i] = w] /\ (w # 0 => w = copy.last)
      BY <2>3, <2>4, Shows
    <2>6. session' = [session EXCEPT ![i] = copy] /\ stale' \subseteq 1..opened
      BY <2>3, <2>4, Shows
    <2>7. copy # None /\ w \in Nat
      BY <2>4, MarksAssumption
    <2>8. lost' \in BOOLEAN
      BY <1>1, DialogTypes
    <2>9. Displays'
      BY <1>1, <2>2, <2>5, <2>6, <2>7, <2>8, DisplayStep
    <2> QED BY <1>2, <2>9
  <1> QED BY <1>3, <1>4

LEMMA Asks ==
    ASSUME Base, NEW i \in Dialogs, HandleAnswer(i) \/ ConfirmGoal(i)
    PROVE  \E op \in {"answer", "confirm"}, before \in Nat :
             /\ CanAct(i) /\ i <= opened /\ call[i] = NoCall
             /\ call' = [call EXCEPT ![i] = Post(op, "sent", None, before)]
             /\ UNCHANGED <<rows, newest, due, said, opened, open, get, session, faults, lost, stale>>
             /\ op = "answer" => before = Last(i)
             /\ op = "confirm" => session[i] # None /\ before = session[i].draft
             /\ \E w \in {0, awaiting[i]} : awaiting' = [awaiting EXCEPT ![i] = w]
  <1>1. CanAct(i) /\ i \in open /\ i <= opened /\ call[i] = NoCall
    <2>1. CanAct(i) /\ i \in open /\ call[i].op = "none"
      BY DEF HandleAnswer, ConfirmGoal, Ask, CanAct, Loading
    <2> QED BY <2>1, DialogTypes DEF Held
  <1>2. CASE HandleAnswer(i)
    <2>1. Last(i) \in Nat
      BY DialogTypes
    <2> QED BY <1>1, <1>2, <2>1 DEF HandleAnswer, Ask, server
  <1>3. CASE ConfirmGoal(i)
    <2>1. session[i] # None /\ session[i].draft \in Nat
      BY <1>3, DialogTypes DEF ConfirmGoal, Draft, Copies, Told
    <2> QED BY <1>1, <1>3, <2>1, DialogTypes DEF ConfirmGoal, Ask, server
  <1> QED BY <1>2, <1>3

LEMMA AskKeepsBase ==
    ASSUME Base, NEW i \in Dialogs, HandleAnswer(i) \/ ConfirmGoal(i)
    PROVE  Base'
  <1> USE DEF Base
  <1>1. PICK op \in {"answer", "confirm"}, before \in Nat :
             /\ i <= opened
             /\ call' = [call EXCEPT ![i] = Post(op, "sent", None, before)]
             /\ UNCHANGED <<rows, newest, due, said, opened, open, get, session, faults, lost, stale>>
             /\ \E w \in {0, awaiting[i]} : awaiting' = [awaiting EXCEPT ![i] = w]
    BY Asks
  <1>2. PICK new : new = Post(op, "sent", None, before)
    OBVIOUS
  <1>3. new \in Posts /\ new.op = op /\ new.phase = "sent"
    BY <1>2 DEF Post, Posts, Told
  <1>4. Held(new)' /\ ~Starting(new)
    BY <1>3, CallRecords DEF Held, Starting
  <1>5. Len(rows) \in Nat /\ opened \in Nat
    BY FewRows, DialogTypes
  <1>6. Calls' /\ Numbered'
    <2>1. Len(rows') \in Nat /\ opened' \in Nat /\ opened' >= opened /\ i <= opened'
          /\ Len(rows') = Len(rows) /\ call' = [call EXCEPT ![i] = new]
      BY <1>1, <1>2, <1>5
    <2> QED BY <1>3, <1>4, <2>1, CallStep
  <1>7. Displays'
    <2>1. PICK w \in {0, awaiting[i]} : awaiting' = [awaiting EXCEPT ![i] = w]
      BY <1>1
    <2>2. /\ get' = [get EXCEPT ![i] = get[i]] /\ session' = [session EXCEPT ![i] = session[i]]
          /\ open' = open /\ opened' = opened /\ stale' \subseteq 1..opened
          /\ faults' \in 0..MaxTrouble /\ lost' \in BOOLEAN
      BY <1>1, DialogTypes
    <2>3. w \in Nat /\ (w # 0 => session[i] # None /\ w = session[i].last)
          /\ (i \notin open => session[i] = None /\ w = 0 /\ \A p \in Polls : get[i][p] = None)
      BY DialogTypes DEF Displays
    <2> QED BY <2>1, <2>2, <2>3, DialogTypes, DisplayStep
  <1> QED BY <1>1, <1>6, <1>7 DEF Sessions

(* A dialog is off the page: closed, or reloaded. *)
LEMMA GoneDisplays ==
    ASSUME Base, NEW i \in Dialogs, Gone(i), UNCHANGED <<opened, faults, lost, stale>>
    PROVE  Displays'
  <1>1. PICK polls : polls = [p \in Polls |-> None]
    OBVIOUS
  <1>2. polls \in [Polls -> {None} \cup Copies] /\ \A p \in Polls : polls[p] = None
    BY <1>1
  <1>3. /\ get' = [get EXCEPT ![i] = polls] /\ session' = [session EXCEPT ![i] = None]
        /\ awaiting' = [awaiting EXCEPT ![i] = 0]
        /\ open' \in SUBSET open /\ open \ open' \subseteq {i}
    BY <1>1 DEF Gone
  <1>4. opened' = opened /\ faults' \in 0..MaxTrouble /\ lost' \in BOOLEAN /\ stale' \subseteq 1..opened
    BY DialogTypes
  <1> QED BY <1>2, <1>3, <1>4, DisplayStep

LEMMA ForgetCall ==
    ASSUME Base, NEW i \in Dialogs, call' = [call EXCEPT ![i] = NoCall],
           UNCHANGED <<rows, newest, due, said, opened>>, i <= opened
    PROVE  Calls' /\ Numbered' /\ Sessions'
  <1>1. NoCall \in Posts /\ Held(NoCall)' /\ ~Starting(NoCall)
    BY CallRecords DEF Held, Starting
  <1>2. Len(rows) \in Nat /\ opened \in Nat
    BY FewRows, DialogTypes
  <1>3. Len(rows') \in Nat /\ opened' \in Nat /\ opened' >= opened /\ i <= opened'
        /\ Len(rows') = Len(rows)
    BY <1>2
  <1>4. Calls' /\ Numbered'
    BY <1>1, <1>3, CallStep
  <1> QED BY <1>4 DEF Base, Sessions

LEMMA ReturnsFacts ==
    ASSUME Base, NEW i \in Dialogs, Returns(i)
    PROVE  /\ i \in open /\ i <= opened /\ call' = [call EXCEPT ![i] = NoCall]
           /\ UNCHANGED <<rows, newest, due, said, opened, faults, lost>>
           /\ \/ /\ UNCHANGED <<open, get>> /\ call[i].phase = "ok" /\ call[i].copy \in Copies
                 /\ \/ /\ call[i].op = "start"
                       /\ Show(i, call[i].copy, awaiting[i], call[i].copy.id # newest)
                    \/ /\ call[i].op = "answer"
                       /\ Show(i, call[i].copy, call[i].before, call[i].before = 0)
              \/ Gone(i) /\ UNCHANGED stale
              \/ call[i].phase = "failed" /\ UNCHANGED <<open, get, session, awaiting, stale>>
  <1>1. /\ i \in open /\ i <= opened /\ call' = [call EXCEPT ![i] = NoCall]
        /\ UNCHANGED <<rows, newest, due, said, opened, faults, lost>>
    BY DialogTypes DEF Returns, StartReturns, AnswerReturns, ConfirmReturns, CallFails, Return, server
  <1>2. CASE StartReturns(i)
    BY <1>1, <1>2, DialogTypes DEF StartReturns, Phase, Held, Posts
  <1>3. CASE AnswerReturns(i)
    BY <1>1, <1>3, DialogTypes DEF AnswerReturns, Awaited, Phase, Held, Posts
  <1>4. CASE ConfirmReturns(i) \/ CallFails(i)
    BY <1>1, <1>4 DEF ConfirmReturns, CallFails
  <1> QED BY <1>2, <1>3, <1>4 DEF Returns

LEMMA ReturnKeepsBase ==
    ASSUME Base, NEW i \in Dialogs, Returns(i)
    PROVE  Base'
  <1>1. /\ i \in open /\ i <= opened /\ call' = [call EXCEPT ![i] = NoCall]
        /\ UNCHANGED <<rows, newest, due, said, opened, faults, lost>>
    BY ReturnsFacts
  <1>2. Calls' /\ Numbered' /\ Sessions'
    BY <1>1, ForgetCall
  <1>3. CASE \E copy \in Copies, wait \in Nat, cause \in BOOLEAN :
                 Show(i, copy, wait, cause) /\ UNCHANGED <<open, get>>
    <2>1. PICK copy \in Copies, wait \in Nat, cause \in BOOLEAN :
                 Show(i, copy, wait, cause) /\ UNCHANGED <<open, get>>
      BY <1>3
    <2>2. PICK w \in {0, wait} :
              awaiting' = [awaiting EXCEPT ![i] = w] /\ (w # 0 => w = copy.last)
      BY <1>1, <2>1, Shows
    <2>3. session' = [session EXCEPT ![i] = copy] /\ stale' \subseteq 1..opened
      BY <1>1, <2>1, Shows
    <2>4. /\ get' = [get EXCEPT ![i] = get[i]] /\ copy # None /\ w \in Nat /\ i \in open'
          /\ lost' \in BOOLEAN /\ faults' \in 0..MaxTrouble /\ opened' = opened
          /\ open' \in SUBSET open /\ open \ open' \subseteq {i}
      BY <1>1, <2>1, DialogTypes, MarksAssumption
    <2>5. get[i] \in [Polls -> {None} \cup Copies]
      BY DialogTypes
    <2>6. Displays'
      BY <2>2, <2>3, <2>4, <2>5, DisplayStep
    <2> QED BY <1>2, <2>6 DEF Base
  <1>4. CASE Gone(i) /\ UNCHANGED stale
    BY <1>1, <1>2, <1>4, GoneDisplays DEF Base
  <1>5. CASE UNCHANGED <<open, get, session, awaiting, stale>>
    <2>1. faults' \in 0..MaxTrouble /\ lost' \in BOOLEAN /\ stale' \subseteq 1..opened
      BY <1>1, <1>5, DialogTypes
    <2> QED BY <1>1, <1>2, <1>5, <2>1, SameDisplays DEF Base
  <1>6. awaiting[i] \in Nat /\ call[i].before \in Nat
    BY DialogTypes DEF Posts, Told
  <1>7. (call[i].copy.id # newest) \in BOOLEAN /\ (call[i].before = 0) \in BOOLEAN
    OBVIOUS
  <1> QED BY <1>3, <1>4, <1>5, <1>6, <1>7, ReturnsFacts

LEMMA OpenFacts ==
    ASSUME Base, Open
    PROVE  /\ opened' = opened + 1 /\ opened' \in Dialogs /\ opened \in Nat
           /\ open' = open \cup {opened'} /\ call' = [call EXCEPT ![opened'] = Start]
           /\ UNCHANGED <<rows, newest, due, said, get, session, awaiting, faults, lost>>
           /\ stale \subseteq stale' /\ stale' \subseteq 1..opened'
           /\ opened' \notin stale' => due = 0 /\ Dispatching = {}
           /\ \A j \in Dialogs : j # opened' => (j \in stale' <=> j \in stale)
  <1>1. opened \in Nat /\ opened < MaxDialogs /\ stale \subseteq 1..opened
    BY BoundsAssumption DEF Open, Base, Displays
  <1>2. /\ opened' = opened + 1 /\ opened' \in Dialogs
        /\ open' = open \cup {opened'} /\ call' = [call EXCEPT ![opened'] = Start]
        /\ UNCHANGED <<rows, newest, due, said, get, session, awaiting, faults, lost>>
    BY <1>1, BoundsAssumption DEF Open, server, Dialogs
  <1>3. due \in Nat
    BY DEF Base, Sessions
  <1>4. CASE due > 0 \/ Dispatching # {}
    BY <1>1, <1>2, <1>4 DEF Open
  <1>5. CASE ~(due > 0 \/ Dispatching # {})
    BY <1>1, <1>2, <1>3, <1>5 DEF Open
  <1> QED BY <1>1, <1>2, <1>4, <1>5

LEMMA OpenKeepsBase ==
    ASSUME Base, Open
    PROVE  Base'
  <1>1. PICK i \in Dialogs : i = opened'
    BY OpenFacts
  <1>2. Calls' /\ Numbered'
    <2>1. Start \in Posts /\ Held(Start)'
      BY CallRecords DEF Held
    <2>2. i \in Unstarted
      BY <1>1, OpenFacts DEF Unstarted
    <2>3. Len(rows') \in Nat /\ opened' \in Nat /\ opened' >= opened /\ i <= opened'
          /\ Len(rows') = Len(rows) /\ call' = [call EXCEPT ![i] = Start]
      BY <1>1, FewRows, OpenFacts
    <2> QED BY <2>1, <2>2, <2>3, CallStep
  <1>3. Sessions'
    BY OpenFacts DEF Base, Sessions
  <1>4. Displays'
    <2>1. opened' \in 0..MaxDialogs /\ open' \subseteq 1..opened'
      <3>1. opened' = opened + 1 /\ opened' \in Dialogs /\ opened \in Nat /\ open' = open \cup {opened'}
            /\ open \subseteq 1..opened
        BY OpenFacts DEF Base, Displays
      <3>2. open' \subseteq 1..opened'
        BY <3>1
      <3> QED BY <3>1, <3>2, BoundsAssumption DEF Dialogs
    <2> QED BY <2>1, OpenFacts DEF Base, Displays, Last
  <1> QED BY <1>2, <1>3, <1>4 DEF Base

LEMMA LeaveFacts ==
    ASSUME Base, NEW i \in Dialogs, Leave(i)
    PROVE  /\ i \in open /\ i <= opened /\ Gone(i)
           /\ UNCHANGED <<rows, newest, due, said, opened, faults, lost, stale>>
           /\ \A j \in Dialogs \ {i} : call'[j] = call[j]
           /\ \/ call' = call /\ call[i].phase \in {"sent", "dispatched"}
              \/ call' = [call EXCEPT ![i] = NoCall]
  <1>1. /\ i \in open /\ i <= opened /\ Gone(i)
        /\ UNCHANGED <<rows, newest, due, said, opened, faults, lost, stale>>
    BY DialogTypes DEF Leave, server, history
  <1>2. call \in [Dialogs -> Posts]
    BY DEF Base, Calls
  <1>3. CASE call[i].phase \in {"sent", "dispatched"}
    BY <1>1, <1>2, <1>3 DEF Leave
  <1>4. CASE call[i].phase \notin {"sent", "dispatched"}
    <2>1. call' = [call EXCEPT ![i] = NoCall]
      BY <1>4 DEF Leave
    <2> QED BY <1>1, <1>2, <2>1
  <1> QED BY <1>3, <1>4

LEMMA LeaveKeepsBase ==
    ASSUME Base, NEW i \in Dialogs, Leave(i)
    PROVE  Base'
  <1>1. Displays'
    BY LeaveFacts, GoneDisplays
  <1>2. CASE call' = call
    <2>1. Calls' /\ Numbered'
      BY <1>2, LeaveFacts, SameCalls
    <2> QED BY <1>1, <2>1, LeaveFacts DEF Base, Sessions
  <1>3. CASE call' = [call EXCEPT ![i] = NoCall]
    BY <1>1, <1>3, LeaveFacts, ForgetCall DEF Base
  <1> QED BY <1>2, <1>3, LeaveFacts

LEMMA BaseInit == Init => Base
  <1> SUFFICES ASSUME Init PROVE Base
    OBVIOUS
  <1> USE BoundsAssumption DEF Init
  <1>1. Sessions
    BY DEF Sessions
  <1>2. Calls
    BY CallRecords DEF Calls, Held
  <1>3. Displays
    <2>1. \A i \in Dialogs : awaiting[i] = 0 /\ session[i] = None /\ \A p \in Polls : get[i][p] = None
      OBVIOUS
    <2>2. get \in [Dialogs -> [Polls -> {None} \cup Copies]]
      OBVIOUS
    <2>4. session \in [Dialogs -> {None} \cup Copies]
      OBVIOUS
    <2>5. awaiting \in [Dialogs -> Nat]
      OBVIOUS
    <2>3. opened \in 0..MaxDialogs /\ faults \in 0..MaxTrouble /\ open = {} /\ stale = {}
      <3>1. opened = 0 /\ faults = 0 /\ open = {} /\ stale = {}
        OBVIOUS
      <3> HIDE DEF Init
      <3> QED BY <3>1
    <2>6. lost \in BOOLEAN
      BY Zenon
    <2> HIDE DEF Init
    <2> QED BY <2>1, <2>2, <2>3, <2>4, <2>5, <2>6 DEF Displays
  <1>4. Numbered
    <2>1. Cardinality(Unstarted) <= Cardinality(Dialogs)
      BY UnstartedFinite, FS_Subset
    <2>2. Len(rows) = 0
      OBVIOUS
    <2> QED BY <2>1, <2>2, UnstartedFinite DEF Numbered
  <1> QED BY <1>1, <1>2, <1>3, <1>4 DEF Base

LEMMA BaseNext == Base /\ [Next]_onboarding => Base'
  <1> SUFFICES ASSUME Base, [Next]_onboarding PROVE Base'
    OBVIOUS
  <1>1. CASE UNCHANGED onboarding
    <2>1. UNCHANGED <<rows, newest, due, said, call, opened, open, get, session, awaiting,
                      faults, lost, stale>>
      BY <1>1 DEF onboarding, server, dialogs, history
    <2>2. Calls' /\ Numbered' /\ Sessions'
      BY <2>1, SameCalls DEF Base, Sessions
    <2>3. Displays'
      BY <2>1 DEF Base, Displays, Last
    <2> QED BY <2>2, <2>3 DEF Base
  <1>2. ASSUME NEW i \in Dialogs, ServerStep(i) PROVE Base'
    BY <1>2, SendKeepsBase, FinishStartKeepsBase, FinishAnswerKeepsBase, ConfirmKeepsBase
       DEF ServerStep
  <1>3. ASSUME NEW i \in Dialogs, PollStep(i) PROVE Base'
    BY <1>3, PollKeepsBase DEF PollStep
  <1> QED BY <1>1, <1>2, <1>3, AgentKeepsBase, OpenKeepsBase, AskKeepsBase, ReturnKeepsBase,
             LeaveKeepsBase DEF Next

(* Rows, calls, and what each dialog shows have their types. *)
THEOREM TypeCorrect == Spec => []TypeOK
  <1>1. Spec => []Base
    BY BaseInit, BaseNext, PTL DEF Spec
  <1> QED BY <1>1, TypedIfBase, PTL

-----------------------------------------------------------------------------
(* Up to date *)

LEMMA LatestKept ==
    ASSUME Base, SameCopies, newest' = newest
    PROVE  /\ newest # 0 => Newest' = Newest
           /\ \A copy \in Copies : IsLatest(copy)' <=> IsLatest(copy)
           /\ \A r \in DOMAIN rows : Copy(r)' = Copy(r)
  <1>1. newest # 0 => newest \in DOMAIN rows
    BY FewRows DEF Base, Sessions
  <1>2. \A r \in DOMAIN rows : CopyOf(r, rows'[r]) = CopyOf(r, rows[r])
    BY DEF SameCopies, CopyOf
  <1>3. newest # 0 => CopyOf(newest', rows'[newest']) = CopyOf(newest, rows[newest])
    BY <1>1, <1>2
  <1> QED BY <1>2, <1>3 DEF Newest, IsLatest, Copy

LEMMA HeldCopy ==
    ASSUME Base, NEW i \in Dialogs, call[i].phase = "dispatched", call[i].copy # None
    PROVE  call[i].copy \in Copies /\ call[i].copy.id \in DOMAIN rows
  <1>1. call[i].copy \in Copies /\ call[i].copy.id <= Len(rows)
    BY DialogTypes DEF Posts, Held
  <1> QED BY <1>1, FewRows DEF Copies, Dialogs

(* A step that leaves a dialog and what it shows alone. *)
LEMMA Bystander ==
    ASSUME Base, NEW j \in Dialogs, UpToDate(j), UNCHANGED <<newest, due>>, SameCopies,
           call'[j] = call[j], session'[j] = session[j], get'[j] = get[j],
           awaiting'[j] = awaiting[j], j \in open' <=> j \in open,
           \A k \in Dialogs \ {j} : call'[k].phase # "dispatched"
    PROVE  UpToDate(j)'
  <1> USE DEF UpToDate, Stage
  <1>1. /\ newest # 0 => Newest' = Newest
        /\ \A copy \in Copies : IsLatest(copy)' <=> IsLatest(copy)
        /\ \A r \in DOMAIN rows : Copy(r)' = Copy(r)
    BY LatestKept
  <1>2. session[j] \in {None} \cup Copies /\ \A p \in Polls : get[j][p] \in {None} \cup Copies
    BY DialogTypes
  <1>3. Settled(j) => Settled(j)'
    BY <1>1, <1>2 DEF Settled, IsLatest
  <1>4. Idle(j)'
    <2>1. Idle(j)
      OBVIOUS
    <2>2. Waits(j) => Waits(j)'
      BY DEF Waits
    <2> QED BY <1>1, <1>2, <1>3, <2>1, <2>2 DEF Idle, IsLatest
  <1>5. Sent(j)' /\ Failed(j)'
    <2>1. Asked(call[j]) => Asked(call[j])'
      BY <1>1 DEF Asked
    <2> QED BY <1>3, <2>1 DEF Sent, Failed
  <1>6. Dispatched(call[j])'
    <2>1. CASE call[j].phase = "dispatched" /\ call[j].copy # None
      BY <1>1, <2>1, HeldCopy DEF Dispatched, Blank
    <2>2. CASE ~(call[j].phase = "dispatched" /\ call[j].copy # None)
      BY <2>2, DialogTypes DEF Dispatched, Held
    <2> QED BY <2>1, <2>2
  <1>7. Ok(call[j])'
    <2>1. CASE call[j].phase = "ok" /\ call[j].op \in {"start", "answer"}
      <3>1. call[j].copy \in Copies
        BY <2>1, DialogTypes DEF Posts, Held
      <3> QED BY <1>1, <2>1, <3>1 DEF Ok, Blank, IsLatest
    <2>2. CASE ~(call[j].phase = "ok" /\ call[j].op \in {"start", "answer"})
      BY <2>2 DEF Ok
    <2> QED BY <2>1, <2>2
  <1> QED BY <1>4, <1>5, <1>6, <1>7 DEF Undisturbed

(* What holds of a dialog without a call under way. *)
LEMMA UpToDateIfIdle ==
    ASSUME NEW i \in Dialogs, call'[i] = NoCall, due' \in Nat, due' <= 1,
           \A k \in Dialogs \ {i} : call'[k].phase # "dispatched", Idle(i)'
    PROVE  UpToDate(i)'
  BY CallRecords DEF UpToDate, Undisturbed, Stage, Sent, Failed, Dispatched, Ok

LEMMA IdleIfShown ==
    ASSUME NEW i \in Dialogs, NEW copy \in Copies, session'[i] = copy, IsLatest(copy),
           UNCHANGED <<rows, newest, due>>, due = 0
    PROVE  Idle(i)'
  BY MarksAssumption DEF Idle, IsLatest, Copy

LEMMA DueNat == Base => due \in Nat
  BY DEF Base, Sessions

LEMMA SendUpToDate ==
    ASSUME Base, NEW i \in Dialogs, NEW j \in Dialogs, j <= opened, j \notin stale',
           j \notin stale => UpToDate(j),
           ResumeStart(i) \/ FirstStart(i) \/ SendAnswer(i)
    PROVE  UpToDate(j)'
  <1>1. PICK phase \in {"dispatched", "ok", "failed"}, copy \in Copies \cup {None} :
            Send(i, phase, copy)
    BY Sends
  <1>2. /\ call[i].phase = "sent" /\ call[i].op \in {"start", "answer"}
        /\ UNCHANGED <<rows, newest, said, opened, open, get, session, awaiting>>
        /\ stale \subseteq stale' /\ j \in 1..opened
        /\ phase = "dispatched" => j = i
        /\ phase = "dispatched" => due' = due + 1
        /\ phase # "dispatched" => due' = due
    BY <1>1, DialogTypes DEF Send, Dialogs
  <1>3. UpToDate(j) /\ SameCopies
    BY <1>2 DEF SameCopies
  <1>4. /\ \A k \in Dialogs \ {i} : call'[k] = call[k]
        /\ \/ /\ call'[i].op = call[i].op /\ call'[i].phase = phase /\ call'[i].copy = copy
              /\ call'[i].before = call[i].before
           \/ i \notin open /\ phase # "dispatched" /\ call'[i] = NoCall
    BY <1>1, SendCall
  <1>5. CASE j # i
    <2>1. \A k \in Dialogs \ {j} : call'[k].phase # "dispatched"
      BY <1>2, <1>3, <1>4, <1>5, CallRecords DEF UpToDate, Undisturbed
    <2> QED BY <1>2, <1>3, <1>4, <1>5, <2>1, Bystander
  <1>6. CASE j = i
    <2>1. due = 0 /\ Settled(i) /\ Asked(call[i])
      BY <1>2, <1>3, <1>6 DEF UpToDate, Stage, Sent, Settled
    <2>2. \A k \in Dialogs \ {i} : call'[k].phase # "dispatched"
      BY <1>3, <1>4, <1>6 DEF UpToDate, Undisturbed
    <2>3. due' \in Nat /\ due' <= 1
      BY <1>2, <2>1
    <2>4. CASE i \notin open /\ call'[i] = NoCall
      <3>1. Idle(i)'
        BY <1>2, <2>4 DEF Idle
      <3> QED BY <1>6, <2>2, <2>3, <2>4, <3>1, UpToDateIfIdle
    <2>5. CASE /\ call'[i].op = call[i].op /\ call'[i].phase = phase /\ call'[i].copy = copy
               /\ call'[i].before = call[i].before
      <3>1. call'[i] # NoCall /\ call'[i].phase # "sent"
        BY <2>5, CallRecords
      <3>2. Failed(i)'
        <4>1. phase = "failed" => Settled(i)'
          BY <1>2, <2>1 DEF Settled, IsLatest, Copy
        <4> QED BY <2>5, <4>1 DEF Failed
      <3>3. Dispatched(call[i])'
        <4>1. ASSUME phase = "dispatched", call[i].op = "start", copy # None
              PROVE  Blank(Copy(copy.id)')
          BY <1>1, <1>2, <1>6, <4>1 DEF Send, Copy
        <4>2. ASSUME phase = "dispatched", call[i].op = "answer"
              PROVE  copy.last = call[i].before
          BY <1>1, <2>1, <4>2 DEF Send, Asked
        <4> QED BY <2>5, <4>1, <4>2 DEF Dispatched, Blank, Copy
      <3>4. Ok(call[i])'
        <4>1. ASSUME phase = "ok" PROVE IsLatest(copy)' \/ copy.id # newest'
          <5>1. copy = Copy(copy.id) /\ copy.id \in DOMAIN rows
            BY <1>1, <4>1 DEF Send
          <5>2. copy.id # 0
            BY <5>1, FewRows
          <5> QED BY <1>2, <5>1, <5>2 DEF IsLatest, Copy
        <4>2. phase = "ok" => call[i].op = "start"
          BY <1>1 DEF Send
        <4> QED BY <1>2, <2>1, <2>5, <4>1, <4>2 DEF Ok
      <3> QED BY <1>6, <2>2, <2>3, <3>1, <3>2, <3>3, <3>4
              DEF UpToDate, Undisturbed, Stage, Idle, Sent
    <2> QED BY <1>4, <2>4, <2>5
  <1> QED BY <1>5, <1>6

LEMMA UpToDateIfOk ==
    ASSUME NEW i \in Dialogs, call'[i].phase = "ok", due' \in Nat, due' <= 1,
           \A k \in Dialogs \ {i} : call'[k].phase # "dispatched", Ok(call[i])'
    PROVE  UpToDate(i)'
  BY CallRecords DEF UpToDate, Undisturbed, Stage, Idle, Sent, Failed, Dispatched

(* Only the dialog whose call reaches the row is still up to date. *)
LEMMA OnlyOwn ==
    ASSUME NEW i \in Dialogs, NEW j \in Dialogs, UpToDate(j), call[i].phase = "dispatched"
    PROVE  j = i
  BY DEF UpToDate, Undisturbed

LEMMA FinishStartUpToDate ==
    ASSUME Base, NEW i \in Dialogs, FinishStart(i), UpToDate(i)
    PROVE  UpToDate(i)'
  <1>1. PICK k : k = CopyOf(newest', rows'[newest'])
    OBVIOUS
  <1>2. /\ call[i].op = "start" /\ call[i].phase = "dispatched"
        /\ newest' \in Dialogs /\ newest' # 0 /\ rows'[newest'] \in Rows
        /\ Set(i, "ok", k) /\ UNCHANGED <<due, opened, open>>
        /\ Len(rows') = Len(rows) \/ Len(rows') = Len(rows) + 1
    BY <1>1, FinishStartRows DEF Dialogs
  <1>3. k \in Copies /\ k # None /\ Newest' = k /\ IsLatest(k)'
    BY <1>1, <1>2, CopyOfTypes DEF Newest, IsLatest, Copy
  <1>4. /\ \A j \in Dialogs \ {i} : call'[j] = call[j]
        /\ \/ call'[i].op = "start" /\ call'[i].phase = "ok" /\ call'[i].copy = k
           \/ i \notin open /\ call'[i] = NoCall
    BY <1>2, <1>3, SetCall
  <1>5. /\ \A j \in Dialogs \ {i} : call'[j].phase # "dispatched"
        /\ due' \in Nat /\ due' <= 1
    BY <1>2, <1>4, DueNat DEF UpToDate, Undisturbed
  <1>6. CASE i \notin open /\ call'[i] = NoCall
    <2>1. Idle(i)'
      BY <1>2, <1>6 DEF Idle
    <2> QED BY <1>5, <1>6, <2>1, UpToDateIfIdle
  <1>7. CASE call'[i].op = "start" /\ call'[i].phase = "ok" /\ call'[i].copy = k
    <2>1. due > 0 => Blank(k)
      <3>1. CASE call[i].copy = None
        <4>1. k.kind = "none" /\ k.draft = 0
          BY <1>1, <1>2, <3>1, FinishStartRows, CopyOfTypes DEF NewRow
        <4> QED BY <4>1 DEF Blank
      <3>2. CASE call[i].copy # None
        <4>1. due > 0 => Blank(Copy(call[i].copy.id))
          BY <1>2, <3>2 DEF UpToDate, Stage, Dispatched
        <4> QED BY <1>1, <3>2, <4>1, FinishStartRows DEF Copy
      <3> QED BY <3>1, <3>2
    <2>2. Ok(call[i])'
      BY <1>2, <1>3, <1>5, <1>7, <2>1 DEF Ok, Blank
    <2> QED BY <1>5, <1>7, <2>2, UpToDateIfOk
  <1> QED BY <1>4, <1>6, <1>7

LEMMA FinishAnswerUpToDate ==
    ASSUME Base, NEW i \in Dialogs, FinishAnswer(i), UpToDate(i)
    PROVE  UpToDate(i)'
  <1>1. PICK k : k = CopyOf(newest', rows'[newest'])
    OBVIOUS
  <1>2. /\ call[i].op = "answer" /\ call[i].phase = "dispatched"
        /\ newest' \in Dialogs /\ newest' # 0 /\ rows'[newest'] \in Rows
        /\ Set(i, "ok", k) /\ UNCHANGED <<due, opened, open>> /\ Len(rows') = Len(rows)
        /\ rows'[newest'].last = call[i].copy.last
    <2>1. /\ call[i].op = "answer" /\ call[i].phase = "dispatched" /\ Len(rows') = Len(rows)
          /\ newest' \in Dialogs /\ newest' \in DOMAIN rows /\ rows' \in Seq(Rows)
          /\ Set(i, "ok", k) /\ UNCHANGED <<due, opened, open>>
      BY <1>1, FinishAnswerRows
    <2>2. rows'[newest'] = [status |-> rows[newest'].status, turn |-> "user",
                            last |-> call[i].copy.last, kind |-> call[i].copy.kind,
                            draft |-> rows[newest'].draft]
      BY FinishAnswerRows
    <2>3. rows'[newest'] \in Rows
      BY <2>1, FewRows
    <2> QED BY <2>1, <2>2, <2>3 DEF Dialogs
  <1>3. /\ k \in Copies /\ k # None /\ Newest' = k /\ IsLatest(k)'
        /\ k.last = call[i].copy.last
    BY <1>1, <1>2, CopyOfTypes DEF Newest, IsLatest, Copy
  <1>4. /\ \A j \in Dialogs \ {i} : call'[j] = call[j]
        /\ \/ /\ call'[i].op = "answer" /\ call'[i].phase = "ok" /\ call'[i].copy = k
              /\ call'[i].before = call[i].before
           \/ i \notin open /\ call'[i] = NoCall
    BY <1>2, <1>3, SetCall
  <1>5. /\ \A j \in Dialogs \ {i} : call'[j].phase # "dispatched"
        /\ due' \in Nat /\ due' <= 1
    BY <1>2, <1>4, DueNat DEF UpToDate, Undisturbed
  <1>6. CASE i \notin open /\ call'[i] = NoCall
    <2>1. Idle(i)'
      BY <1>2, <1>6 DEF Idle
    <2> QED BY <1>5, <1>6, <2>1, UpToDateIfIdle
  <1>7. CASE /\ call'[i].op = "answer" /\ call'[i].phase = "ok" /\ call'[i].copy = k
             /\ call'[i].before = call[i].before
    <2>1. k.last = call[i].before
      BY <1>2, <1>3 DEF UpToDate, Stage, Dispatched
    <2>2. Ok(call[i])'
      BY <1>2, <1>3, <1>7, <2>1 DEF Ok
    <2> QED BY <1>5, <1>7, <2>2, UpToDateIfOk
  <1> QED BY <1>4, <1>6, <1>7

LEMMA SettledKept ==
    ASSUME Base, NEW i \in Dialogs, Settled(i), SameCopies,
           UNCHANGED <<newest, due, session, get>>
    PROVE  Settled(i)'
  <1>1. session[i] \in {None} \cup Copies /\ \A p \in Polls : get[i][p] \in {None} \cup Copies
    BY DialogTypes
  <1> QED BY <1>1, LatestKept DEF Settled

LEMMA ConfirmUpToDate ==
    ASSUME Base, NEW i \in Dialogs, NEW j \in Dialogs, Confirm(i), UpToDate(j)
    PROVE  UpToDate(j)'
  <1>1. /\ call[i].op = "confirm" /\ call[i].phase = "sent" /\ Len(rows') = Len(rows) /\ SameCopies
        /\ UNCHANGED <<newest, due, opened, open, get, session, awaiting, stale>>
    BY Confirms
  <1>2. PICK phase \in {"ok", "failed"} : Set(i, phase, None)
    BY Confirms
  <1>3. /\ \A k \in Dialogs \ {i} : call'[k] = call[k]
        /\ \/ call'[i].op = "confirm" /\ call'[i].phase = phase
           \/ i \notin open /\ call'[i] = NoCall
    BY <1>1, <1>2, SetCall
  <1>4. \A k \in Dialogs \ {j} : call'[k].phase # "dispatched"
    BY <1>3, CallRecords DEF UpToDate, Undisturbed
  <1>5. due' \in Nat /\ due' <= 1
    BY <1>1, DueNat DEF UpToDate
  <1>6. CASE j # i
    BY <1>1, <1>3, <1>4, <1>6, Bystander
  <1>7. CASE j = i /\ i \notin open /\ call'[i] = NoCall
    <2>1. Idle(i)'
      BY <1>1, <1>7 DEF Idle
    <2> QED BY <1>4, <1>5, <1>7, <2>1, UpToDateIfIdle
  <1>8. CASE j = i /\ call'[i].op = "confirm" /\ call'[i].phase = phase
    <2>1. Settled(i)
      BY <1>1, <1>8 DEF UpToDate, Stage, Sent
    <2>2. Settled(i)'
      BY <1>1, <2>1, SettledKept
    <2> QED BY <1>4, <1>5, <1>8, <2>2, CallRecords
            DEF UpToDate, Undisturbed, Stage, Idle, Sent, Failed, Dispatched, Ok
  <1> QED BY <1>3, <1>6, <1>7, <1>8

LEMMA AgentUpToDate ==
    ASSUME Base, NEW j \in Dialogs, AgentReplies, UpToDate(j)
    PROVE  UpToDate(j)'
  <1>1. /\ UNCHANGED <<newest, call, opened, open, get, session, awaiting, faults, stale>>
        /\ due = 1 /\ due' = 0
    BY AgentRows, DueNat DEF UpToDate
  <1>2. ~Settled(j)
    BY <1>1 DEF Settled
  <1>3. call'[j] = call[j] /\ session'[j] = session[j] /\ awaiting'[j] = awaiting[j]
    BY <1>1
  <1>4. Idle(j)'
    <2>1. j \in open /\ call[j] = NoCall => session[j] # None /\ Waits(j)
      BY <1>1, <1>2 DEF UpToDate, Stage, Idle
    <2>2. Waits(j) => Waits(j)'
      BY <1>3 DEF Waits
    <2> QED BY <1>1, <1>3, <2>1, <2>2 DEF Idle
  <1>5. Sent(j)' /\ Failed(j)'
    BY <1>2, <1>3 DEF UpToDate, Stage, Sent, Failed
  <1>6. Dispatched(call[j])' /\ Ok(call[j])'
    BY <1>1, <1>3 DEF UpToDate, Stage, Dispatched, Ok
  <1>7. due' <= 1 /\ Undisturbed(j)'
    BY <1>1 DEF UpToDate, Undisturbed
  <1> QED BY <1>4, <1>5, <1>6, <1>7 DEF UpToDate, Stage

(* What an idle dialog shows when it lets the user act. *)
LEMMA ShownIfAble ==
    ASSUME Base, NEW i \in Dialogs, UpToDate(i), CanAct(i)
    PROVE  due = 0 /\ session[i] # None /\ IsLatest(session[i])
  <1>1. i \in open /\ call[i] = NoCall /\ session[i] # None /\ ~Blank(session[i])
    BY DialogTypes DEF CanAct, Loading, Draft, Question, Held, Blank
  <1>2. awaiting[i] = 0
    BY DialogTypes DEF CanAct, IsAwaitingAgent, Last
  <1> QED BY <1>1, <1>2 DEF UpToDate, Stage, Idle, Waits

LEMMA AskUpToDate ==
    ASSUME Base, NEW i \in Dialogs, NEW j \in Dialogs, UpToDate(j),
           HandleAnswer(i) \/ ConfirmGoal(i)
    PROVE  UpToDate(j)'
  <1>1. PICK op \in {"answer", "confirm"}, before \in Nat :
             /\ CanAct(i) /\ i <= opened /\ call[i] = NoCall
             /\ call' = [call EXCEPT ![i] = Post(op, "sent", None, before)]
             /\ UNCHANGED <<rows, newest, due, said, opened, open, get, session, faults, lost, stale>>
             /\ op = "answer" => before = Last(i)
             /\ op = "confirm" => session[i] # None /\ before = session[i].draft
             /\ \E w \in {0, awaiting[i]} : awaiting' = [awaiting EXCEPT ![i] = w]
    BY Asks
  <1>2. /\ call'[i].op = op /\ call'[i].phase = "sent" /\ call'[i].before = before
        /\ \A k \in Dialogs \ {i} : call'[k] = call[k] /\ awaiting'[k] = awaiting[k]
    BY <1>1 DEF Base, Calls, Displays, Post
  <1>3. \A k \in Dialogs \ {j} : call'[k].phase # "dispatched"
    BY <1>2 DEF UpToDate, Undisturbed
  <1>4. CASE j # i
    <2>1. SameCopies /\ call'[j] = call[j] /\ awaiting'[j] = awaiting[j]
      BY <1>1, <1>2, <1>4 DEF SameCopies
    <2> QED BY <1>1, <1>3, <2>1, Bystander
  <1>5. CASE j = i
    <2>1. due = 0 /\ session[i] # None /\ IsLatest(session[i])
      BY <1>1, <1>5, ShownIfAble
    <2>2. Settled(i)'
      BY <1>1, <2>1 DEF Settled, IsLatest, Copy
    <2>3. Asked(call[i])'
      BY <1>1, <1>2, <2>1 DEF Asked, IsLatest, Newest, Last, Copy
    <2>4. call'[i] # NoCall
      BY <1>2, CallRecords
    <2>5. due' <= 1
      BY <1>1, <2>1
    <2> QED BY <1>2, <1>3, <1>5, <2>2, <2>3, <2>4, <2>5
            DEF UpToDate, Undisturbed, Stage, Idle, Sent, Failed, Dispatched, Ok
  <1> QED BY <1>4, <1>5

LEMMA OpenUpToDate ==
    ASSUME Base, NEW j \in Dialogs, Open, j <= opened', j \notin stale',
           j <= opened /\ j \notin stale => UpToDate(j)
    PROVE  UpToDate(j)'
  <1>1. /\ opened' = opened + 1 /\ opened' \in Dialogs /\ opened \in Nat
        /\ open' = open \cup {opened'}
        /\ UNCHANGED <<rows, newest, due, said, get, session, awaiting, faults, lost>>
        /\ opened' \notin stale' => due = 0 /\ Dispatching = {}
        /\ \A k \in Dialogs : k # opened' => (k \in stale' <=> k \in stale)
    BY OpenFacts
  <1>2. call'[opened'] = Start /\ \A k \in Dialogs \ {opened'} : call'[k] = call[k]
    BY <1>1, OpenFacts DEF Base, Calls
  <1>3. CASE j # opened'
    <2>1. UpToDate(j) /\ SameCopies
      BY <1>1, <1>3 DEF SameCopies, Dialogs
    <2>2. \A k \in Dialogs \ {j} : call'[k].phase # "dispatched"
      BY <1>2, <2>1, CallRecords DEF UpToDate, Undisturbed
    <2> QED BY <1>1, <1>2, <1>3, <2>1, <2>2, Bystander
  <1>4. CASE j = opened'
    <2>1. due' = 0 /\ \A k \in Dialogs : call[k].phase # "dispatched"
      BY <1>1, <1>4 DEF Dispatching
    <2>2. Undisturbed(j)'
      BY <1>2, <1>4, <2>1 DEF Undisturbed
    <2>3. j \notin open
      BY <1>1, <1>4 DEF Base, Displays
    <2>4. Settled(j)'
      BY <1>1, <2>1, <2>3 DEF Settled, Base, Displays
    <2>5. /\ call'[j] # NoCall /\ call'[j].phase = "sent" /\ call'[j].op = "start"
      BY <1>2, <1>4, CallRecords
    <2> QED BY <2>1, <2>2, <2>4, <2>5
            DEF UpToDate, Stage, Idle, Sent, Asked, Failed, Dispatched, Ok
  <1> QED BY <1>3, <1>4

LEMMA LeaveUpToDate ==
    ASSUME Base, NEW i \in Dialogs, NEW j \in Dialogs, Leave(i), UpToDate(j)
    PROVE  UpToDate(j)'
  <1>1. /\ i \in open /\ Gone(i)
        /\ UNCHANGED <<rows, newest, due, said, opened, faults, lost, stale>>
        /\ \A k \in Dialogs \ {i} : call'[k] = call[k]
        /\ \/ call' = call /\ call[i].phase \in {"sent", "dispatched"}
           \/ call' = [call EXCEPT ![i] = NoCall]
    BY LeaveFacts
  <1>2. /\ session'[i] = None /\ \A p \in Polls : get'[i][p] = None
        /\ i \notin open'
        /\ \A k \in Dialogs \ {i} : /\ session'[k] = session[k] /\ get'[k] = get[k]
                                    /\ awaiting'[k] = awaiting[k] /\ (k \in open' <=> k \in open)
    BY <1>1 DEF Gone, Base, Displays
  <1>3. call'[i] = call[i] \/ call'[i] = NoCall
    BY <1>1 DEF Base, Calls
  <1>4. \A k \in Dialogs \ {j} : call'[k].phase # "dispatched"
    BY <1>1, <1>3, CallRecords DEF UpToDate, Undisturbed
  <1>5. due' \in Nat /\ due' <= 1
    BY <1>1, DueNat DEF UpToDate
  <1>6. CASE j # i
    <2>1. SameCopies
      BY <1>1 DEF SameCopies
    <2> QED BY <1>1, <1>2, <1>4, <1>6, <2>1, Bystander
  <1>7. CASE j = i
    <2>1. Idle(i)'
      BY <1>2 DEF Idle
    <2>2. CASE call'[i] = NoCall
      BY <1>4, <1>5, <1>7, <2>1, <2>2, UpToDateIfIdle
    <2>3. CASE call'[i] = call[i] /\ call[i].phase \in {"sent", "dispatched"}
      <3>1. call[i].phase = "sent" => Settled(i)' /\ Asked(call[i])'
        BY <1>1, <1>2, <1>7, <2>3 DEF UpToDate, Stage, Sent, Settled, Asked, Newest, Copy
      <3>2. Dispatched(call[i])'
        BY <1>1, <1>7, <2>3 DEF UpToDate, Stage, Dispatched, Blank, Copy
      <3> QED BY <1>4, <1>5, <1>7, <2>1, <2>3, <3>1, <3>2
              DEF UpToDate, Undisturbed, Stage, Sent, Failed, Ok
    <2> QED BY <1>1, <2>2, <2>3, CallRecords DEF Base, Calls
  <1> QED BY <1>6, <1>7

(* A dialog that shows another copy is up to date again, or has no cause   *)
(* to be out of date.                                                      *)
LEMMA HealedIfNoCause ==
    ASSUME Base, NEW i \in Dialogs, NEW copy \in Copies, NEW wait \in Nat, NEW cause,
           Show(i, copy, wait, cause), UNCHANGED <<rows, newest, due, opened>>, i <= opened,
           i \notin stale', \A k \in Dialogs \ {i} : call'[k] = call[k],
           call'[i].op = "none" => call'[i] = NoCall
    PROVE  UpToDate(i)' \/ (i \notin stale /\ ~cause)
  <1>1. CASE IsLatest(copy) /\ due = 0 /\ Dispatching = {} /\ call'[i].op = "none"
    <2>1. \A k \in Dialogs \ {i} : call'[k].phase # "dispatched"
      BY <1>1 DEF Dispatching
    <2>2. Idle(i)'
      BY <1>1, Shows, IdleIfShown
    <2> QED BY <1>1, <2>1, <2>2, UpToDateIfIdle
  <1>2. CASE i \notin stale /\ ~cause
    BY <1>2
  <1> QED BY <1>1, <1>2, Shows

LEMMA PollUpToDate ==
    ASSUME Base, NEW i \in Dialogs, NEW p \in Polls, NEW j \in Dialogs, Poll(i, p), UpToDate(j)
    PROVE  UpToDate(j)'
  <1>1. /\ UNCHANGED <<rows, newest, due, said, call, opened, open, session, awaiting, lost, stale>>
        /\ get' = [get EXCEPT ![i][p] = Copy(newest)] /\ newest \in DOMAIN rows
    BY PollFacts
  <1>2. newest # 0
    BY <1>1, FewRows
  <1>3. \A k \in Dialogs \ {i} : get'[k] = get[k]
    BY <1>1 DEF Base, Displays
  <1>4. \A q \in Polls : get'[i][q] = get[i][q] \/ get'[i][q] = Copy(newest)
    BY <1>1 DEF Base, Displays
  <1>5. CASE j # i
    <2>1. SameCopies /\ get'[j] = get[j] /\ \A k \in Dialogs \ {j} : call'[k].phase # "dispatched"
      BY <1>1, <1>3, <1>5 DEF SameCopies, UpToDate, Undisturbed
    <2> QED BY <1>1, <2>1, Bystander
  <1>6. CASE j = i
    <2>1. Settled(i) => Settled(i)'
      BY <1>1, <1>2, <1>4 DEF Settled, IsLatest, Copy
    <2>2. Idle(i)'
      BY <1>1, <1>6, <2>1 DEF UpToDate, Stage, Idle, Waits, IsLatest, Newest, Copy, Blank
    <2>3. Sent(i)' /\ Failed(i)'
      BY <1>1, <1>6, <2>1 DEF UpToDate, Stage, Sent, Failed, Asked, Newest, Copy
    <2>4. Dispatched(call[i])' /\ Ok(call[i])'
      BY <1>1, <1>6 DEF UpToDate, Stage, Dispatched, Ok, IsLatest, Newest, Copy, Blank
    <2> QED BY <1>1, <1>6, <2>2, <2>3, <2>4 DEF UpToDate, Undisturbed, Stage
  <1> QED BY <1>5, <1>6

LEMMA PollArrivesUpToDate ==
    ASSUME Base, NEW i \in Dialogs, NEW p \in Polls, PollArrives(i, p), i \notin stale',
           i \notin stale => UpToDate(i)
    PROVE  UpToDate(i)'
  <1>1. PICK copy \in Copies : copy = get[i][p]
    BY PollArrivesFacts
  <1>2. /\ i \in open /\ i <= opened
        /\ UNCHANGED <<rows, newest, due, said, call, opened, open, faults, lost>>
        /\ get' = [get EXCEPT ![i][p] = None]
        /\ Show(i, copy, awaiting[i], session[i] \notin {None, copy} /\ ~IsLatest(copy))
    BY <1>1, PollArrivesFacts
  <1>3. awaiting[i] \in Nat /\ (call'[i].op = "none" => call'[i] = NoCall)
    BY <1>2, DialogTypes DEF Held
  <1>4. CASE i \notin stale /\ (session[i] \in {None, copy} \/ IsLatest(copy))
    <2>1. UpToDate(i)
      BY <1>4
    <2>2. session'[i] = copy /\ copy # None
      BY <1>2, <1>3, Shows, MarksAssumption
    <2>3. awaiting[i] = copy.last => awaiting'[i] = awaiting[i]
      BY <1>2, <1>3, Shows
    <2>4. session[i] = copy => awaiting'[i] = awaiting[i]
      <3>1. CASE awaiting[i] # 0
        BY <2>3, <3>1, DialogTypes
      <3>2. CASE awaiting[i] = 0
        BY <1>2, <1>3, <3>2, Shows
      <3> QED BY <3>1, <3>2
    <2>5. \A c \in Copies : IsLatest(c)' <=> IsLatest(c)
      BY <1>2 DEF IsLatest, Copy
    <2>6. newest # 0 => Newest' = Newest
      BY <1>2 DEF Newest, Copy
    <2>7. Settled(i) => Settled(i)' /\ IsLatest(copy)
      <3>1. Settled(i) => IsLatest(copy)
        BY <1>1, <1>4, <2>2 DEF Settled
      <3> QED BY <1>2, <2>2, <2>5, <3>1 DEF Settled
    <2>8. Idle(i)'
      <3> SUFFICES ASSUME call[i] = NoCall PROVE Idle(i)'
        BY <1>2 DEF Idle
      <3>1. CASE session[i] = None
        <4>1. Settled(i)
          BY <1>2, <2>1, <3>1 DEF UpToDate, Stage, Idle
        <4> QED BY <1>2, <2>2, <2>5, <2>7, <4>1 DEF Idle, Settled
      <3>2. CASE session[i] = copy
        <4>1. session'[i] = session[i] /\ awaiting'[i] = awaiting[i]
          BY <2>2, <2>4, <3>2
        <4> QED BY <1>2, <2>1, <2>2, <2>5, <2>6, <3>2, <4>1 DEF UpToDate, Stage, Idle, Waits
      <3>3. CASE IsLatest(copy)
        <4>1. newest # 0 /\ copy = Newest
          BY <3>3 DEF IsLatest, Newest
        <4>2. due > 0 => Blank(copy) \/ (awaiting[i] # 0 /\ awaiting[i] = copy.last)
          BY <1>2, <2>1, <4>1 DEF UpToDate, Stage, Idle
        <4>3. due > 0 => Waits(i)'
          BY <2>2, <2>3, <4>2 DEF Waits
        <4> QED BY <1>2, <2>2, <2>3, <2>5, <2>6, <3>3, <4>1, <4>2, <4>3, DueNat DEF Idle
      <3> QED BY <1>4, <3>1, <3>2, <3>3
    <2>9. Sent(i)' /\ Failed(i)'
      BY <1>2, <2>1, <2>6, <2>7 DEF UpToDate, Stage, Sent, Failed, Asked
    <2>10. Dispatched(call[i])' /\ Ok(call[i])'
      BY <1>2, <2>1 DEF UpToDate, Stage, Dispatched, Ok, IsLatest, Newest, Copy, Blank
    <2> QED BY <1>2, <2>1, <2>8, <2>9, <2>10 DEF UpToDate, Undisturbed, Stage
  <1>5. UpToDate(i)' \/ (i \notin stale /\ (session[i] \in {None, copy} \/ IsLatest(copy)))
    BY <1>2, <1>3, HealedIfNoCause
  <1> QED BY <1>4, <1>5

LEMMA ReturnsUpToDate ==
    ASSUME Base, NEW i \in Dialogs, Returns(i), i \notin stale', i \notin stale => UpToDate(i)
    PROVE  UpToDate(i)'
  <1>1. /\ i \in open /\ i <= opened /\ call' = [call EXCEPT ![i] = NoCall]
        /\ UNCHANGED <<rows, newest, due, said, opened, faults, lost>>
    BY ReturnsFacts
  <1>2. call'[i] = NoCall /\ \A k \in Dialogs \ {i} : call'[k] = call[k]
    BY <1>1 DEF Base, Calls
  <1>3. ASSUME UpToDate(i), Idle(i)' PROVE UpToDate(i)'
    <2>1. due' \in Nat /\ due' <= 1 /\ \A k \in Dialogs \ {i} : call'[k].phase # "dispatched"
      BY <1>1, <1>2, <1>3, DueNat DEF UpToDate, Undisturbed
    <2> QED BY <1>2, <1>3, <2>1, UpToDateIfIdle
  <1>4. ASSUME NEW copy \in Copies, IsLatest(copy)
        PROVE  IsLatest(copy)'
    BY <1>1, <1>4 DEF IsLatest, Copy
  <1>5. newest # 0 => Newest' = Newest
    BY <1>1 DEF Newest, Copy
  <1>6. CASE /\ UNCHANGED <<open, get>> /\ call[i].phase = "ok" /\ call[i].copy \in Copies
             /\ call[i].op = "start"
             /\ Show(i, call[i].copy, awaiting[i], call[i].copy.id # newest)
    <2>1. PICK copy \in Copies : copy = call[i].copy
      BY <1>6
    <2>2. UpToDate(i)' \/ (i \notin stale /\ copy.id = newest)
      <3>1. Show(i, copy, awaiting[i], copy.id # newest) /\ awaiting[i] \in Nat
        BY <1>6, <2>1, DialogTypes
      <3> QED BY <1>1, <1>2, <3>1, HealedIfNoCause
    <2>3. CASE i \notin stale /\ copy.id = newest
      <3>1. session'[i] = copy /\ copy # None
        BY <1>1, <1>6, <2>1, Shows, DialogTypes, MarksAssumption
      <3>2. /\ (due = 0 /\ IsLatest(copy)) \/ Blank(copy)
            /\ due > 0 => newest # 0 /\ Blank(Newest)
        BY <1>6, <2>1, <2>3 DEF UpToDate, Stage, Ok
      <3>3. Idle(i)'
        BY <1>1, <1>4, <1>5, <3>1, <3>2 DEF Idle, Waits
      <3> QED BY <1>3, <2>3, <3>3
    <2> QED BY <2>2, <2>3
  <1>7. CASE /\ UNCHANGED <<open, get>> /\ call[i].phase = "ok" /\ call[i].copy \in Copies
             /\ call[i].op = "answer"
             /\ Show(i, call[i].copy, call[i].before, call[i].before = 0)
    <2>1. PICK copy \in Copies, before \in Nat : copy = call[i].copy /\ before = call[i].before
      BY <1>7, DialogTypes DEF Posts, Told
    <2>2. Show(i, copy, before, before = 0)
      BY <1>7, <2>1
    <2>3. UpToDate(i)' \/ (i \notin stale /\ before # 0)
      BY <1>1, <1>2, <2>2, HealedIfNoCause
    <2>4. CASE i \notin stale /\ before # 0
      <3>1. /\ copy.last = before
            /\ due > 0 => newest # 0 /\ Newest.last = before
        BY <1>7, <2>1, <2>4 DEF UpToDate, Stage, Ok
      <3>2. session'[i] = copy /\ copy # None /\ awaiting'[i] = before
        BY <1>1, <2>2, <3>1, Shows, MarksAssumption
      <3>3. Idle(i)'
        BY <1>1, <1>5, <2>4, <3>1, <3>2 DEF Idle, Waits
      <3> QED BY <1>3, <2>4, <3>3
    <2> QED BY <2>3, <2>4
  <1>8. CASE Gone(i) /\ UNCHANGED stale
    <2>1. Idle(i)'
      BY <1>8 DEF Idle, Gone
    <2> QED BY <1>3, <1>8, <2>1
  <1>9. CASE call[i].phase = "failed" /\ UNCHANGED <<open, get, session, awaiting, stale>>
    <2>1. Settled(i)
      BY <1>9 DEF UpToDate, Stage, Failed
    <2>2. SameCopies
      BY <1>1 DEF SameCopies
    <2>3. Settled(i)'
      BY <1>1, <1>9, <2>1, <2>2, SettledKept
    <2>4. Idle(i)'
      BY <1>1, <2>1, <2>3 DEF Idle, Settled, Waits
    <2> QED BY <1>3, <1>9, <2>4
  <1> QED BY <1>6, <1>7, <1>8, <1>9, ReturnsFacts

(* A step of one dialog leaves the others as they are. *)
LEMMA OthersUpToDate ==
    ASSUME Base, NEW i \in Dialogs, NEW j \in Dialogs, j # i, UpToDate(j),
           UNCHANGED <<rows, newest, due>>, call'[i].phase # "dispatched",
           \A k \in Dialogs \ {i} :
               /\ call'[k] = call[k] /\ session'[k] = session[k] /\ get'[k] = get[k]
               /\ awaiting'[k] = awaiting[k] /\ (k \in open' <=> k \in open)
    PROVE  UpToDate(j)'
  <1>1. SameCopies
    BY DEF SameCopies
  <1>2. \A k \in Dialogs \ {j} : call'[k].phase # "dispatched"
    BY DEF UpToDate, Undisturbed
  <1> QED BY <1>1, <1>2, Bystander

LEMMA ReturnsOthers ==
    ASSUME Base, NEW i \in Dialogs, Returns(i)
    PROVE  \A j \in Dialogs \ {i} :
               /\ call'[j] = call[j] /\ session'[j] = session[j] /\ get'[j] = get[j]
               /\ awaiting'[j] = awaiting[j] /\ (j \in open' <=> j \in open)
               /\ (j \in stale' <=> j \in stale)
  <1>1. /\ i <= opened /\ call' = [call EXCEPT ![i] = NoCall] /\ opened' = opened
        /\ \A j \in Dialogs \ {i} : call'[j] = call[j]
    BY ReturnsFacts DEF Base, Calls
  <1>2. CASE \E copy \in Copies, wait \in Nat, cause \in BOOLEAN :
                 Show(i, copy, wait, cause) /\ UNCHANGED <<open, get>>
    <2>1. PICK copy \in Copies, wait \in Nat, cause \in BOOLEAN :
                 Show(i, copy, wait, cause) /\ UNCHANGED <<open, get>>
      BY <1>2
    <2> QED BY <1>1, <2>1, Shows
  <1>3. CASE Gone(i) /\ UNCHANGED stale
    BY <1>1, <1>3 DEF Gone, Base, Displays
  <1>4. CASE UNCHANGED <<open, get, session, awaiting, stale>>
    BY <1>1, <1>4
  <1>5. awaiting[i] \in Nat /\ call[i].before \in Nat
    BY DialogTypes DEF Posts, Told
  <1>6. (call[i].copy.id # newest) \in BOOLEAN /\ (call[i].before = 0) \in BOOLEAN
    OBVIOUS
  <1> QED BY <1>2, <1>3, <1>4, <1>5, <1>6, ReturnsFacts

LEMMA StepUpToDate ==
    ASSUME Base, NEW j \in Dialogs, Next, j <= opened', j \notin stale',
           j <= opened /\ j \notin stale => UpToDate(j)
    PROVE  UpToDate(j)'
  <1>1. CASE Open
    BY <1>1, OpenUpToDate
  <1>2. CASE AgentReplies
    <2>1. UpToDate(j)
      BY <1>2, AgentRows
    <2> QED BY <1>2, <2>1, AgentUpToDate
  <1>3. ASSUME NEW i \in Dialogs, ResumeStart(i) \/ FirstStart(i) \/ SendAnswer(i)
        PROVE  UpToDate(j)'
    <2>1. PICK phase \in {"dispatched", "ok", "failed"}, copy \in Copies \cup {None} :
              Send(i, phase, copy)
      BY <1>3, Sends
    <2>2. opened' = opened
      BY <2>1 DEF Send
    <2>3. j <= opened /\ (j \notin stale => UpToDate(j))
      BY <2>2
    <2> QED BY <1>3, <2>3, SendUpToDate
  <1>4. ASSUME NEW i \in Dialogs, FinishStart(i)
        PROVE  UpToDate(j)'
    <2>1. UpToDate(j) /\ call[i].phase = "dispatched"
      BY <1>4, FinishStartRows
    <2>2. j = i
      BY <2>1, OnlyOwn
    <2> QED BY <1>4, <2>1, <2>2, FinishStartUpToDate
  <1>5. ASSUME NEW i \in Dialogs, FinishAnswer(i)
        PROVE  UpToDate(j)'
    <2>1. UpToDate(j) /\ call[i].phase = "dispatched"
      BY <1>5, FinishAnswerRows
    <2>2. j = i
      BY <2>1, OnlyOwn
    <2> QED BY <1>5, <2>1, <2>2, FinishAnswerUpToDate
  <1>6. ASSUME NEW i \in Dialogs, Confirm(i)
        PROVE  UpToDate(j)'
    <2>1. UpToDate(j)
      BY <1>6, Confirms
    <2> QED BY <1>6, <2>1, ConfirmUpToDate
  <1>7. ASSUME NEW i \in Dialogs, NEW p \in Polls, Poll(i, p)
        PROVE  UpToDate(j)'
    <2>1. UpToDate(j)
      BY <1>7, PollFacts
    <2> QED BY <1>7, <2>1, PollUpToDate
  <1>8. ASSUME NEW i \in Dialogs, NEW p \in Polls, PollArrives(i, p)
        PROVE  UpToDate(j)'
    <2>1. PICK copy \in Copies, cause \in BOOLEAN : Show(i, copy, awaiting[i], cause)
      <3>1. (session[i] \notin {None, get[i][p]} /\ ~IsLatest(get[i][p])) \in BOOLEAN
        OBVIOUS
      <3> QED BY <1>8, <3>1, PollArrivesFacts
    <2>2. /\ UNCHANGED <<rows, newest, due, call, opened, open>> /\ i <= opened
          /\ get' = [get EXCEPT ![i][p] = None]
      BY <1>8, PollArrivesFacts
    <2>3. \A k \in Dialogs \ {i} :
              /\ session'[k] = session[k] /\ awaiting'[k] = awaiting[k] /\ get'[k] = get[k]
              /\ (k \in stale' <=> k \in stale)
      BY <2>1, <2>2, Shows, DialogTypes DEF Base, Displays
    <2>4. CASE j = i
      BY <1>8, <2>2, <2>4, PollArrivesUpToDate
    <2>5. CASE j # i
      <3>1. UpToDate(j)
        BY <2>2, <2>3, <2>5
      <3>2. call'[i].phase # "dispatched"
        BY <2>2, <2>5, <3>1 DEF UpToDate, Undisturbed
      <3> QED BY <2>2, <2>3, <2>5, <3>1, <3>2, OthersUpToDate
    <2> QED BY <2>4, <2>5
  <1>9. ASSUME NEW i \in Dialogs, HandleAnswer(i) \/ ConfirmGoal(i)
        PROVE  UpToDate(j)'
    <2>1. UNCHANGED <<opened, stale>>
      BY <1>9 DEF HandleAnswer, ConfirmGoal, Ask
    <2> QED BY <1>9, <2>1, AskUpToDate
  <1>10. ASSUME NEW i \in Dialogs, Leave(i)
         PROVE  UpToDate(j)'
    <2>1. UpToDate(j)
      BY <1>10, LeaveFacts
    <2> QED BY <1>10, <2>1, LeaveUpToDate
  <1>11. ASSUME NEW i \in Dialogs, Returns(i)
         PROVE  UpToDate(j)'
    <2>1. UNCHANGED <<rows, newest, due, opened>> /\ call' = [call EXCEPT ![i] = NoCall]
      BY <1>11, ReturnsFacts
    <2>2. CASE j = i
      BY <1>11, <2>1, <2>2, ReturnsUpToDate
    <2>3. CASE j # i
      <3>1. UpToDate(j)
        BY <1>11, <2>1, <2>3, ReturnsOthers
      <3>2. call'[i].phase # "dispatched"
        BY <2>1, CallRecords DEF Base, Calls
      <3> QED BY <1>11, <2>1, <2>3, <3>1, <3>2, ReturnsOthers, OthersUpToDate
    <2> QED BY <2>2, <2>3
  <1> QED BY <1>1, <1>2, <1>3, <1>4, <1>5, <1>6, <1>7, <1>8, <1>9, <1>10, <1>11
          DEF Next, ServerStep, PollStep

LEMMA IInvInit == Init => IInv
  <1> SUFFICES ASSUME Init PROVE IInv
    OBVIOUS
  <1>1. ~ \E i \in Dialogs : i <= opened
    BY DEF Init, Dialogs
  <1> QED BY <1>1, BaseInit DEF IInv

LEMMA IInvNext == IInv /\ [Next]_onboarding => IInv'
  <1> SUFFICES ASSUME IInv, [Next]_onboarding PROVE IInv'
    OBVIOUS
  <1>1. Base /\ Base'
    BY BaseNext DEF IInv
  <1>2. CASE Next
    <2>1. ASSUME NEW j \in Dialogs, j <= opened', j \notin stale'
          PROVE  UpToDate(j)'
      BY <1>1, <1>2, <2>1, StepUpToDate DEF IInv
    <2> QED BY <1>1, <2>1 DEF IInv
  <1>3. CASE UNCHANGED onboarding
    <2>1. UNCHANGED <<rows, newest, due, call, opened, open, get, session, awaiting, stale>>
      BY <1>3 DEF onboarding, server, dialogs, history
    <2>2. SameCopies
      BY <2>1 DEF SameCopies
    <2>3. ASSUME NEW j \in Dialogs, j <= opened', j \notin stale'
          PROVE  UpToDate(j)'
      <3>1. UpToDate(j)
        BY <2>1, <2>3 DEF IInv
      <3>2. \A k \in Dialogs \ {j} : call'[k].phase # "dispatched"
        BY <2>1, <3>1 DEF UpToDate, Undisturbed
      <3> QED BY <1>1, <2>1, <2>2, <3>1, <3>2, Bystander
    <2> QED BY <1>1, <2>3 DEF IInv
  <1> QED BY <1>2, <1>3

LEMMA Holds == Spec => []IInv
  BY IInvInit, IInvNext, PTL DEF Spec

(* A dialog that lets the user act shows the latest, and nothing is under  *)
(* way at the agent, unless one of the causes named put it out of date     *)
(* (BoardOnboardingChat.tsx:250, board_onboarding.py:299).                 *)
THEOREM StaleOnlyIfExplained == Spec => []StaleIsExplained
  <1>1. IInv => StaleIsExplained
    <2> SUFFICES ASSUME IInv, NEW i \in Dialogs, CanAct(i), i \notin stale
                 PROVE  due = 0 /\ IsLatest(session[i])
      BY DEF StaleIsExplained
    <2>1. Base /\ UpToDate(i)
      BY DialogTypes DEF IInv, CanAct
    <2> QED BY <2>1, ShownIfAble
  <1> QED BY <1>1, Holds, PTL

(* The answer, or the confirmation, that the server is about to take is    *)
(* for the question, or of the draft, that its user saw, unless the dialog *)
(* was put out of date (board_onboarding.py:327, 433).                     *)
THEOREM ActsOnShown == Spec => []ActsOnWhatIsShown
  <1>1. IInv => ActsOnWhatIsShown
    <2> SUFFICES ASSUME IInv, NEW i \in Dialogs, i \notin stale, call[i].phase = "sent"
                 PROVE  /\ call[i].op = "answer" => newest # 0 /\ rows[newest].last = call[i].before
                        /\ call[i].op = "confirm" => newest # 0 /\ rows[newest].draft = call[i].before
      BY DEF ActsOnWhatIsShown, Phase
    <2>1. i <= opened
      <3>1. opened \in Nat /\ (i > opened => call[i] = NoCall)
        BY DialogTypes DEF IInv, Base, Calls
      <3> QED BY <3>1, CallRecords DEF Dialogs
    <2>2. Asked(call[i])
      BY <2>1 DEF IInv, UpToDate, Stage, Sent
    <2> QED BY <2>2 DEF Asked, Newest, Copy, CopyOf
  <1> QED BY <1>1, Holds, PTL
=============================================================================
