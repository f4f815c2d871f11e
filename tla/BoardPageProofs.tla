--------------------------- MODULE BoardPageProofs ---------------------------
(***************************************************************************)
(* Proofs about BoardPage, for any number of tasks, requests and broken    *)
(* connections: type correctness, that a task is shown otherwise than it is *)
(* stored only while a correction is on its way or for a reason recorded in *)
(* blamed, and that only a task created on the page is shown twice. The    *)
(* argument names for each task what is on its way, and hands it over from *)
(* the server's log to the stream, to the wire and to the page.            *)
(***************************************************************************)
EXTENDS BoardPage, FiniteSetTheorems, SequenceTheorems, TLAPS

(* A request has named the task, so its id is taken for good. *)
Touched(reqs, t) == \E w \in Requests : reqs[w].id = t /\ reqs[w].phase # "unsent"

Due == {"written", "stamped"}

(* The stamps of the events still to be committed are new to everybody.    *)
Stamps ==
    /\ \A w \in Requests : req[w].phase \in Due =>
        /\ req[w].ver > 0 /\ req[w].ver + 1 <= clock /\ req[w].ver + 1 \notin seen
        /\ \A e \in events : e.at # req[w].ver + 1
        /\ \A v \in Requests \ {w} : req[v].phase \in Due => req[v].ver # req[w].ver
    /\ IsFiniteSet(events) /\ \A e \in events : e.at <= clock
    /\ \A n \in seen : n <= clock

Announced(t) == \E e \in events : e.id = t

(* Events and payloads are about tasks that were there when they were      *)
(* written, and a task stays announced until it is deleted.                *)
Traces ==
    /\ \A e \in events : row[e.id] # NoRow /\ Touched(req, e.id)
    /\ \A i \in DOMAIN wire :
        /\ wire[i].ver # NoRow /\ Touched(req, wire[i].id)
        /\ row[wire[i].id] # NoRow => Announced(wire[i].id)
    /\ link # "up" => wire = <<>>

(* What the page knows of its requests is what the server was asked.       *)
Matches(w) ==
    /\ In(w, "sent") => w \in Mine
    /\ In(w, "written") \/ In(w, "stamped") => req[w].op # "delete"
    /\ w \in Mine /\ In(w, "unsent") => asked[w] = "none"
    /\ w \in Mine /\ ~In(w, "unsent") =>
        /\ asked[w] = "delete" <=> req[w].op = "delete"
        /\ asked[w] = "create" <=> req[w].op = "create"
    /\ w \in Mine /\ asked[w] = "delete" /\ In(w, "logged") => row[req[w].id] = NoRow

(* Nothing was ever written about a task that is still to be created.      *)
Unborn(w) == In(w, "sent") /\ req[w].op = "create" =>
    /\ row[req[w].id] = NoRow
    /\ \A v \in Requests \ {w} : req[v].id = req[w].id =>
           \/ req[v].phase \in {"unsent", "refused", "over"}
           \/ req[v].phase = "sent" /\ req[v].op # "create"
    /\ \A i \in DOMAIN wire : wire[i].id # req[w].id

Tracked == \A w \in Requests : Matches(w) /\ Unborn(w)

-----------------------------------------------------------------------------
ToLog(t) == row[t] # NoRow /\ \E w \in Requests : req[w].id = t /\ In(w, "written")
ToSend(t) == \E e \in IF link = "up" THEN Unsent ELSE events : e.id = t
ToReceive(t) == \E i \in DOMAIN wire : wire[i] = [id |-> t, ver |-> row[t]]
ToRollBack(t) == \E w \in Mine :
    /\ req[w].id = t /\ asked[w] = "move" /\ req[w].phase \in {"sent", "refused"}
    /\ Faithful(row, previous[w], t)
ToRemove(t) == \E w \in Mine : req[w].id = t /\ In(w, "logged") /\ asked[w] = "delete"

Explained(t) ==
    \/ Faithful(row, cards, t) \/ t \in blamed \/ Doubled(t) \/ link = "loading"
    \/ ToLog(t) \/ ToSend(t) \/ ToReceive(t) \/ ToRollBack(t) \/ ToRemove(t)

(* An older payload is followed by a newer one.                            *)
Overtaken(i) == LET t == wire[i].id IN
    row[t] # NoRow /\ wire[i].ver # row[t] =>
        \/ t \in blamed \/ ToLog(t) \/ ToSend(t)
        \/ \E j \in DOMAIN wire : j > i /\ wire[j] = [id |-> t, ver |-> row[t]]

Reasons == (\A t \in Tasks : Explained(t)) /\ (\A i \in DOMAIN wire : Overtaken(i))

-----------------------------------------------------------------------------
DoubledIn(list, t) == \E i, j \in DOMAIN list : i # j /\ list[i].id = t /\ list[j].id = t
CreatedHere(t) == \E w \in Mine : asked[w] = "create" /\ req[w].id = t

Doubles ==
    /\ \A t \in Tasks : DoubledIn(cards, t) => CreatedHere(t)
    /\ \A w \in Mine, t \in Tasks : DoubledIn(previous[w], t) => CreatedHere(t)

IInv == TypeOK /\ Stamps /\ Traces /\ Tracked /\ Reasons /\ Doubles

-----------------------------------------------------------------------------
(* Lists *)

(* A list of a finite set without repetition lists all of it.              *)
LEMMA Listed ==
    ASSUME NEW S, IsFiniteSet(S), NEW f \in [1..Cardinality(S) -> S],
           \A i, j \in 1..Cardinality(S) : i # j => f[i] # f[j]
    PROVE  \A x \in S : \E i \in 1..Cardinality(S) : f[i] = x
  <1>1. Cardinality(S) \in Nat
    BY FS_CardinalityType
  <1>2. IsFiniteSet(1..Cardinality(S)) /\ Cardinality(1..Cardinality(S)) = Cardinality(S)
    BY <1>1, FS_Interval
  <1>3. f \in Injection(1..Cardinality(S), S)
    BY DEF Injection, IsInjective
  <1>4. f \in Surjection(1..Cardinality(S), S)
    BY <1>2, <1>3, FS_Injection
  <1> QED BY <1>4 DEF Surjection

LEMMA AnyOrder ==
    ASSUME NEW S, IsFiniteSet(S)
    PROVE  /\ SetToSeq(S) \in [1..Cardinality(S) -> S]
           /\ \A i, j \in 1..Cardinality(S) : i # j => SetToSeq(S)[i] # SetToSeq(S)[j]
           /\ \A x \in S : \E i \in 1..Cardinality(S) : SetToSeq(S)[i] = x
  <1>1. \E f \in [1..Cardinality(S) -> S] : IsInjective(f)
    BY FS_CardinalityType DEF ExistsBijection, Bijection, Injection
  <1>2. SetToSeq(S) \in [1..Cardinality(S) -> S] /\ IsInjective(SetToSeq(S))
    BY <1>1 DEF SetToSeq
  <1>3. \A i, j \in 1..Cardinality(S) : i # j => SetToSeq(S)[i] # SetToSeq(S)[j]
    BY <1>2 DEF IsInjective
  <1> QED BY <1>2, <1>3, Listed

(* What LoadBoard lists.                                                   *)
Snapshot == SetToSeq({Card(t, row[t]) : t \in {u \in Tasks : row[u] # NoRow}})

LEMMA SnapshotShows ==
    ASSUME TypeOK
    PROVE  /\ Snapshot \in Seq(Cards)
           /\ \A t \in Tasks : Faithful(row, Snapshot, t) /\ ~DoubledIn(Snapshot, t)
  <1> DEFINE live == {u \in Tasks : row[u] # NoRow}
             shown == {Card(t, row[t]) : t \in live}
  <1>1. IsFiniteSet(live)
    BY BoardPageAssumption, FS_Subset
  <1>2. IsFiniteSet(shown)
    <2> DEFINE f == [t \in live |-> Card(t, row[t])]
    <2>1. f \in Surjection(live, shown)
      BY DEF Surjection
    <2> QED BY <1>1, <2>1, FS_Surjection
  <1>3. PICK n \in Nat : n = Cardinality(shown)
    BY <1>2, FS_CardinalityType
  <1>4. /\ Snapshot \in [1..n -> shown]
        /\ \A i, j \in 1..n : i # j => Snapshot[i] # Snapshot[j]
        /\ \A x \in shown : \E i \in 1..n : Snapshot[i] = x
    BY <1>2, <1>3, AnyOrder DEF Snapshot
  <1>5. shown \subseteq Cards
    <2>1. \A t \in live : Card(t, row[t]) \in Cards
      BY DEF TypeOK, FeedTypeOK, Card, Cards
    <2> QED BY <2>1
  <1>6. Snapshot \in Seq(Cards) /\ DOMAIN Snapshot = 1..n
    BY <1>4, <1>5
  <1>7. \A i \in 1..n : Snapshot[i].id \in live /\ Snapshot[i] = Card(Snapshot[i].id, row[Snapshot[i].id])
    BY <1>4 DEF Card
  <1>8. ASSUME NEW t \in Tasks PROVE Faithful(row, Snapshot, t) /\ ~DoubledIn(Snapshot, t)
    <2>1. row[t] # NoRow => \E i \in 1..n : Snapshot[i].id = t
      <3>1. row[t] # NoRow => Card(t, row[t]) \in shown
        OBVIOUS
      <3>2. Card(t, row[t]).id = t
        BY DEF Card
      <3> QED BY <1>4, <3>1, <3>2
    <2>2. row[t] = NoRow => \A i \in 1..n : Snapshot[i].id # t
      BY <1>7
    <2> QED BY <1>4, <1>6, <1>7, <2>1, <2>2 DEF Faithful, Holds, DoubledIn
  <1> QED BY <1>6, <1>8

(* A list that differs only in the cards of other tasks.                   *)
LEMMA SameCards ==
    ASSUME NEW rows, NEW t, NEW list, NEW new, DOMAIN new = DOMAIN list,
           \A i \in DOMAIN list : new[i].id = list[i].id,
           \A i \in DOMAIN list : list[i].id = t => new[i] = list[i]
    PROVE  /\ Faithful(rows, new, t) <=> Faithful(rows, list, t)
           /\ DoubledIn(new, t) <=> DoubledIn(list, t)
  BY DEF Faithful, Holds, DoubledIn

LEMMA SameIds ==
    ASSUME NEW t, NEW list, NEW new, DOMAIN new = DOMAIN list,
           \A i \in DOMAIN list : new[i].id = list[i].id
    PROVE  DoubledIn(new, t) <=> DoubledIn(list, t)
  BY DEF DoubledIn

(* A card is put in front. *)
LEMMA InFront ==
    ASSUME NEW rows, NEW list \in Seq(Cards), NEW card \in Cards
    PROVE  /\ <<card>> \o list \in Seq(Cards)
           /\ \A u \in Tasks : u # card.id =>
                /\ Faithful(rows, <<card>> \o list, u) <=> Faithful(rows, list, u)
                /\ DoubledIn(<<card>> \o list, u) <=> DoubledIn(list, u)
           /\ DoubledIn(list, card.id) => DoubledIn(<<card>> \o list, card.id)
           /\ ~Holds(list, card.id) => ~DoubledIn(<<card>> \o list, card.id)
           /\ ~Holds(list, card.id) /\ rows[card.id] # NoRow /\ card = Card(card.id, rows[card.id])
                => Faithful(rows, <<card>> \o list, card.id)
  <1>1. PICK n \in Nat : n = Len(list) /\ DOMAIN list = 1..n
    OBVIOUS
  <1>2. PICK new : new = <<card>> \o list
    OBVIOUS
  <1>3. /\ new \in Seq(Cards) /\ DOMAIN new = 1..(n + 1)
        /\ new[1] = card /\ \A i \in 1..n : new[i + 1] = list[i]
    BY <1>1, <1>2
  <1>4. \A i \in 1..(n + 1) : i = 1 \/ (i - 1 \in 1..n /\ new[i] = list[i - 1])
    BY <1>1, <1>3
  <1>5. ASSUME NEW u \in Tasks, u # card.id
        PROVE  /\ Faithful(rows, new, u) <=> Faithful(rows, list, u)
               /\ DoubledIn(new, u) <=> DoubledIn(list, u)
    <2>1. \A i \in 1..(n + 1) : new[i].id = u => i - 1 \in 1..n /\ new[i] = list[i - 1]
      BY <1>3, <1>4, <1>5
    <2>2. \A i \in 1..n : i + 1 \in 1..(n + 1) /\ new[i + 1] = list[i]
      BY <1>3
    <2>3. Holds(new, u) <=> Holds(list, u)
      <3>1. Holds(new, u) => Holds(list, u)
        BY <1>1, <1>3, <2>1 DEF Holds
      <3>2. Holds(list, u) => Holds(new, u)
        BY <1>1, <1>3, <2>2 DEF Holds
      <3> QED BY <3>1, <3>2
    <2>4. ASSUME NEW P PROVE (\A i \in 1..(n + 1) : new[i].id = u => new[i] = P)
                              <=> (\A i \in 1..n : list[i].id = u => list[i] = P)
      BY <2>1, <2>2
    <2>5. DoubledIn(list, u) => DoubledIn(new, u)
      BY <1>1, <1>3, <2>2 DEF DoubledIn
    <2>6. DoubledIn(new, u) => DoubledIn(list, u)
      <3>1. ASSUME NEW i \in 1..(n + 1), NEW j \in 1..(n + 1), i # j,
                   new[i].id = u, new[j].id = u
            PROVE  DoubledIn(list, u)
        <4>1. i - 1 \in 1..n /\ j - 1 \in 1..n /\ i - 1 # j - 1
              /\ list[i - 1].id = u /\ list[j - 1].id = u
          BY <2>1, <3>1
        <4> QED BY <1>1, <4>1 DEF DoubledIn
      <3> QED BY <1>3, <3>1 DEF DoubledIn
    <2> QED BY <1>1, <1>3, <2>3, <2>4, <2>5, <2>6 DEF Faithful
  <1>6. DoubledIn(list, card.id) => DoubledIn(new, card.id)
    <2>1. \A i \in 1..n : i + 1 \in 1..(n + 1) /\ new[i + 1] = list[i]
      BY <1>3
    <2> QED BY <1>1, <1>3, <2>1 DEF DoubledIn
  <1>7. ASSUME ~Holds(list, card.id)
        PROVE  \A i \in 1..(n + 1) : new[i].id = card.id => i = 1
    BY <1>1, <1>3, <1>4, <1>7 DEF Holds
  <1>8. ~Holds(list, card.id) => ~DoubledIn(new, card.id)
    BY <1>3, <1>7 DEF DoubledIn
  <1>9. ~Holds(list, card.id) /\ rows[card.id] # NoRow /\ card = Card(card.id, rows[card.id])
                => Faithful(rows, new, card.id)
    <2>1. 1 \in 1..(n + 1)
      OBVIOUS
    <2> QED BY <1>3, <1>7, <2>1 DEF Faithful, Holds
  <1> QED BY <1>2, <1>3, <1>5, <1>6, <1>8, <1>9

LEMMA MergedList ==
    ASSUME NEW rows, NEW list \in Seq(Cards), NEW p \in [id : Tasks, ver : Nat]
    PROVE  /\ Merged(list, p) \in Seq(Cards)
           /\ \A u \in Tasks : u # p.id =>
                Faithful(rows, Merged(list, p), u) <=> Faithful(rows, list, u)
           /\ \A u \in Tasks : DoubledIn(Merged(list, p), u) <=> DoubledIn(list, u)
           /\ ~DoubledIn(list, p.id) /\ rows[p.id] # NoRow /\ p.ver = rows[p.id]
                => Faithful(rows, Merged(list, p), p.id)
  <1>1. Card(p.id, p.ver) \in Cards /\ Card(p.id, p.ver).id = p.id
    BY DEF Card, Cards
  <1>2. CASE ~Holds(list, p.id)
    <2>1. Merged(list, p) = <<Card(p.id, p.ver)>> \o list
      BY <1>2 DEF Merged
    <2>2. ~DoubledIn(list, p.id)
      BY <1>2 DEF Holds, DoubledIn
    <2>3. PICK card \in Cards : card = Card(p.id, p.ver) /\ card.id = p.id
      BY <1>1
    <2>4. /\ <<card>> \o list \in Seq(Cards)
          /\ \A u \in Tasks : u # p.id =>
                /\ Faithful(rows, <<card>> \o list, u) <=> Faithful(rows, list, u)
                /\ DoubledIn(<<card>> \o list, u) <=> DoubledIn(list, u)
          /\ ~DoubledIn(<<card>> \o list, p.id)
          /\ rows[p.id] # NoRow /\ card = Card(p.id, rows[p.id])
                => Faithful(rows, <<card>> \o list, p.id)
      BY <1>2, <2>3, InFront
    <2>5. Merged(list, p) = <<card>> \o list
      BY <2>1, <2>3
    <2>6. \A u \in Tasks : DoubledIn(Merged(list, p), u) <=> DoubledIn(list, u)
      <3>1. TAKE u \in Tasks
      <3>2. CASE u = p.id
        BY <2>2, <2>4, <2>5, <3>2
      <3>3. CASE u # p.id
        BY <2>4, <2>5, <3>3
      <3> QED BY <3>2, <3>3
    <2> QED BY <2>3, <2>4, <2>5, <2>6
  <1>3. CASE Holds(list, p.id)
    <2>1. PICK new : new = [i \in DOMAIN list |->
                 IF i \in First(list, p.id) THEN Card(p.id, p.ver) ELSE list[i]]
      OBVIOUS
    <2>2. Merged(list, p) = new
      BY <1>3, <2>1 DEF Merged
    <2>3. /\ DOMAIN new = DOMAIN list
          /\ \A i \in DOMAIN list : new[i].id = list[i].id
          /\ \A i \in DOMAIN list : list[i].id # p.id => new[i] = list[i]
          /\ \A i \in First(list, p.id) : new[i] = Card(p.id, p.ver)
      BY <1>1, <2>1 DEF First
    <2>4. new \in Seq(Cards)
      BY <1>1, <2>1
    <2>5. ASSUME ~DoubledIn(list, p.id), rows[p.id] # NoRow, p.ver = rows[p.id]
          PROVE  Faithful(rows, new, p.id)
      <3>1. PICK i \in DOMAIN list : list[i].id = p.id
        BY <1>3 DEF Holds
      <3>2. DOMAIN list = 1..Len(list) /\ Len(list) \in Nat
        OBVIOUS
      <3>3. \A j \in DOMAIN list : list[j].id = p.id => j = i
        BY <2>5, <3>1 DEF DoubledIn
      <3>4. i \in First(list, p.id)
        BY <3>1, <3>2, <3>3 DEF First
      <3> QED BY <2>3, <2>5, <3>1, <3>3, <3>4 DEF Faithful, Holds
    <2> QED BY <2>2, <2>3, <2>4, <2>5, SameCards, SameIds
  <1> QED BY <1>2, <1>3

LEMMA MovedList ==
    ASSUME NEW rows, NEW list \in Seq(Cards), NEW t \in Tasks
    PROVE  /\ Moved(list, t) \in Seq(Cards)
           /\ \A u \in Tasks : u # t =>
                Faithful(rows, Moved(list, t), u) <=> Faithful(rows, list, u)
           /\ \A u \in Tasks : DoubledIn(Moved(list, t), u) <=> DoubledIn(list, u)
  <1>1. PICK new : new = Moved(list, t)
    OBVIOUS
  <1>2. /\ DOMAIN new = DOMAIN list
        /\ \A i \in DOMAIN list : new[i].id = list[i].id
        /\ \A i \in DOMAIN list : list[i].id # t => new[i] = list[i]
    BY <1>1 DEF Moved
  <1>3. \A i \in DOMAIN list :
            (IF list[i].id = t THEN [id |-> t, ver |-> list[i].ver, moved |-> TRUE] ELSE list[i])
                \in Cards
    <2>1. TAKE i \in DOMAIN list
    <2>2. list[i] \in Cards
      OBVIOUS
    <2> QED BY <2>2 DEF Cards
  <1>4. new \in Seq(Cards)
    BY <1>1, <1>3 DEF Moved
  <1> QED BY <1>1, <1>2, <1>4, SameCards, SameIds

LEMMA AnsweredList ==
    ASSUME NEW rows, NEW list \in Seq(Cards), NEW t \in Tasks, NEW ver \in Nat
    PROVE  /\ Answered(list, t, ver) \in Seq(Cards)
           /\ \A u \in Tasks : u # t =>
                Faithful(rows, Answered(list, t, ver), u) <=> Faithful(rows, list, u)
           /\ \A u \in Tasks : DoubledIn(Answered(list, t, ver), u) <=> DoubledIn(list, u)
  <1>1. PICK new : new = Answered(list, t, ver)
    OBVIOUS
  <1>2. Card(t, ver) \in Cards /\ Card(t, ver).id = t
    BY DEF Card, Cards
  <1>3. /\ DOMAIN new = DOMAIN list
        /\ \A i \in DOMAIN list : new[i].id = list[i].id
        /\ \A i \in DOMAIN list : list[i].id # t => new[i] = list[i]
    BY <1>1, <1>2 DEF Answered
  <1>4. new \in Seq(Cards)
    BY <1>1, <1>2 DEF Answered
  <1> QED BY <1>1, <1>3, <1>4, SameCards, SameIds

-----------------------------------------------------------------------------
(* The steps of the server, whoever asked for them: w writes the row of t, *)
(* deletes it, commits its event or refuses, or stamps and commits both.   *)
Frame == UNCHANGED <<stream, cards, link, asked, previous, drops>>

Entitled(w, op, t) ==
    \/ In(w, "sent") /\ op = req[w].op /\ t = req[w].id
    \/ w \in Others /\ In(w, "unsent") /\ (op = "create" => Unused(t))

Writes(w, op, t) ==
    /\ op \in {"update", "create"} /\ Entitled(w, op, t) /\ WriteRow(w, op, t)
    /\ Blame(row', cards, wire, {}) /\ Frame

Deletes(w, t) ==
    /\ Entitled(w, "delete", t) /\ DeleteRow(w, t)
    /\ Blame(row', cards, wire, IF w \in Others /\ In(w, "unsent") THEN {t} ELSE {}) /\ Frame

Logs(w) ==
    /\ LogEvent(w)
    /\ Blame(row', cards, wire, IF Late(w) THEN {req[w].id} ELSE {}) /\ Frame

Prepares(w, t) ==
    /\ w \in Others /\ In(w, "unsent") /\ StampBoth(w, t)
    /\ Blame(row', cards, wire, {}) /\ Frame

Commits(w) ==
    /\ CommitBoth(w)
    /\ Blame(row', cards, wire, IF Late(w) THEN {req[w].id} ELSE {}) /\ Frame

Refuses(w) == Refuse(w) /\ Blame(row', cards, wire, {}) /\ Frame

LEMMA ServerCases ==
    ASSUME TypeOK, NEW w \in Requests
    PROVE  /\ ServerStep(w) => \/ \E op \in Kinds, t \in Tasks : Writes(w, op, t)
                               \/ \E t \in Tasks : Deletes(w, t)
                               \/ Logs(w) \/ Refuses(w) \/ Commits(w)
           /\ \A op \in Kinds, t \in Tasks : w \in Others /\ OtherStep(w, op, t) =>
                  Writes(w, op, t) \/ Deletes(w, t) \/ Prepares(w, t)
  <1>1. req[w].op \in Kinds /\ req[w].id \in Tasks /\ req[w].phase \in Phases
    BY DEF TypeOK, FeedTypeOK, ReqRecords
  <1>2. ASSUME ServerStep(w)
        PROVE  \/ \E op \in Kinds, t \in Tasks : Writes(w, op, t)
               \/ \E t \in Tasks : Deletes(w, t)
               \/ Logs(w) \/ Refuses(w) \/ Commits(w)
    <2>1. Frame /\ Blame(row', cards, wire, IF Late(w) THEN {req[w].id} ELSE {})
      BY <1>2 DEF ServerStep, Frame
    <2>2. CASE In(w, "sent") /\ Execute(w, req[w].op, req[w].id)
      <3>1. ~Late(w) /\ ~In(w, "unsent")
        BY <2>2 DEF Late, In
      <3>2. Blame(row', cards, wire, {})
        BY <2>1, <3>1
      <3>3. Entitled(w, req[w].op, req[w].id)
        BY <2>2 DEF Entitled
      <3>4. CASE req[w].op = "delete"
        <4>1. Deletes(w, req[w].id)
          BY <2>1, <2>2, <3>1, <3>2, <3>3, <3>4 DEF Deletes, Execute
        <4> QED BY <1>1, <4>1
      <3>5. CASE req[w].op # "delete"
        <4>1. Writes(w, req[w].op, req[w].id)
          BY <1>1, <2>1, <2>2, <3>2, <3>3, <3>5 DEF Writes, Execute, Kinds
        <4> QED BY <1>1, <4>1
      <3> QED BY <3>4, <3>5
    <2>3. CASE LogEvent(w)
      BY <2>1, <2>3 DEF Logs
    <2>4. CASE Refuse(w)
      <3>1. ~Late(w)
        BY <2>4 DEF Late, In, Refuse
      <3> QED BY <2>1, <2>4, <3>1 DEF Refuses
    <2>5. CASE CommitBoth(w)
      BY <2>1, <2>5 DEF Commits
    <2> QED BY <1>2, <2>2, <2>3, <2>4, <2>5 DEF ServerStep, Serve
  <1>3. ASSUME NEW op \in Kinds, NEW t \in Tasks, w \in Others, OtherStep(w, op, t)
        PROVE  Writes(w, op, t) \/ Deletes(w, t) \/ Prepares(w, t)
    <2>1. Frame /\ In(w, "unsent") /\ Entitled(w, op, t)
          /\ Blame(row', cards, wire, IF op = "delete" THEN {t} ELSE {})
      BY <1>3 DEF OtherStep, ServeOther, Frame, Entitled
    <2>2. CASE op = "delete"
      BY <1>3, <2>1, <2>2 DEF OtherStep, ServeOther, Execute, Deletes
    <2>3. CASE op # "delete" /\ Execute(w, op, t)
      BY <1>3, <2>1, <2>3 DEF Execute, Writes, Kinds
    <2>4. CASE op = "update" /\ StampBoth(w, t)
      BY <1>3, <2>1, <2>4 DEF Prepares
    <2> QED BY <1>3, <2>2, <2>3, <2>4 DEF OtherStep, ServeOther
  <1> QED BY <1>2, <1>3

(* What each of them changes of the requests. *)
LEMMA WritesReq ==
    ASSUME TypeOK, NEW w \in Requests, NEW op, NEW t \in Tasks, Writes(w, op, t)
    PROVE  /\ req' \in [Requests -> ReqRecords] /\ row' \in [Tasks -> Nat] /\ clock' \in Nat
           /\ clock \in Nat /\ clock' = clock + 2 /\ events' = events
           /\ row'[t] = clock + 1 /\ \A u \in Tasks \ {t} : row'[u] = row[u]
           /\ req'[w] = [op |-> op, id |-> t, ver |-> clock + 1, phase |-> "written"]
           /\ \A v \in Requests \ {w} : req'[v] = req[v]
           /\ op = "update" => row[t] # NoRow
  BY DEF Writes, WriteRow, TypeOK, FeedTypeOK, ReqRecords, Kinds, Phases

LEMMA DeletesReq ==
    ASSUME TypeOK, NEW w \in Requests, NEW t \in Tasks, Deletes(w, t)
    PROVE  /\ req' \in [Requests -> ReqRecords] /\ row' \in [Tasks -> Nat] /\ clock' = clock
           /\ row[t] # NoRow /\ row'[t] = NoRow /\ \A u \in Tasks \ {t} : row'[u] = row[u]
           /\ events' = {e \in events : e.id # t}
           /\ req'[w] = [op |-> "delete", id |-> t, ver |-> NoRow, phase |-> "logged"]
           /\ \A v \in Requests \ {w} : req'[v] = req[v]
  BY DEF Deletes, DeleteRow, TypeOK, FeedTypeOK, ReqRecords, Kinds, Phases, NoRow

LEMMA GotoReq ==
    ASSUME TypeOK, NEW w \in Requests, NEW phase \in Phases, Goto(w, phase)
    PROVE  /\ req' \in [Requests -> ReqRecords]
           /\ req'[w] = [op |-> req[w].op, id |-> req[w].id, ver |-> req[w].ver, phase |-> phase]
           /\ \A v \in Requests \ {w} : req'[v] = req[v]
  <1>1. req \in [Requests -> ReqRecords] /\ req[w] \in ReqRecords
    BY DEF TypeOK, FeedTypeOK
  <1>2. req'[w] = [op |-> req[w].op, id |-> req[w].id, ver |-> req[w].ver, phase |-> phase]
    BY <1>1 DEF Goto, ReqRecords
  <1>3. req'[w] \in ReqRecords
    BY <1>1, <1>2 DEF ReqRecords
  <1> QED BY <1>1, <1>2, <1>3 DEF Goto

LEMMA LogsReq ==
    ASSUME TypeOK, NEW w \in Requests, Logs(w)
    PROVE  /\ req' \in [Requests -> ReqRecords] /\ row' = row /\ clock' = clock
           /\ In(w, "written") /\ req[w].id \in Tasks /\ req[w].ver \in Nat
           /\ \E phase \in {"logged", "refused"} :
                  req'[w] = [op |-> req[w].op, id |-> req[w].id, ver |-> req[w].ver, phase |-> phase]
           /\ \A v \in Requests \ {w} : req'[v] = req[v]
           /\ row[req[w].id] = NoRow => events' = events /\ req'[w].phase = "refused"
           /\ row[req[w].id] # NoRow =>
                  events' = events \cup {[id |-> req[w].id, at |-> req[w].ver + 1]}
                  /\ req'[w].phase = "logged"
  <1>1. req[w] \in ReqRecords
    BY DEF TypeOK, FeedTypeOK
  <1>2. row' = row /\ clock' = clock /\ In(w, "written")
    BY DEF Logs, LogEvent
  <1>3. CASE row[req[w].id] = NoRow
    <2>1. Goto(w, "refused") /\ events' = events
      BY <1>3 DEF Logs, LogEvent
    <2>2. /\ req' \in [Requests -> ReqRecords]
          /\ req'[w] = [op |-> req[w].op, id |-> req[w].id, ver |-> req[w].ver, phase |-> "refused"]
          /\ \A v \in Requests \ {w} : req'[v] = req[v]
      BY <2>1, GotoReq DEF Phases
    <2>3. req'[w].phase = "refused"
      BY <2>2
    <2>4. req[w].id \in Tasks /\ req[w].ver \in Nat
      BY <1>1 DEF ReqRecords
    <2> QED BY <1>2, <1>3, <2>1, <2>2, <2>3, <2>4
  <1>4. CASE row[req[w].id] # NoRow
    <2>1. Goto(w, "logged") /\ events' = events \cup {[id |-> req[w].id, at |-> req[w].ver + 1]}
      BY <1>4 DEF Logs, LogEvent
    <2>2. /\ req' \in [Requests -> ReqRecords]
          /\ req'[w] = [op |-> req[w].op, id |-> req[w].id, ver |-> req[w].ver, phase |-> "logged"]
          /\ \A v \in Requests \ {w} : req'[v] = req[v]
      BY <2>1, GotoReq DEF Phases
    <2>3. req'[w].phase = "logged"
      BY <2>2
    <2>4. req[w].id \in Tasks /\ req[w].ver \in Nat
      BY <1>1 DEF ReqRecords
    <2> QED BY <1>2, <1>4, <2>1, <2>2, <2>3, <2>4
  <1> QED BY <1>3, <1>4

LEMMA PreparesReq ==
    ASSUME TypeOK, NEW w \in Requests, NEW t \in Tasks, Prepares(w, t)
    PROVE  /\ req' \in [Requests -> ReqRecords] /\ row' = row /\ clock' \in Nat
           /\ clock \in Nat /\ clock' = clock + 2 /\ events' = events /\ row[t] # NoRow
           /\ req'[w] = [op |-> "update", id |-> t, ver |-> clock + 1, phase |-> "stamped"]
           /\ \A v \in Requests \ {w} : req'[v] = req[v]
  BY DEF Prepares, StampBoth, TypeOK, FeedTypeOK, ReqRecords, Kinds, Phases

LEMMA CommitsReq ==
    ASSUME TypeOK, NEW w \in Requests, Commits(w)
    PROVE  /\ req' \in [Requests -> ReqRecords] /\ clock' = clock
           /\ In(w, "stamped") /\ req[w].id \in Tasks /\ req[w].ver \in Nat
           /\ \E phase \in {"logged", "refused"} :
                  req'[w] = [op |-> req[w].op, id |-> req[w].id, ver |-> req[w].ver, phase |-> phase]
           /\ \A v \in Requests \ {w} : req'[v] = req[v]
           /\ row[req[w].id] = NoRow =>
                  row' = row /\ events' = events /\ req'[w].phase = "refused"
           /\ row[req[w].id] # NoRow =>
                  /\ row' = [row EXCEPT ![req[w].id] = req[w].ver]
                  /\ events' = events \cup {[id |-> req[w].id, at |-> req[w].ver + 1]}
                  /\ req'[w].phase = "logged"
  <1>1. req[w] \in ReqRecords
    BY DEF TypeOK, FeedTypeOK
  <1>2. clock' = clock /\ In(w, "stamped") /\ req[w].id \in Tasks /\ req[w].ver \in Nat
    BY <1>1 DEF Commits, CommitBoth, ReqRecords
  <1>3. ASSUME NEW phase \in {"logged", "refused"}, Goto(w, phase)
        PROVE  /\ req' \in [Requests -> ReqRecords] /\ req'[w].phase = phase
               /\ req'[w] = [op |-> req[w].op, id |-> req[w].id, ver |-> req[w].ver, phase |-> phase]
               /\ \A v \in Requests \ {w} : req'[v] = req[v]
    <2>1. phase \in Phases
      BY DEF Phases
    <2> QED BY <1>3, <2>1, GotoReq
  <1>4. CASE row[req[w].id] = NoRow
    <2>1. Goto(w, "refused") /\ row' = row /\ events' = events
      BY <1>4 DEF Commits, CommitBoth
    <2> QED BY <1>2, <1>3, <1>4, <2>1
  <1>5. CASE row[req[w].id] # NoRow
    <2>1. /\ Goto(w, "logged") /\ row' = [row EXCEPT ![req[w].id] = req[w].ver]
          /\ events' = events \cup {[id |-> req[w].id, at |-> req[w].ver + 1]}
      BY <1>5 DEF Commits, CommitBoth
    <2> QED BY <1>2, <1>3, <1>5, <2>1
  <1> QED BY <1>4, <1>5

LEMMA RefusesReq ==
    ASSUME TypeOK, NEW w \in Requests, Refuses(w)
    PROVE  /\ req' \in [Requests -> ReqRecords] /\ row' = row /\ clock' = clock /\ events' = events
           /\ In(w, "sent") /\ req[w].op # "create"
           /\ req'[w] = [op |-> req[w].op, id |-> req[w].id, ver |-> req[w].ver, phase |-> "refused"]
           /\ \A v \in Requests \ {w} : req'[v] = req[v]
  <1>1. Goto(w, "refused")
    BY DEF Refuses, Refuse
  <1> QED BY <1>1, GotoReq DEF Refuses, Refuse, Phases

LEMMA OverReq ==
    ASSUME TypeOK, NEW w \in Mine, Over(w)
    PROVE  /\ req' \in [Requests -> ReqRecords] /\ UNCHANGED <<row, events, clock>>
           /\ req'[w] = [op |-> req[w].op, id |-> req[w].id, ver |-> 0, phase |-> "over"]
           /\ \A v \in Requests \ {w} : req'[v] = req[v]
           /\ previous'[w] = <<>> /\ \A v \in Mine \ {w} : previous'[v] = previous[v]
           /\ previous' \in [Mine -> Seq(Cards)]
           /\ UNCHANGED <<stream, link, asked, drops>> /\ w \in Requests
  <1>1. w \in Requests
    BY BoardPageAssumption
  <1>2. req \in [Requests -> ReqRecords] /\ req[w] \in ReqRecords
    BY <1>1 DEF TypeOK, FeedTypeOK
  <1>3. req'[w] = [op |-> req[w].op, id |-> req[w].id, ver |-> 0, phase |-> "over"]
    BY <1>1, <1>2 DEF Over, ReqRecords
  <1>4. req'[w] \in ReqRecords
    BY <1>2, <1>3 DEF ReqRecords, Phases
  <1>5. previous \in [Mine -> Seq(Cards)] /\ <<>> \in Seq(Cards)
    BY DEF TypeOK
  <1> QED BY <1>1, <1>2, <1>3, <1>4, <1>5 DEF Over

LEMMA AskReq ==
    ASSUME TypeOK, NEW w \in Mine, NEW handler \in Handlers, NEW op \in Kinds, NEW t \in Tasks,
           NEW list \in Seq(Cards), Ask(w, handler, op, t, list)
    PROVE  /\ req' \in [Requests -> ReqRecords] /\ UNCHANGED <<row, events, clock>>
           /\ In(w, "unsent")
           /\ req'[w] = [op |-> op, id |-> t, ver |-> 0, phase |-> "sent"]
           /\ \A v \in Requests \ {w} : req'[v] = req[v]
           /\ previous'[w] = (IF handler = "move" THEN cards ELSE <<>>)
           /\ \A v \in Mine \ {w} : previous'[v] = previous[v]
           /\ previous' \in [Mine -> Seq(Cards)]
           /\ asked' \in [Mine -> Handlers] /\ asked'[w] = handler
           /\ \A v \in Mine \ {w} : asked'[v] = asked[v]
           /\ UNCHANGED <<stream, link, drops>> /\ w \in Requests /\ Show(list, {})
  <1>1. w \in Requests
    BY BoardPageAssumption
  <1>2. req \in [Requests -> ReqRecords]
    BY DEF TypeOK, FeedTypeOK
  <1>3. [op |-> op, id |-> t, ver |-> 0, phase |-> "sent"] \in ReqRecords
    BY DEF ReqRecords, Phases
  <1>4. previous \in [Mine -> Seq(Cards)] /\ <<>> \in Seq(Cards) /\ cards \in Seq(Cards)
        /\ asked \in [Mine -> Handlers]
    BY DEF TypeOK
  <1>5. Kept(w, handler) \in Seq(Cards) /\ Kept(w, handler) = (IF handler = "move" THEN cards ELSE <<>>)
    BY <1>4 DEF Kept
  <1> QED BY <1>1, <1>2, <1>3, <1>4, <1>5 DEF Ask, Send
-----------------------------------------------------------------------------
(* The steps of the page and of the stream. *)
LEMMA SinceIsTime ==
    ASSUME TypeOK
    PROVE  Latest(cards) \subseteq Nat /\ Skipped \subseteq Tasks
  <1>1. Latest(cards) \subseteq Nat
    <2>1. \A i \in DOMAIN cards : cards[i].ver \in Nat
      <3>1. cards \in Seq(Cards)
        BY DEF TypeOK
      <3>2. \A i \in DOMAIN cards : cards[i] \in Cards
        BY <3>1
      <3> QED BY <3>2 DEF Cards
    <2>2. clock \in Nat
      BY DEF TypeOK, FeedTypeOK
    <2> QED BY <2>1, <2>2 DEF Latest
  <1>2. Skipped \subseteq Tasks
    BY DEF Skipped, TypeOK, FeedTypeOK
  <1> QED BY <1>1, <1>2

(* What a poll puts on the wire. *)
LEMMA PollSends ==
    ASSUME TypeOK, Stamps, PollStep
    PROVE  /\ link = "up" /\ UNCHANGED <<server, page>>
           /\ wire' \in Seq([id : Tasks, ver : Nat]) /\ lastSeen' \in Nat /\ seen' \subseteq Nat
           /\ \A n \in seen' : \E e \in events : n = e.at
           /\ Len(wire') >= Len(wire) /\ \A i \in DOMAIN wire : wire'[i] = wire[i]
           /\ \A i \in DOMAIN wire' : i \in DOMAIN wire \/ \E e \in Unsent : wire'[i] = Payload(e)
           /\ \A e \in Unsent : \E i \in DOMAIN wire' : i > Len(wire) /\ wire'[i] = Payload(e)
  <1>1. link = "up" /\ UNCHANGED <<server, page>> /\ Poll
    BY DEF PollStep, Poll
  <1>2. Unsent \subseteq events /\ IsFiniteSet(Unsent)
    <2>1. Unsent \in SUBSET events
      BY DEF Unsent
    <2> QED BY <2>1, FS_Subset DEF Stamps
  <1>3. events \subseteq [id : Tasks, at : Nat] /\ row \in [Tasks -> Nat]
        /\ wire \in Seq([id : Tasks, ver : Nat])
    BY DEF TypeOK, FeedTypeOK
  <1>4. PICK n \in Nat : n = Cardinality(Unsent)
    BY <1>2, FS_CardinalityType
  <1>5. PICK order \in [1..n -> Unsent] :
            /\ \A i, j \in DOMAIN order : i < j => order[i].at < order[j].at
            /\ wire' = wire \o [i \in DOMAIN order |-> Payload(order[i])]
    BY <1>1, <1>4 DEF Poll
  <1>6. \A i, j \in 1..n : i # j => order[i] # order[j]
    <2>1. \A i \in 1..n : order[i].at \in Nat
      BY <1>2, <1>3
    <2>2. ASSUME NEW i \in 1..n, NEW j \in 1..n, i # j PROVE order[i] # order[j]
      <3>1. i < j \/ j < i
        BY <2>2
      <3>2. order[i].at < order[j].at \/ order[j].at < order[i].at
        BY <1>5, <3>1
      <3> QED BY <2>1, <3>2
    <2> QED BY <2>2
  <1>7. \A e \in Unsent : \E i \in 1..n : order[i] = e
    <2>1. order \in [1..Cardinality(Unsent) -> Unsent]
          /\ \A i, j \in 1..Cardinality(Unsent) : i # j => order[i] # order[j]
      BY <1>4, <1>6
    <2>2. \A e \in Unsent : \E i \in 1..Cardinality(Unsent) : order[i] = e
      BY <1>2, <2>1, Listed
    <2> QED BY <1>4, <2>2
  <1>8. \A e \in Unsent : Payload(e) \in [id : Tasks, ver : Nat]
    BY <1>2, <1>3 DEF Payload
  <1>9. PICK new : new = [i \in DOMAIN order |-> Payload(order[i])]
    OBVIOUS
  <1>10. /\ new \in Seq([id : Tasks, ver : Nat]) /\ Len(new) = n /\ DOMAIN new = 1..n
         /\ \A i \in 1..n : new[i] = Payload(order[i])
    <2>1. DOMAIN order = 1..n /\ \A i \in 1..n : Payload(order[i]) \in [id : Tasks, ver : Nat]
      BY <1>8
    <2>2. PICK S : S = [id : Tasks, ver : Nat]
      OBVIOUS
    <2>3. new \in [1..n -> S] /\ \A i \in 1..n : new[i] = Payload(order[i])
      BY <1>9, <2>1, <2>2
    <2>4. new \in Seq(S) /\ Len(new) = n /\ DOMAIN new = 1..n
      BY <2>3
    <2> QED BY <2>2, <2>3, <2>4
  <1>11. wire' = wire \o new
    BY <1>5, <1>9
  <1>12. PICK m \in Nat : m = Len(wire) /\ DOMAIN wire = 1..m
    BY <1>3
  <1>13. /\ wire' \in Seq([id : Tasks, ver : Nat]) /\ Len(wire') = m + n
         /\ DOMAIN wire' = 1..(m + n)
         /\ \A i \in 1..m : wire'[i] = wire[i]
         /\ \A i \in 1..n : wire'[m + i] = new[i]
    <2>1. PICK S : S = [id : Tasks, ver : Nat]
      OBVIOUS
    <2>2. wire \in Seq(S) /\ new \in Seq(S)
      BY <1>3, <1>10, <2>1
    <2>3. /\ wire' \in Seq(S) /\ Len(wire') = m + n
          /\ \A i \in 1..(m + n) : wire'[i] = IF i <= m THEN wire[i] ELSE new[i - m]
      BY <1>10, <1>11, <1>12, <2>2, ConcatProperties
    <2>4. \A i \in 1..n : m + i \in 1..(m + n) /\ ~(m + i <= m) /\ (m + i) - m = i
      OBVIOUS
    <2> QED BY <2>1, <2>3, <2>4
  <1>14. \A i \in 1..(m + n) : i \in 1..m \/ (i - m \in 1..n /\ m + (i - m) = i)
    OBVIOUS
  <1>15. \A i \in DOMAIN wire' : i \in DOMAIN wire \/ \E e \in Unsent : wire'[i] = Payload(e)
    <2>1. \A i \in 1..n : order[i] \in Unsent /\ wire'[m + i] = Payload(order[i])
      BY <1>10, <1>13
    <2>2. ASSUME NEW i \in 1..(m + n), i \notin 1..m PROVE \E e \in Unsent : wire'[i] = Payload(e)
      <3>1. PICK k \in 1..n : m + k = i
        BY <1>14, <2>2
      <3> QED BY <2>1, <3>1
    <2> QED BY <1>12, <1>13, <2>2
  <1>16. \A e \in Unsent : \E i \in DOMAIN wire' : i > Len(wire) /\ wire'[i] = Payload(e)
    <2>1. TAKE e \in Unsent
    <2>2. PICK k \in 1..n : order[k] = e
      BY <1>7
    <2>3. wire'[m + k] = Payload(e)
      BY <1>10, <1>13, <2>2
    <2>4. m + k \in 1..(m + n) /\ m + k > m
      OBVIOUS
    <2> QED BY <1>12, <1>13, <2>3, <2>4
  <1>17. /\ lastSeen' \in Nat /\ seen' \subseteq Nat
         /\ \A k \in seen' : \E e \in events : k = e.at
    BY <1>1, <1>2, <1>3 DEF Poll
  <1>18. Len(wire') >= Len(wire)
    BY <1>12, <1>13
  <1> QED BY <1>1, <1>12, <1>13, <1>15, <1>16, <1>17, <1>18

LEMMA Received ==
    ASSUME TypeOK, Receive
    PROVE  /\ link = "up" /\ UNCHANGED <<server, lastSeen, seen, link, asked, previous, drops>>
           /\ 1 \in DOMAIN wire /\ wire[1] \in [id : Tasks, ver : Nat]
           /\ wire' \in Seq([id : Tasks, ver : Nat])
           /\ \A i \in DOMAIN wire' : i + 1 \in DOMAIN wire /\ wire'[i] = wire[i + 1]
           /\ \A i \in DOMAIN wire : i > 1 => i - 1 \in DOMAIN wire' /\ wire'[i - 1] = wire[i]
           /\ cards' = Merged(cards, wire[1])
           /\ Blame(row, cards', wire', IF row[wire[1].id] = NoRow THEN {wire[1].id} ELSE {})
  <1>1. wire \in Seq([id : Tasks, ver : Nat]) /\ wire # <<>> /\ wire' = Tail(wire)
    BY DEF Receive, TypeOK, FeedTypeOK
  <1>2. Head(wire) = wire[1] /\ 1 \in DOMAIN wire /\ wire[1] \in [id : Tasks, ver : Nat]
    <2>1. PICK S : S = [id : Tasks, ver : Nat]
      OBVIOUS
    <2>2. wire \in Seq(S) /\ Len(wire) \in Nat /\ Len(wire) # 0 /\ DOMAIN wire = 1..Len(wire)
      BY <1>1, <2>1, EmptySeq, LenProperties
    <2>3. 1 \in 1..Len(wire)
      BY <2>2
    <2>4. wire[1] \in S
      BY <2>2, <2>3
    <2> QED BY <2>1, <2>2, <2>3, <2>4
  <1>3. /\ wire' \in Seq([id : Tasks, ver : Nat])
        /\ Len(wire) \in Nat /\ Len(wire') = Len(wire) - 1 /\ Len(wire) > 0
        /\ \A i \in 1..Len(wire') : wire'[i] = wire[i + 1]
    <2>1. PICK S : S = [id : Tasks, ver : Nat]
      OBVIOUS
    <2> QED BY <1>1, <2>1, HeadTailProperties
  <1>4. DOMAIN wire' = 1..Len(wire') /\ DOMAIN wire = 1..Len(wire)
    BY <1>1, <1>3
  <1>5. \A i \in DOMAIN wire' : i + 1 \in DOMAIN wire /\ wire'[i] = wire[i + 1]
    BY <1>3, <1>4
  <1>6. \A i \in DOMAIN wire : i > 1 => i - 1 \in DOMAIN wire' /\ wire'[i - 1] = wire[i]
    <2>1. \A i \in DOMAIN wire : i > 1 => i - 1 \in DOMAIN wire' /\ (i - 1) + 1 = i
      BY <1>3, <1>4
    <2> QED BY <1>5, <2>1
  <1>7. /\ cards' = Merged(cards, wire[1])
        /\ Blame(row, cards', wire', IF row[wire[1].id] = NoRow THEN {wire[1].id} ELSE {})
    BY <1>1, <1>2 DEF Receive, ShowWith, Blame
  <1> QED BY <1>2, <1>3, <1>5, <1>6, <1>7 DEF Receive

(* The new list has the cards of the task of the old one, in some order.   *)
Reorders(new, list, u, order) ==
    /\ DOMAIN new \in SUBSET Nat /\ DOMAIN order = DOMAIN new
    /\ \A i \in DOMAIN new : order[i] \in DOMAIN list /\ new[i] = list[order[i]]
    /\ \A i, j \in DOMAIN new : i # j => order[i] # order[j]
    /\ \A k \in DOMAIN list : list[k].id = u => \E i \in DOMAIN new : order[i] = k

LEMMA Reordered ==
    ASSUME NEW new, NEW list, NEW u, NEW order, Reorders(new, list, u, order)
    PROVE  /\ Faithful(row, new, u) <=> Faithful(row, list, u)
           /\ DoubledIn(new, u) <=> DoubledIn(list, u)
  <1> USE DEF Reorders
  <1>2. \A k \in DOMAIN list : list[k].id = u => \E i \in DOMAIN new : order[i] = k /\ new[i] = list[k]
    OBVIOUS
  <1>3. Holds(new, u) <=> Holds(list, u)
    <2>1. Holds(new, u) => Holds(list, u)
      BY DEF Holds
    <2>2. Holds(list, u) => Holds(new, u)
      BY <1>2 DEF Holds
    <2> QED BY <2>1, <2>2
  <1>4. ASSUME NEW P PROVE (\A i \in DOMAIN new : new[i].id = u => new[i] = P)
                            <=> (\A k \in DOMAIN list : list[k].id = u => list[k] = P)
    BY <1>2
  <1>5. DoubledIn(new, u) => DoubledIn(list, u)
    <2>1. ASSUME NEW i \in DOMAIN new, NEW j \in DOMAIN new, i # j, new[i].id = u, new[j].id = u
          PROVE  DoubledIn(list, u)
      <3>1. order[i] # order[j]
        BY <2>1
      <3> QED BY <2>1, <3>1 DEF DoubledIn
    <2> QED BY <2>1 DEF DoubledIn
  <1>6. DoubledIn(list, u) => DoubledIn(new, u)
    <2>1. ASSUME NEW k \in DOMAIN list, NEW l \in DOMAIN list, k # l,
                 list[k].id = u, list[l].id = u
          PROVE  DoubledIn(new, u)
      <3>1. PICK i \in DOMAIN new : order[i] = k /\ new[i].id = u
        BY <1>2, <2>1
      <3>2. PICK j \in DOMAIN new : order[j] = l /\ new[j].id = u
        BY <1>2, <2>1
      <3>3. i # j
        BY <2>1, <3>1, <3>2
      <3> QED BY <3>1, <3>2, <3>3 DEF DoubledIn
    <2> QED BY <2>1 DEF DoubledIn
  <1> QED BY <1>3, <1>4, <1>5, <1>6 DEF Faithful

LEMMA Deleted ==
    ASSUME TypeOK, NEW w \in Mine, DeleteAnswered(w)
    PROVE  /\ asked[w] = "delete" /\ In(w, "logged") /\ Over(w)
           /\ req[w].id \in Tasks
           /\ cards' \in Seq(Cards) /\ ~Holds(cards', req[w].id)
           /\ \A u \in Tasks : u # req[w].id =>
                 /\ Faithful(row, cards', u) <=> Faithful(row, cards, u)
                 /\ DoubledIn(cards', u) <=> DoubledIn(cards, u)
           /\ Blame(row, cards', wire, {})
  <1>1. asked[w] = "delete" /\ In(w, "logged") /\ Over(w)
    BY DEF DeleteAnswered, Finish
  <1>2. PICK kept : kept = {i \in DOMAIN cards : cards[i].id # req[w].id}
    OBVIOUS
  <1>3. PICK order \in [1..Cardinality(kept) -> kept] :
            /\ \A i, j \in DOMAIN order : i < j => order[i] < order[j]
            /\ Show([i \in DOMAIN order |-> cards[order[i]]], {})
    BY <1>2 DEF DeleteAnswered
  <1>4. cards \in Seq(Cards) /\ req[w].id \in Tasks
    BY BoardPageAssumption DEF TypeOK, FeedTypeOK, ReqRecords
  <1>5. cards' = [i \in DOMAIN order |-> cards[order[i]]] /\ Blame(row, cards', wire, {})
    BY <1>3 DEF Show, ShowWith, Blame
  <1>6. kept \in SUBSET DOMAIN cards /\ \A i \in DOMAIN cards : i \in kept <=> cards[i].id # req[w].id
    BY <1>2
  <1>8. PICK new : new = cards'
    OBVIOUS
  <1>7. /\ new \in [1..Cardinality(kept) -> Cards]
        /\ \A i \in 1..Cardinality(kept) : new[i] = cards[order[i]]
    <2>1. DOMAIN order = 1..Cardinality(kept)
      OBVIOUS
    <2>2. \A i \in 1..Cardinality(kept) : cards[order[i]] \in Cards
      BY <1>4, <1>6
    <2> QED BY <1>5, <1>8, <2>1, <2>2
  <1>10. \A i, j \in 1..Cardinality(kept) : i < j => order[i] < order[j]
    BY <1>3
  <1>9. /\ new \in Seq(Cards) /\ ~Holds(new, req[w].id)
        /\ \A u \in Tasks : u # req[w].id =>
                /\ Faithful(row, new, u) <=> Faithful(row, cards, u)
                /\ DoubledIn(new, u) <=> DoubledIn(cards, u)
    <2>1. DOMAIN cards = 1..Len(cards) /\ Len(cards) \in Nat
      BY <1>4
    <2>2. IsFiniteSet(kept)
      <3>1. 1 \in Int /\ Len(cards) \in Int /\ kept \in SUBSET (1..Len(cards))
        BY <1>6, <2>1
      <3> QED BY <3>1, FS_Interval, FS_Subset
    <2>3. PICK n \in Nat : n = Cardinality(kept)
      BY <2>2, FS_CardinalityType
    <2>4. \A i \in 1..n : order[i] \in kept /\ order[i] \in DOMAIN cards /\ order[i] \in Nat
      BY <1>6, <2>1, <2>3
    <2>5. \A i, j \in 1..n : i # j => order[i] # order[j]
      <3>1. \A i, j \in 1..n : i < j => order[i] < order[j]
        BY <1>10, <2>3
      <3>2. ASSUME NEW i \in 1..n, NEW j \in 1..n, i # j PROVE order[i] # order[j]
        <4>1. i < j \/ j < i
          BY <3>2
        <4>2. order[i] < order[j] \/ order[j] < order[i]
          BY <3>1, <4>1
        <4> QED BY <2>4, <4>2
      <3> QED BY <3>2
    <2>6. \A x \in kept : \E i \in 1..n : order[i] = x
      <3>1. \A i, j \in 1..Cardinality(kept) : i # j => order[i] # order[j]
        BY <2>3, <2>5
      <3>2. \A x \in kept : \E i \in 1..Cardinality(kept) : order[i] = x
        BY <2>2, <3>1, Listed
      <3> QED BY <2>3, <3>2
    <2>7. new \in [1..n -> Cards] /\ \A i \in 1..n : new[i] = cards[order[i]]
      BY <1>7, <2>3
    <2>8. new \in Seq(Cards) /\ ~Holds(new, req[w].id)
      <3>1. \A i \in 1..n : new[i].id # req[w].id
        BY <1>6, <2>4, <2>7
      <3> QED BY <2>7, <3>1 DEF Holds
    <2>9. ASSUME NEW u \in Tasks, u # req[w].id
          PROVE  /\ Faithful(row, new, u) <=> Faithful(row, cards, u)
                 /\ DoubledIn(new, u) <=> DoubledIn(cards, u)
      <3>1. \A k \in DOMAIN cards : cards[k].id = u => \E i \in 1..n : order[i] = k
        BY <1>6, <2>6, <2>9
      <3>2. order \in [1..n -> DOMAIN cards]
        BY <2>3, <2>4
      <3>3. DOMAIN new = 1..n /\ DOMAIN order = 1..n
        BY <2>7, <3>2
      <3>4. Reorders(new, cards, u, order)
        BY <2>4, <2>5, <2>7, <3>1, <3>3 DEF Reorders
      <3> QED BY <3>4, Reordered
    <2> QED BY <2>8, <2>9
  <1> QED BY <1>1, <1>4, <1>5, <1>8, <1>9
-----------------------------------------------------------------------------
(* Each request of the page: what it shows at once. *)
AskedList(handler, t) == IF handler = "move" THEN Moved(cards, t) ELSE cards

Asks(w, handler, op, t) ==
    /\ <<handler, op>> \in {<<"create", "create">>, <<"move", "update">>,
                           <<"save", "update">>, <<"delete", "delete">>}
    /\ Ask(w, handler, op, t, AskedList(handler, t))

LEMMA UserCases ==
    ASSUME NEW w, NEW t, UserStep(w, t)
    PROVE  \E handler \in Handlers, op \in Kinds : Asks(w, handler, op, t)
  <1>1. CASE CreateTask(w, t)
    BY <1>1 DEF CreateTask, Asks, AskedList, Handlers, Kinds
  <1>2. CASE MoveTask(w, t)
    BY <1>2 DEF MoveTask, Asks, AskedList, Handlers, Kinds
  <1>3. CASE SaveTask(w, t)
    BY <1>3 DEF SaveTask, Asks, AskedList, Handlers, Kinds
  <1>4. CASE DeleteTask(w, t)
    BY <1>4 DEF DeleteTask, Asks, AskedList, Handlers, Kinds
  <1> QED BY <1>1, <1>2, <1>3, <1>4 DEF UserStep

LEMMA AsksReq ==
    ASSUME TypeOK, NEW w \in Mine, NEW handler \in Handlers, NEW op \in Kinds, NEW t \in Tasks,
           Asks(w, handler, op, t)
    PROVE  /\ req' \in [Requests -> ReqRecords] /\ UNCHANGED <<row, events, clock>>
           /\ In(w, "unsent") /\ IF op = "create" THEN Unused(t) ELSE ~Unused(t)
           /\ req'[w] = [op |-> op, id |-> t, ver |-> 0, phase |-> "sent"]
           /\ \A v \in Requests \ {w} : req'[v] = req[v]
           /\ previous'[w] = (IF handler = "move" THEN cards ELSE <<>>)
           /\ \A v \in Mine \ {w} : previous'[v] = previous[v]
           /\ previous' \in [Mine -> Seq(Cards)]
           /\ asked' \in [Mine -> Handlers] /\ asked'[w] = handler
           /\ \A v \in Mine \ {w} : asked'[v] = asked[v]
           /\ UNCHANGED <<stream, link, drops>> /\ link # "loading" /\ w \in Requests
           /\ cards' \in Seq(Cards) /\ Blame(row, cards', wire, {})
           /\ handler = "move" => op = "update"
           /\ handler = "create" <=> op = "create"
           /\ handler = "delete" <=> op = "delete"
           /\ handler # "move" => cards' = cards
           /\ \A u \in Tasks : u # t => Faithful(row, cards', u) <=> Faithful(row, cards, u)
           /\ \A u \in Tasks : DoubledIn(cards', u) <=> DoubledIn(cards, u)
  <1>1. cards \in Seq(Cards)
    BY DEF TypeOK
  <1>2. PICK list : list = AskedList(handler, t) /\ Ask(w, handler, op, t, list)
    BY DEF Asks
  <1>3. /\ list \in Seq(Cards)
        /\ \A u \in Tasks : u # t => Faithful(row, list, u) <=> Faithful(row, cards, u)
        /\ \A u \in Tasks : DoubledIn(list, u) <=> DoubledIn(cards, u)
    <2>1. /\ Moved(cards, t) \in Seq(Cards)
          /\ \A u \in Tasks : u # t => Faithful(row, Moved(cards, t), u) <=> Faithful(row, cards, u)
          /\ \A u \in Tasks : DoubledIn(Moved(cards, t), u) <=> DoubledIn(cards, u)
      BY <1>1, MovedList
    <2> QED BY <1>1, <1>2, <2>1 DEF AskedList
  <1>4. cards' = list /\ Blame(row, cards', wire, {})
    BY <1>2 DEF Ask, Show, ShowWith, Blame
  <1>5. /\ handler = "move" => op = "update"
        /\ handler = "create" <=> op = "create"
        /\ handler = "delete" <=> op = "delete"
    BY DEF Asks
  <1>6. link # "loading" /\ IF op = "create" THEN Unused(t) ELSE ~Unused(t)
    BY <1>2 DEF Ask, Send
  <1>7. /\ req' \in [Requests -> ReqRecords] /\ UNCHANGED <<row, events, clock>>
        /\ In(w, "unsent")
        /\ req'[w] = [op |-> op, id |-> t, ver |-> 0, phase |-> "sent"]
        /\ \A v \in Requests \ {w} : req'[v] = req[v]
        /\ previous'[w] = (IF handler = "move" THEN cards ELSE <<>>)
        /\ \A v \in Mine \ {w} : previous'[v] = previous[v]
        /\ previous' \in [Mine -> Seq(Cards)]
        /\ asked' \in [Mine -> Handlers] /\ asked'[w] = handler
        /\ \A v \in Mine \ {w} : asked'[v] = asked[v]
        /\ UNCHANGED <<stream, link, drops>> /\ w \in Requests
    BY <1>2, <1>3, AskReq
  <1> QED BY <1>2, <1>3, <1>4, <1>5, <1>6, <1>7 DEF AskedList

(* Each answer: what it shows and what it blames. *)
Answers(w, ids) ==
    /\ Over(w) /\ Blame(row, cards', wire, ids) /\ ids \subseteq Tasks
    /\ cards' \in Seq(Cards) /\ (In(w, "logged") \/ In(w, "refused"))

(* The page shows a list of its own making, and what that spoils is blamed. *)
Replaces(w, ids) ==
    /\ Answers(w, ids) /\ ids = Spoils(cards')
    /\ \/ /\ In(w, "logged") /\ asked[w] \in {"move", "save", "create"}
          /\ \A u \in Tasks : DoubledIn(cards, u) => DoubledIn(cards', u)
          /\ \A u \in Tasks : DoubledIn(cards', u) =>
                DoubledIn(cards, u) \/ (u = req[w].id /\ asked[w] = "create")
       \/ asked[w] = "move" /\ cards' = previous[w]

(* The list stays, or loses the task whose deletion was confirmed. *)
Settles(w, ids) ==
    /\ Answers(w, ids) /\ asked[w] # "move"
    /\ \/ cards' = cards /\ (asked[w] = "delete" => ids = {req[w].id})
       \/ /\ asked[w] = "delete" /\ In(w, "logged") /\ ~Holds(cards', req[w].id)
          /\ \A u \in Tasks : u # req[w].id =>
                 /\ Faithful(row, cards', u) <=> Faithful(row, cards, u)
                 /\ DoubledIn(cards', u) <=> DoubledIn(cards, u)

LEMMA AnswerCases ==
    ASSUME TypeOK, NEW w \in Mine, AnswerStep(w)
    PROVE  \E ids : Replaces(w, ids) \/ Settles(w, ids)
  <1>1. /\ req[w].id \in Tasks /\ req[w].ver \in Nat /\ cards \in Seq(Cards)
        /\ previous[w] \in Seq(Cards) /\ asked[w] \in Handlers
    BY BoardPageAssumption DEF TypeOK, FeedTypeOK, ReqRecords
  <1>2. ASSUME NEW list PROVE Spoils(list) \subseteq Tasks
    BY DEF Spoils
  <1>3. CASE UpdateAnswered(w)
    <2>1. /\ Over(w) /\ In(w, "logged") /\ asked[w] \in {"move", "save"}
          /\ cards' = Answered(cards, req[w].id, req[w].ver)
          /\ Blame(row, cards', wire, Spoils(cards'))
      BY <1>3 DEF UpdateAnswered, Finish, Show, ShowWith, Blame
    <2>2. /\ cards' \in Seq(Cards)
          /\ \A u \in Tasks : DoubledIn(cards', u) <=> DoubledIn(cards, u)
      BY <1>1, <2>1, AnsweredList
    <2>3. Replaces(w, Spoils(cards'))
      BY <1>2, <2>1, <2>2 DEF Replaces, Answers
    <2> QED BY <2>3
  <1>4. CASE CreateAnswered(w)
    <2>1. /\ Over(w) /\ In(w, "logged") /\ asked[w] = "create"
          /\ cards' = <<Card(req[w].id, req[w].ver)>> \o cards
          /\ Blame(row, cards', wire, Spoils(cards'))
      BY <1>4 DEF CreateAnswered, Finish, Show, ShowWith, Blame
    <2>2. PICK card \in Cards : card = Card(req[w].id, req[w].ver) /\ card.id = req[w].id
      <3>1. Card(req[w].id, req[w].ver) \in Cards /\ Card(req[w].id, req[w].ver).id = req[w].id
        BY <1>1 DEF Card, Cards
      <3> QED BY <3>1
    <2>3. /\ cards' \in Seq(Cards)
          /\ \A u \in Tasks : u # req[w].id => DoubledIn(cards', u) <=> DoubledIn(cards, u)
          /\ DoubledIn(cards, req[w].id) => DoubledIn(cards', req[w].id)
      <3>1. PICK new : new = cards'
        OBVIOUS
      <3>2. /\ new \in Seq(Cards)
            /\ \A u \in Tasks : u # card.id => DoubledIn(new, u) <=> DoubledIn(cards, u)
            /\ DoubledIn(cards, card.id) => DoubledIn(new, card.id)
        BY <1>1, <2>1, <2>2, <3>1, InFront
      <3> QED BY <2>2, <3>1, <3>2
    <2>4. /\ \A u \in Tasks : DoubledIn(cards, u) => DoubledIn(cards', u)
          /\ \A u \in Tasks : DoubledIn(cards', u) => DoubledIn(cards, u) \/ u = req[w].id
      BY <2>3
    <2>5. Replaces(w, Spoils(cards'))
      BY <1>2, <2>1, <2>3, <2>4 DEF Replaces, Answers
    <2> QED BY <2>5
  <1>5. CASE DeleteAnswered(w)
    <2>1. Settles(w, {})
      BY <1>5, Deleted DEF Settles, Answers
    <2> QED BY <2>1
  <1>6. CASE RequestFails(w)
    <2>1. Over(w) /\ (In(w, "refused") \/ In(w, "logged"))
      BY <1>6 DEF RequestFails
    <2>2. CASE asked[w] = "move"
      <3>1. cards' = previous[w] /\ Blame(row, cards', wire, Spoils(cards'))
        BY <1>6, <2>2 DEF RequestFails, Restored, Show, ShowWith, Blame
      <3>2. Replaces(w, Spoils(cards'))
        BY <1>1, <1>2, <2>1, <2>2, <3>1 DEF Replaces, Answers
      <3> QED BY <3>2
    <2>3. CASE asked[w] = "delete"
      <3>1. cards' = cards /\ Blame(row, cards', wire, {req[w].id})
        BY <1>6, <2>3 DEF RequestFails, Restored, Show, ShowWith, Blame
      <3>2. Settles(w, {req[w].id})
        BY <1>1, <2>1, <2>3, <3>1 DEF Settles, Answers
      <3> QED BY <3>2
    <2>4. CASE asked[w] \notin {"move", "delete"}
      <3>1. cards' = cards /\ Blame(row, cards', wire, {})
        BY <1>6, <2>4 DEF RequestFails, Restored, Show, ShowWith, Blame
      <3>2. Settles(w, {})
        BY <1>1, <2>1, <2>4, <3>1 DEF Settles, Answers
      <3> QED BY <3>2
    <2> QED BY <2>2, <2>3, <2>4
  <1> QED BY <1>3, <1>4, <1>5, <1>6 DEF AnswerStep
-----------------------------------------------------------------------------
(* What each step does to every variable, in the form the proofs use. *)
Sorts(ids) ==
    /\ blamed' \subseteq Tasks
    /\ \A t \in Tasks : (t \in blamed \/ t \in ids) => (t \in blamed' \/ Faithful(row', cards', t))
    /\ \A i \in DOMAIN wire' :
          ((wire'[i].id \in blamed \/ wire'[i].id \in ids) /\ wire'[i].ver # row'[wire'[i].id])
              => wire'[i].id \in blamed'

SameStream == lastSeen' = lastSeen /\ seen' = seen /\ wire' = wire
SameServer == row' = row /\ events' = events /\ clock' = clock /\ req' = req
SameAsked == asked' = asked /\ previous' = previous

Loaded ==
    /\ SameServer /\ SameStream /\ SameAsked /\ drops' = drops
    /\ link = "loading" /\ link' = "down" /\ cards' \in Seq(Cards)
    /\ \A t \in Tasks : Faithful(row, cards', t) /\ ~DoubledIn(cards', t)
    /\ Sorts({})

Connected ==
    /\ SameServer /\ SameAsked /\ drops' = drops /\ cards' = cards
    /\ link = "down" /\ link' = "up" /\ seen' = {} /\ wire' = <<>>
    /\ lastSeen' \in Latest(cards) /\ lastSeen' \in Nat
    /\ Sorts(Skipped)

Dropped ==
    /\ SameServer /\ SameAsked /\ cards' = cards /\ blamed' = blamed
    /\ lastSeen' = lastSeen /\ seen' = seen /\ wire' = <<>>
    /\ link = "up" /\ link' = "down" /\ drops' \in 0..MaxDrops

Polled ==
    /\ SameServer /\ SameAsked /\ cards' = cards /\ blamed' = blamed
    /\ link = "up" /\ link' = link /\ drops' = drops
    /\ wire' \in Seq([id : Tasks, ver : Nat]) /\ lastSeen' \in Nat /\ seen' \subseteq Nat
    /\ \A n \in seen' : \E e \in events : n = e.at
    /\ \A i \in DOMAIN wire : i \in DOMAIN wire' /\ wire'[i] = wire[i]
    /\ \A i \in DOMAIN wire' : i \in DOMAIN wire \/ \E e \in Unsent : wire'[i] = Payload(e)
    /\ \A e \in Unsent : \E j \in DOMAIN wire' :
          wire'[j] = Payload(e) /\ \A i \in DOMAIN wire : i < j

Took ==
    /\ SameServer /\ SameAsked /\ lastSeen' = lastSeen /\ seen' = seen
    /\ link = "up" /\ link' = link /\ drops' = drops
    /\ 1 \in DOMAIN wire /\ wire[1] \in [id : Tasks, ver : Nat]
    /\ wire' \in Seq([id : Tasks, ver : Nat])
    /\ \A i \in DOMAIN wire' : i + 1 \in DOMAIN wire /\ wire'[i] = wire[i + 1]
    /\ \A i \in DOMAIN wire : i > 1 => i - 1 \in DOMAIN wire' /\ wire'[i - 1] = wire[i]
    /\ cards' \in Seq(Cards)
    /\ \A u \in Tasks : u # wire[1].id => (Faithful(row, cards', u) <=> Faithful(row, cards, u))
    /\ \A u \in Tasks : DoubledIn(cards', u) <=> DoubledIn(cards, u)
    /\ row[wire[1].id] # NoRow /\ wire[1].ver = row[wire[1].id] =>
          DoubledIn(cards, wire[1].id) \/ Faithful(row, cards', wire[1].id)
    /\ Sorts(IF row[wire[1].id] = NoRow THEN {wire[1].id} ELSE {})

Served ==
    /\ SameStream /\ SameAsked /\ cards' = cards /\ link' = link /\ drops' = drops
    /\ req' \in [Requests -> ReqRecords] /\ row' \in [Tasks -> Nat]
    /\ events' \subseteq [id : Tasks, at : Nat]

Wrote(w, op, t) ==
    /\ Served /\ Sorts({}) /\ Entitled(w, op, t) /\ op \in {"update", "create"}
    /\ clock' = clock + 2 /\ events' = events
    /\ row'[t] = clock + 1 /\ \A u \in Tasks \ {t} : row'[u] = row[u]
    /\ req'[w] = [op |-> op, id |-> t, ver |-> clock + 1, phase |-> "written"]
    /\ \A v \in Requests \ {w} : req'[v] = req[v]
    /\ op = "update" => row[t] # NoRow

Removed(w, t) ==
    /\ Served /\ Sorts(IF w \in Others /\ In(w, "unsent") THEN {t} ELSE {})
    /\ Entitled(w, "delete", t) /\ clock' = clock
    /\ row[t] # NoRow /\ row'[t] = NoRow /\ \A u \in Tasks \ {t} : row'[u] = row[u]
    /\ events' = {e \in events : e.id # t}
    /\ req'[w] = [op |-> "delete", id |-> t, ver |-> NoRow, phase |-> "logged"]
    /\ \A v \in Requests \ {w} : req'[v] = req[v]

Logged(w, t, at) ==
    /\ Served /\ Sorts(IF Late(w) THEN {t} ELSE {})
    /\ row' = row /\ clock' = clock /\ In(w, "written")
    /\ req[w].id = t /\ t \in Tasks /\ at = req[w].ver + 1 /\ at \in Nat
    /\ req'[w].id = t /\ req'[w].op = req[w].op /\ req'[w].ver = req[w].ver
    /\ \A v \in Requests \ {w} : req'[v] = req[v]
    /\ \/ row[t] = NoRow /\ events' = events /\ req'[w].phase = "refused"
       \/ /\ row[t] # NoRow /\ req'[w].phase = "logged"
          /\ events' = events \cup {[id |-> t, at |-> at]}

Prepared(w, t) ==
    /\ Served /\ Sorts({}) /\ w \in Others /\ In(w, "unsent")
    /\ row[t] # NoRow /\ row' = row /\ events' = events /\ clock' = clock + 2
    /\ req'[w] = [op |-> "update", id |-> t, ver |-> clock + 1, phase |-> "stamped"]
    /\ \A v \in Requests \ {w} : req'[v] = req[v]

Committed(w, t, at) ==
    /\ Served /\ Sorts(IF Late(w) THEN {t} ELSE {})
    /\ clock' = clock /\ In(w, "stamped")
    /\ req[w].id = t /\ t \in Tasks /\ at = req[w].ver + 1 /\ at \in Nat
    /\ req'[w].id = t /\ req'[w].op = req[w].op /\ req'[w].ver = req[w].ver
    /\ \A v \in Requests \ {w} : req'[v] = req[v]
    /\ \/ row[t] = NoRow /\ row' = row /\ events' = events /\ req'[w].phase = "refused"
       \/ /\ row[t] # NoRow /\ req'[w].phase = "logged"
          /\ row'[t] = req[w].ver /\ \A u \in Tasks \ {t} : row'[u] = row[u]
          /\ events' = events \cup {[id |-> t, at |-> at]}

Denied(w) ==
    /\ Served /\ Sorts({}) /\ row' = row /\ clock' = clock /\ events' = events
    /\ In(w, "sent") /\ req[w].op # "create"
    /\ req'[w] = [op |-> req[w].op, id |-> req[w].id, ver |-> req[w].ver, phase |-> "refused"]
    /\ \A v \in Requests \ {w} : req'[v] = req[v]

Asked(w, handler, op, t) ==
    /\ row' = row /\ events' = events /\ clock' = clock /\ SameStream
    /\ link # "loading" /\ link' = link /\ drops' = drops
    /\ In(w, "unsent") /\ w \in Requests
    /\ IF op = "create" THEN Unused(t) ELSE ~Unused(t)
    /\ req' \in [Requests -> ReqRecords]
    /\ req'[w] = [op |-> op, id |-> t, ver |-> 0, phase |-> "sent"]
    /\ \A v \in Requests \ {w} : req'[v] = req[v]
    /\ previous' \in [Mine -> Seq(Cards)]
    /\ previous'[w] = (IF handler = "move" THEN cards ELSE <<>>)
    /\ \A v \in Mine \ {w} : previous'[v] = previous[v]
    /\ asked' \in [Mine -> Handlers] /\ asked'[w] = handler
    /\ \A v \in Mine \ {w} : asked'[v] = asked[v]
    /\ handler = "move" => op = "update"
    /\ handler = "create" <=> op = "create"
    /\ handler = "delete" <=> op = "delete"
    /\ cards' \in Seq(Cards) /\ (handler # "move" => cards' = cards)
    /\ \A u \in Tasks : u # t => (Faithful(row, cards', u) <=> Faithful(row, cards, u))
    /\ \A u \in Tasks : DoubledIn(cards', u) <=> DoubledIn(cards, u)
    /\ Sorts({})

Ended(w) ==
    /\ row' = row /\ events' = events /\ clock' = clock /\ SameStream
    /\ link' = link /\ drops' = drops /\ asked' = asked
    /\ w \in Requests /\ (In(w, "logged") \/ In(w, "refused"))
    /\ req' \in [Requests -> ReqRecords]
    /\ req'[w] = [op |-> req[w].op, id |-> req[w].id, ver |-> 0, phase |-> "over"]
    /\ \A v \in Requests \ {w} : req'[v] = req[v]
    /\ previous' \in [Mine -> Seq(Cards)] /\ previous'[w] = <<>>
    /\ \A v \in Mine \ {w} : previous'[v] = previous[v]
    /\ cards' \in Seq(Cards)

Replaced(w) ==
    /\ Ended(w) /\ Sorts({})
    /\ \A t \in Tasks : (Faithful(row, cards, t) \/ DoubledIn(cards, t)) =>
          (t \in blamed' \/ Faithful(row, cards', t))
    /\ \/ /\ In(w, "logged") /\ asked[w] \in {"move", "save", "create"}
          /\ \A u \in Tasks : DoubledIn(cards, u) => DoubledIn(cards', u)
          /\ \A u \in Tasks : DoubledIn(cards', u) =>
                DoubledIn(cards, u) \/ (u = req[w].id /\ asked[w] = "create")
       \/ asked[w] = "move" /\ cards' = previous[w]

Settled(w) ==
    /\ Ended(w) /\ asked[w] # "move"
    /\ \/ cards' = cards /\ Sorts(IF asked[w] = "delete" THEN {req[w].id} ELSE {})
       \/ /\ asked[w] = "delete" /\ In(w, "logged") /\ ~Holds(cards', req[w].id) /\ Sorts({})
          /\ \A u \in Tasks : u # req[w].id =>
                 /\ Faithful(row, cards', u) <=> Faithful(row, cards, u)
                 /\ DoubledIn(cards', u) <=> DoubledIn(cards, u)

LEMMA BlameSorts ==
    ASSUME TypeOK, NEW rows, NEW list, NEW msgs, NEW ids \in SUBSET Tasks,
           Blame(rows, list, msgs, ids), rows = row', list = cards',
           msgs = wire' \/ wire' = <<>>
    PROVE  Sorts(ids)
  <1>1. blamed' = {t \in blamed \cup ids : ~Faithful(rows, list, t)
            \/ \E i \in DOMAIN msgs : msgs[i].id = t /\ msgs[i].ver # rows[t]}
    BY DEF Blame
  <1>2. blamed' \subseteq Tasks
    BY <1>1 DEF TypeOK
  <1>3. \A t \in blamed \cup ids : t \in blamed' \/ Faithful(row', cards', t)
    BY <1>1
  <1>4. ASSUME NEW i \in DOMAIN wire', wire'[i].id \in blamed \cup ids,
               wire'[i].ver # row'[wire'[i].id]
        PROVE  wire'[i].id \in blamed'
    <2>1. CASE msgs = wire'
      BY <1>1, <1>4, <2>1
    <2>2. CASE wire' = <<>>
      BY <1>4, <2>2
    <2> QED BY <2>1, <2>2
  <1> QED BY <1>2, <1>3, <1>4 DEF Sorts

LEMMA PageForms ==
    ASSUME TypeOK, Stamps
    PROVE  /\ LoadBoard => Loaded
           /\ Connect => Connected
           /\ Drop => Dropped
           /\ PollStep => Polled
           /\ Receive => Took
  <1> USE DEF SameServer, SameStream, SameAsked, server, stream, page
  <1>1. ASSUME LoadBoard PROVE Loaded
    <2>1. UNCHANGED <<server, stream, asked, previous, drops>> /\ link = "loading" /\ link' = "down"
      BY <1>1 DEF LoadBoard
    <2>2. cards' = Snapshot /\ Blame(row, Snapshot, wire, {})
      BY <1>1 DEF LoadBoard, Show, ShowWith, Snapshot
    <2>3. /\ cards' \in Seq(Cards)
          /\ \A t \in Tasks : Faithful(row, cards', t) /\ ~DoubledIn(cards', t)
      BY <2>2, SnapshotShows
    <2>4. Sorts({})
      BY <2>1, <2>2, BlameSorts
    <2> QED BY <2>1, <2>3, <2>4 DEF Loaded
  <1>2. ASSUME Connect PROVE Connected
    <2>1. /\ UNCHANGED <<server, asked, previous, drops>>
          /\ link = "down" /\ link' = "up" /\ seen' = {} /\ wire' = <<>>
          /\ lastSeen' \in Latest(cards)
      BY <1>2 DEF Connect, CanConnect, Open, Since
    <2>2. cards' = cards /\ Blame(row, cards, wire, Skipped)
      BY <1>2 DEF Connect, Show, ShowWith
    <2>3. lastSeen' \in Nat /\ Skipped \in SUBSET Tasks
      BY <2>1, SinceIsTime
    <2>4. Sorts(Skipped)
      BY <2>1, <2>2, <2>3, BlameSorts
    <2> QED BY <2>1, <2>2, <2>3, <2>4 DEF Connected
  <1>3. ASSUME Drop PROVE Dropped
    <2>1. drops \in 0..MaxDrops /\ drops < MaxDrops /\ drops' = drops + 1
      BY <1>3 DEF Drop, TypeOK
    <2>2. drops' \in 0..MaxDrops
      BY <2>1, BoardPageAssumption
    <2> QED BY <1>3, <2>2 DEF Drop, Dropped
  <1>4. ASSUME PollStep PROVE Polled
    <2>1. /\ wire \in Seq([id : Tasks, ver : Nat]) /\ wire' \in Seq([id : Tasks, ver : Nat])
          /\ Len(wire') >= Len(wire)
      BY <1>4, PollSends DEF TypeOK, FeedTypeOK
    <2>2. PICK m \in Nat, n \in Nat : /\ m = Len(wire) /\ n = Len(wire') /\ m <= n
                                     /\ DOMAIN wire = 1..m /\ DOMAIN wire' = 1..n
      BY <2>1
    <2>3. /\ \A i \in DOMAIN wire : i \in DOMAIN wire'
          /\ \A j \in DOMAIN wire' : j > Len(wire) => \A i \in DOMAIN wire : i < j
      BY <2>2
    <2> QED BY <1>4, <2>3, PollSends DEF Polled
  <1>5. ASSUME Receive PROVE Took
    <2>1. wire[1] \in [id : Tasks, ver : Nat] /\ cards' = Merged(cards, wire[1])
          /\ UNCHANGED <<server, lastSeen, seen, link, asked, previous, drops>>
          /\ Blame(row, cards', wire', IF row[wire[1].id] = NoRow THEN {wire[1].id} ELSE {})
      BY <1>5, Received
    <2>2. PICK p \in [id : Tasks, ver : Nat] : p = wire[1]
      BY <2>1
    <2>3. /\ cards' \in Seq(Cards)
          /\ \A u \in Tasks : u # p.id => (Faithful(row, cards', u) <=> Faithful(row, cards, u))
          /\ \A u \in Tasks : DoubledIn(cards', u) <=> DoubledIn(cards, u)
          /\ row[p.id] # NoRow /\ p.ver = row[p.id] =>
                DoubledIn(cards, p.id) \/ Faithful(row, cards', p.id)
      <3>1. cards \in Seq(Cards)
        BY DEF TypeOK
      <3>2. PICK new : new = Merged(cards, p)
        OBVIOUS
      <3>3. /\ new \in Seq(Cards)
            /\ \A u \in Tasks : u # p.id => (Faithful(row, new, u) <=> Faithful(row, cards, u))
            /\ \A u \in Tasks : DoubledIn(new, u) <=> DoubledIn(cards, u)
            /\ ~DoubledIn(cards, p.id) /\ row[p.id] # NoRow /\ p.ver = row[p.id]
                  => Faithful(row, new, p.id)
        BY <3>1, <3>2, MergedList
      <3>4. cards' = new
        BY <2>1, <2>2, <3>2
      <3> QED BY <3>3, <3>4
    <2>4. Sorts(IF row[wire[1].id] = NoRow THEN {wire[1].id} ELSE {})
      <3>1. (IF row[wire[1].id] = NoRow THEN {wire[1].id} ELSE {}) \in SUBSET Tasks
        BY <2>1
      <3> QED BY <2>1, <3>1, BlameSorts
    <2> QED BY <1>5, <2>1, <2>2, <2>3, <2>4, Received DEF Took
  <1> QED BY <1>1, <1>2, <1>3, <1>4, <1>5

LEMMA ServerForms ==
    ASSUME TypeOK, NEW w \in Requests, NEW op \in Kinds, NEW t \in Tasks
    PROVE  /\ Writes(w, op, t) => Wrote(w, op, t)
           /\ Deletes(w, t) => Removed(w, t)
           /\ Logs(w) => \E u \in Tasks, at \in Nat : Logged(w, u, at)
           /\ Refuses(w) => Denied(w)
           /\ Prepares(w, t) => Prepared(w, t)
           /\ Commits(w) => \E u \in Tasks, at \in Nat : Committed(w, u, at)
  <1>1. events \subseteq [id : Tasks, at : Nat] /\ {} \in SUBSET Tasks
    BY DEF TypeOK, FeedTypeOK
  <1>2. ASSUME Frame, req' \in [Requests -> ReqRecords], row' \in [Tasks -> Nat],
               events' \subseteq [id : Tasks, at : Nat]
        PROVE  Served
    BY <1>2 DEF Frame, Served, SameStream, SameAsked, stream
  <1>3. ASSUME Frame, NEW ids \in SUBSET Tasks, Blame(row', cards, wire, ids)
        PROVE  Sorts(ids)
    <2>1. PICK rows : rows = row'
      OBVIOUS
    <2>2. cards' = cards /\ wire' = wire
      BY <1>3 DEF Frame, stream
    <2>3. Blame(rows, cards, wire, ids)
      BY <1>3, <2>1
    <2> QED BY <2>1, <2>2, <2>3, BlameSorts
  <1>4. ASSUME Writes(w, op, t) PROVE Wrote(w, op, t)
    <2>1. Frame /\ Blame(row', cards, wire, {}) /\ Entitled(w, op, t) /\ op \in {"update", "create"}
      BY <1>4 DEF Writes
    <2>2. /\ req' \in [Requests -> ReqRecords] /\ row' \in [Tasks -> Nat]
          /\ clock' = clock + 2 /\ events' = events
          /\ row'[t] = clock + 1 /\ \A u \in Tasks \ {t} : row'[u] = row[u]
          /\ req'[w] = [op |-> op, id |-> t, ver |-> clock + 1, phase |-> "written"]
          /\ \A v \in Requests \ {w} : req'[v] = req[v]
          /\ op = "update" => row[t] # NoRow
      BY <1>4, WritesReq, ZenonT(40)
    <2>3. Served
      BY <1>1, <1>2, <2>1, <2>2
    <2>4. Sorts({})
      BY <1>1, <1>3, <2>1
    <2> QED BY <2>1, <2>2, <2>3, <2>4 DEF Wrote
  <1>5. ASSUME Deletes(w, t) PROVE Removed(w, t)
    <2>1. /\ Frame /\ Entitled(w, "delete", t)
          /\ Blame(row', cards, wire, IF w \in Others /\ In(w, "unsent") THEN {t} ELSE {})
      BY <1>5 DEF Deletes
    <2>2. /\ req' \in [Requests -> ReqRecords] /\ row' \in [Tasks -> Nat] /\ clock' = clock
          /\ row[t] # NoRow /\ row'[t] = NoRow /\ \A u \in Tasks \ {t} : row'[u] = row[u]
          /\ events' = {e \in events : e.id # t}
          /\ req'[w] = [op |-> "delete", id |-> t, ver |-> NoRow, phase |-> "logged"]
          /\ \A v \in Requests \ {w} : req'[v] = req[v]
      BY <1>5, DeletesReq, Zenon
    <2>3. Served
      BY <1>1, <1>2, <2>1, <2>2
    <2>4. Sorts(IF w \in Others /\ In(w, "unsent") THEN {t} ELSE {})
      <3>1. (IF w \in Others /\ In(w, "unsent") THEN {t} ELSE {}) \in SUBSET Tasks
        OBVIOUS
      <3> QED BY <1>3, <2>1, <3>1
    <2> QED BY <2>1, <2>2, <2>3, <2>4 DEF Removed
  <1>6. ASSUME Logs(w) PROVE \E u \in Tasks, at \in Nat : Logged(w, u, at)
    <2>1. Frame /\ Blame(row', cards, wire, IF Late(w) THEN {req[w].id} ELSE {})
      BY <1>6 DEF Logs
    <2>2. /\ req' \in [Requests -> ReqRecords] /\ row' = row /\ clock' = clock
          /\ In(w, "written") /\ req[w].id \in Tasks /\ req[w].ver \in Nat
          /\ \E phase \in {"logged", "refused"} :
                 req'[w] = [op |-> req[w].op, id |-> req[w].id, ver |-> req[w].ver, phase |-> phase]
          /\ \A v \in Requests \ {w} : req'[v] = req[v]
          /\ row[req[w].id] = NoRow => events' = events /\ req'[w].phase = "refused"
          /\ row[req[w].id] # NoRow =>
                 events' = events \cup {[id |-> req[w].id, at |-> req[w].ver + 1]}
                 /\ req'[w].phase = "logged"
      BY <1>6, LogsReq, Zenon
    <2>3. PICK u \in Tasks, at \in Nat : u = req[w].id /\ at = req[w].ver + 1
      BY <2>2
    <2>4. [id |-> u, at |-> at] \in [id : Tasks, at : Nat]
      OBVIOUS
    <2>5. events' \subseteq [id : Tasks, at : Nat] /\ row' \in [Tasks -> Nat]
      BY <1>1, <2>2, <2>3, <2>4 DEF TypeOK, FeedTypeOK
    <2>6. Served
      BY <1>2, <2>1, <2>2, <2>5
    <2>7. Sorts(IF Late(w) THEN {u} ELSE {})
      <3>1. (IF Late(w) THEN {u} ELSE {}) \in SUBSET Tasks
        OBVIOUS
      <3> QED BY <1>3, <2>1, <2>3, <3>1
    <2>8. req'[w].id = u /\ req'[w].op = req[w].op /\ req'[w].ver = req[w].ver
      BY <2>2, <2>3
    <2>9. \/ row[u] = NoRow /\ events' = events /\ req'[w].phase = "refused"
          \/ /\ row[u] # NoRow /\ req'[w].phase = "logged"
             /\ events' = events \cup {[id |-> u, at |-> at]}
      BY <2>2, <2>3
    <2>10. Logged(w, u, at)
      BY <2>2, <2>3, <2>6, <2>7, <2>8, <2>9 DEF Logged
    <2> QED BY <2>10
  <1>7. ASSUME Refuses(w) PROVE Denied(w)
    <2>1. Frame /\ Blame(row', cards, wire, {})
      BY <1>7 DEF Refuses
    <2>2. /\ req' \in [Requests -> ReqRecords] /\ row' = row /\ clock' = clock /\ events' = events
          /\ In(w, "sent") /\ req[w].op # "create"
          /\ req'[w] = [op |-> req[w].op, id |-> req[w].id, ver |-> req[w].ver, phase |-> "refused"]
          /\ \A v \in Requests \ {w} : req'[v] = req[v]
      BY <1>7, RefusesReq, Zenon
    <2>3. Served
      <3>1. row' \in [Tasks -> Nat]
        BY <2>2 DEF TypeOK, FeedTypeOK
      <3> QED BY <1>1, <1>2, <2>1, <2>2, <3>1
    <2>4. Sorts({})
      BY <1>1, <1>3, <2>1
    <2> QED BY <2>2, <2>3, <2>4 DEF Denied
  <1>8. ASSUME Prepares(w, t) PROVE Prepared(w, t)
    <2>1. Frame /\ Blame(row', cards, wire, {}) /\ w \in Others /\ In(w, "unsent")
      BY <1>8 DEF Prepares
    <2>2. /\ req' \in [Requests -> ReqRecords] /\ row' = row /\ clock' = clock + 2
          /\ events' = events /\ row[t] # NoRow
          /\ req'[w] = [op |-> "update", id |-> t, ver |-> clock + 1, phase |-> "stamped"]
          /\ \A v \in Requests \ {w} : req'[v] = req[v]
      BY <1>8, PreparesReq, Zenon
    <2>3. Served
      <3>1. row' \in [Tasks -> Nat]
        BY <2>2 DEF TypeOK, FeedTypeOK
      <3> QED BY <1>1, <1>2, <2>1, <2>2, <3>1
    <2>4. Sorts({})
      BY <1>1, <1>3, <2>1
    <2> QED BY <2>1, <2>2, <2>3, <2>4 DEF Prepared
  <1>9. ASSUME Commits(w) PROVE \E u \in Tasks, at \in Nat : Committed(w, u, at)
    <2>1. Frame /\ Blame(row', cards, wire, IF Late(w) THEN {req[w].id} ELSE {})
      BY <1>9 DEF Commits
    <2>2. /\ req' \in [Requests -> ReqRecords] /\ clock' = clock
          /\ In(w, "stamped") /\ req[w].id \in Tasks /\ req[w].ver \in Nat
          /\ \E phase \in {"logged", "refused"} :
                 req'[w] = [op |-> req[w].op, id |-> req[w].id, ver |-> req[w].ver, phase |-> phase]
          /\ \A v \in Requests \ {w} : req'[v] = req[v]
          /\ row[req[w].id] = NoRow =>
                 row' = row /\ events' = events /\ req'[w].phase = "refused"
          /\ row[req[w].id] # NoRow =>
                 /\ row' = [row EXCEPT ![req[w].id] = req[w].ver]
                 /\ events' = events \cup {[id |-> req[w].id, at |-> req[w].ver + 1]}
                 /\ req'[w].phase = "logged"
      BY <1>9, CommitsReq, ZenonT(40)
    <2>3. PICK u \in Tasks, at \in Nat : u = req[w].id /\ at = req[w].ver + 1
      BY <2>2
    <2>4. [id |-> u, at |-> at] \in [id : Tasks, at : Nat] /\ row \in [Tasks -> Nat]
      BY DEF TypeOK, FeedTypeOK
    <2>5. \/ row[u] = NoRow /\ row' = row /\ events' = events /\ req'[w].phase = "refused"
          \/ /\ row[u] # NoRow /\ req'[w].phase = "logged"
             /\ row' = [row EXCEPT ![u] = req[w].ver]
             /\ events' = events \cup {[id |-> u, at |-> at]}
      BY <2>2, <2>3
    <2>6. events' \subseteq [id : Tasks, at : Nat] /\ row' \in [Tasks -> Nat]
      BY <1>1, <2>2, <2>4, <2>5
    <2>7. Served
      BY <1>2, <2>1, <2>2, <2>6
    <2>8. Sorts(IF Late(w) THEN {u} ELSE {})
      <3>1. (IF Late(w) THEN {u} ELSE {}) \in SUBSET Tasks
        OBVIOUS
      <3> QED BY <1>3, <2>1, <2>3, <3>1
    <2>9. req'[w].id = u /\ req'[w].op = req[w].op /\ req'[w].ver = req[w].ver
      BY <2>2, <2>3
    <2>10. \/ row[u] = NoRow /\ row' = row /\ events' = events /\ req'[w].phase = "refused"
           \/ /\ row[u] # NoRow /\ req'[w].phase = "logged"
              /\ row'[u] = req[w].ver /\ \A v \in Tasks \ {u} : row'[v] = row[v]
              /\ events' = events \cup {[id |-> u, at |-> at]}
      BY <2>4, <2>5
    <2>11. Committed(w, u, at)
      BY <2>2, <2>3, <2>7, <2>8, <2>9, <2>10 DEF Committed
    <2> QED BY <2>11
  <1> QED BY <1>4, <1>5, <1>6, <1>7, <1>8, <1>9

LEMMA AskForms ==
    ASSUME TypeOK, NEW w \in Mine, NEW handler \in Handlers, NEW op \in Kinds, NEW t \in Tasks,
           Asks(w, handler, op, t)
    PROVE  Asked(w, handler, op, t)
  <1>1. /\ req' \in [Requests -> ReqRecords] /\ UNCHANGED <<row, events, clock>>
        /\ In(w, "unsent") /\ IF op = "create" THEN Unused(t) ELSE ~Unused(t)
        /\ req'[w] = [op |-> op, id |-> t, ver |-> 0, phase |-> "sent"]
        /\ \A v \in Requests \ {w} : req'[v] = req[v]
        /\ previous'[w] = (IF handler = "move" THEN cards ELSE <<>>)
        /\ \A v \in Mine \ {w} : previous'[v] = previous[v]
        /\ previous' \in [Mine -> Seq(Cards)]
        /\ asked' \in [Mine -> Handlers] /\ asked'[w] = handler
        /\ \A v \in Mine \ {w} : asked'[v] = asked[v]
        /\ UNCHANGED <<stream, link, drops>> /\ link # "loading" /\ w \in Requests
        /\ cards' \in Seq(Cards) /\ Blame(row, cards', wire, {})
        /\ handler = "move" => op = "update"
        /\ handler = "create" <=> op = "create"
        /\ handler = "delete" <=> op = "delete"
        /\ handler # "move" => cards' = cards
        /\ \A u \in Tasks : u # t => (Faithful(row, cards', u) <=> Faithful(row, cards, u))
        /\ \A u \in Tasks : DoubledIn(cards', u) <=> DoubledIn(cards, u)
    BY AsksReq, Zenon
  <1>2. Sorts({})
    <2>1. PICK list : list = cards'
      OBVIOUS
    <2>2. Blame(row, list, wire, {}) /\ row = row' /\ wire = wire' /\ {} \in SUBSET Tasks
      BY <1>1, <2>1 DEF stream
    <2> QED BY <2>1, <2>2, BlameSorts
  <1>3. SameStream
    BY <1>1 DEF stream, SameStream
  <1> QED BY <1>1, <1>2, <1>3 DEF Asked

LEMMA AnswerForms ==
    ASSUME TypeOK, NEW w \in Mine, NEW ids
    PROVE  /\ Replaces(w, ids) => Replaced(w)
           /\ Settles(w, ids) => Settled(w)
  <1>1. ASSUME Answers(w, ids) PROVE Ended(w) /\ Sorts(ids)
    <2>1. /\ Over(w) /\ Blame(row, cards', wire, ids) /\ ids \in SUBSET Tasks
          /\ cards' \in Seq(Cards) /\ (In(w, "logged") \/ In(w, "refused"))
      BY <1>1 DEF Answers
    <2>2. /\ req' \in [Requests -> ReqRecords] /\ UNCHANGED <<row, events, clock>>
          /\ req'[w] = [op |-> req[w].op, id |-> req[w].id, ver |-> 0, phase |-> "over"]
          /\ \A v \in Requests \ {w} : req'[v] = req[v]
          /\ previous'[w] = <<>> /\ \A v \in Mine \ {w} : previous'[v] = previous[v]
          /\ previous' \in [Mine -> Seq(Cards)]
          /\ UNCHANGED <<stream, link, asked, drops>> /\ w \in Requests
      BY <2>1, OverReq, Zenon
    <2>3. SameStream
      BY <2>2 DEF stream, SameStream
    <2>4. Ended(w)
      BY <2>1, <2>2, <2>3 DEF Ended
    <2>5. Sorts(ids)
      <3>1. PICK list : list = cards'
        OBVIOUS
      <3>2. Blame(row, list, wire, ids) /\ row = row' /\ wire = wire'
        BY <2>1, <2>2, <3>1 DEF stream
      <3> QED BY <2>1, <3>1, <3>2, BlameSorts
    <2> QED BY <2>4, <2>5
  <1>2. ASSUME Replaces(w, ids) PROVE Replaced(w)
    <2>1. Ended(w) /\ Sorts(ids) /\ ids = Spoils(cards') /\ row' = row
      BY <1>1, <1>2 DEF Replaces, Ended
    <2>2. ASSUME NEW t \in Tasks, Faithful(row, cards, t) \/ DoubledIn(cards, t)
          PROVE  t \in blamed' \/ Faithful(row, cards', t)
      <3>1. t \in ids \/ Faithful(row, cards', t)
        BY <2>1, <2>2 DEF Spoils, Doubled, DoubledIn
      <3> QED BY <2>1, <3>1 DEF Sorts
    <2>3. Sorts({})
      BY <2>1 DEF Sorts
    <2> QED BY <1>2, <2>1, <2>2, <2>3 DEF Replaces, Replaced
  <1>3. ASSUME Settles(w, ids) PROVE Settled(w)
    <2>1. Ended(w) /\ Sorts(ids)
      BY <1>1, <1>3 DEF Settles
    <2>2. Sorts({})
      BY <2>1 DEF Sorts
    <2> QED BY <1>3, <2>1, <2>2 DEF Settles, Settled
  <1> QED BY <1>2, <1>3

LEMMA Cases ==
    ASSUME TypeOK, Stamps, Next
    PROVE  \/ Loaded \/ Connected \/ Dropped \/ Polled \/ Took
           \/ \E w \in Requests, op \in Kinds, t \in Tasks : Wrote(w, op, t)
           \/ \E w \in Requests, t \in Tasks : Removed(w, t)
           \/ \E w \in Requests, t \in Tasks, at \in Nat : Logged(w, t, at)
           \/ \E w \in Requests, t \in Tasks : Prepared(w, t)
           \/ \E w \in Requests, t \in Tasks, at \in Nat : Committed(w, t, at)
           \/ \E w \in Requests : Denied(w)
           \/ \E w \in Mine, handler \in Handlers, op \in Kinds, t \in Tasks :
                  Asked(w, handler, op, t)
           \/ \E w \in Mine : Replaced(w) \/ Settled(w)
  <1>1. PICK op \in Kinds, t \in Tasks : TRUE
    BY BoardPageAssumption DEF Kinds
  <1>2. ASSUME NEW w \in Requests, Logs(w) \/ Refuses(w) \/ Commits(w)
        PROVE  \/ Denied(w)
               \/ \E u \in Tasks, at \in Nat : Logged(w, u, at) \/ Committed(w, u, at)
    BY <1>1, <1>2, ServerForms
  <1>3. CASE \E w \in Requests : ServerStep(w)
    <2>1. PICK w \in Requests : ServerStep(w)
      BY <1>3
    <2> QED BY <1>2, <2>1, ServerCases, ServerForms, <1>1
  <1>4. CASE \E w \in Others, o \in Kinds, u \in Tasks : OtherStep(w, o, u)
    <2>1. PICK w \in Others, o \in Kinds, u \in Tasks : OtherStep(w, o, u)
      BY <1>4
    <2>2. w \in Requests
      BY DEF Others
    <2>3. Writes(w, o, u) \/ Deletes(w, u) \/ Prepares(w, u)
      BY <2>1, <2>2, ServerCases
    <2> QED BY <2>2, <2>3, ServerForms
  <1>5. CASE \E w \in Mine, u \in Tasks : UserStep(w, u)
    <2>1. PICK w \in Mine, u \in Tasks : UserStep(w, u)
      BY <1>5
    <2>2. PICK handler \in Handlers, o \in Kinds : Asks(w, handler, o, u)
      BY <2>1, UserCases
    <2>3. Asked(w, handler, o, u)
      BY <2>2, AskForms
    <2> QED BY <2>3
  <1>6. CASE \E w \in Mine : AnswerStep(w)
    <2>1. PICK w \in Mine : AnswerStep(w)
      BY <1>6
    <2> QED BY <2>1, AnswerCases, AnswerForms
  <1> QED BY <1>3, <1>4, <1>5, <1>6, PageForms DEF Next

-----------------------------------------------------------------------------
LEMMA TypeParts ==
    TypeOK <=>
        /\ row \in [Tasks -> Nat] /\ events \subseteq [id : Tasks, at : Nat] /\ clock \in Nat
        /\ req \in [Requests -> ReqRecords] /\ lastSeen \in Nat /\ seen \subseteq Nat
        /\ wire \in Seq([id : Tasks, ver : Nat]) /\ cards \in Seq(Cards)
        /\ link \in {"loading", "down", "up"} /\ asked \in [Mine -> Handlers]
        /\ previous \in [Mine -> Seq(Cards)]
        /\ \A w \in Mine : previous[w] # <<>> => asked[w] = "move" /\ req[w].phase # "over"
        /\ drops \in 0..MaxDrops /\ blamed \subseteq Tasks
  BY DEF TypeOK, FeedTypeOK, In

LEMMA TypeStep ==
    ASSUME TypeOK, Stamps, [Next]_vars
    PROVE  TypeOK'
  <1>0. /\ row \in [Tasks -> Nat] /\ events \subseteq [id : Tasks, at : Nat] /\ clock \in Nat
        /\ req \in [Requests -> ReqRecords] /\ lastSeen \in Nat /\ seen \subseteq Nat
        /\ wire \in Seq([id : Tasks, ver : Nat]) /\ cards \in Seq(Cards)
        /\ link \in {"loading", "down", "up"} /\ asked \in [Mine -> Handlers]
        /\ previous \in [Mine -> Seq(Cards)]
        /\ \A w \in Mine : previous[w] # <<>> => asked[w] = "move" /\ req[w].phase # "over"
        /\ drops \in 0..MaxDrops /\ blamed \subseteq Tasks
        /\ Mine \subseteq Requests
    BY BoardPageAssumption, TypeParts
  <1>t. ASSUME
         /\ row' \in [Tasks -> Nat] /\ events' \subseteq [id : Tasks, at : Nat] /\ clock' \in Nat
         /\ req' \in [Requests -> ReqRecords] /\ lastSeen' \in Nat /\ seen' \subseteq Nat
         /\ wire' \in Seq([id : Tasks, ver : Nat]) /\ cards' \in Seq(Cards)
         /\ link' \in {"loading", "down", "up"} /\ asked' \in [Mine -> Handlers]
         /\ previous' \in [Mine -> Seq(Cards)]
         /\ \A w \in Mine : previous'[w] # <<>> => asked'[w] = "move" /\ req'[w].phase # "over"
         /\ drops' \in 0..MaxDrops /\ blamed' \subseteq Tasks
        PROVE TypeOK'
    BY <1>t DEF TypeOK, FeedTypeOK, In
  <1>p. ASSUME SameAsked, \A v \in Mine : req'[v].phase = "over" => req[v].phase = "over"
        PROVE  \A w \in Mine : previous'[w] # <<>> => asked'[w] = "move" /\ req'[w].phase # "over"
    BY <1>0, <1>p DEF SameAsked
  <1>1. CASE Loaded
    <2>1. blamed' \subseteq Tasks
      BY <1>1 DEF Loaded, Sorts
    <2> QED BY <1>0, <1>1, <1>t, <2>1 DEF Loaded, SameServer, SameStream, SameAsked
  <1>2. CASE Connected
    <2>1. blamed' \subseteq Tasks
      BY <1>2 DEF Connected, Sorts
    <2>2. <<>> \in Seq([id : Tasks, ver : Nat])
      OBVIOUS
    <2> QED BY <1>0, <1>2, <1>t, <2>1, <2>2 DEF Connected, SameServer, SameAsked
  <1>3. CASE Dropped
    <2>1. <<>> \in Seq([id : Tasks, ver : Nat])
      OBVIOUS
    <2> QED BY <1>0, <1>3, <1>t, <2>1 DEF Dropped, SameServer, SameAsked
  <1>4. CASE Polled
    BY <1>0, <1>4, <1>t DEF Polled, SameServer, SameAsked
  <1>5. CASE Took
    <2>1. blamed' \subseteq Tasks
      BY <1>5 DEF Took, Sorts
    <2> QED BY <1>0, <1>5, <1>t, <2>1 DEF Took, SameServer, SameAsked
  <1>s. ASSUME Served, blamed' \subseteq Tasks, clock' \in Nat,
               \A v \in Requests : req'[v].phase = "over" => req[v].phase = "over"
        PROVE  TypeOK'
    <2>1. \A w \in Mine : previous'[w] # <<>> => asked'[w] = "move" /\ req'[w].phase # "over"
      BY <1>0, <1>p, <1>s DEF Served
    <2> QED BY <1>0, <1>s, <1>t, <2>1 DEF Served, SameStream, SameAsked
  <1>6. ASSUME NEW w \in Requests, NEW op \in Kinds, NEW t \in Tasks, Wrote(w, op, t)
        PROVE  TypeOK'
    <2>1. Served /\ blamed' \subseteq Tasks /\ clock' \in Nat
      BY <1>0, <1>6 DEF Wrote, Sorts
    <2>2. \A v \in Requests : req'[v].phase = "over" => req[v].phase = "over"
      BY <1>6 DEF Wrote
    <2> QED BY <1>s, <2>1, <2>2
  <1>7. ASSUME NEW w \in Requests, NEW t \in Tasks, Removed(w, t)
        PROVE  TypeOK'
    <2>1. Served /\ blamed' \subseteq Tasks /\ clock' \in Nat
      BY <1>0, <1>7 DEF Removed, Sorts
    <2>2. \A v \in Requests : req'[v].phase = "over" => req[v].phase = "over"
      BY <1>7 DEF Removed
    <2> QED BY <1>s, <2>1, <2>2
  <1>8. ASSUME NEW w \in Requests, NEW t \in Tasks, NEW at \in Nat, Logged(w, t, at)
        PROVE  TypeOK'
    <2>1. Served /\ blamed' \subseteq Tasks /\ clock' \in Nat
      BY <1>0, <1>8 DEF Logged, Sorts
    <2>2. \A v \in Requests : req'[v].phase = "over" => req[v].phase = "over"
      BY <1>8 DEF Logged
    <2> QED BY <1>s, <2>1, <2>2
  <1>9. ASSUME NEW w \in Requests, Denied(w)
        PROVE  TypeOK'
    <2>1. Served /\ blamed' \subseteq Tasks /\ clock' \in Nat
      BY <1>0, <1>9 DEF Denied, Sorts
    <2>2. \A v \in Requests : req'[v].phase = "over" => req[v].phase = "over"
      BY <1>9 DEF Denied
    <2> QED BY <1>s, <2>1, <2>2
  <1>10. ASSUME NEW w \in Mine, NEW handler \in Handlers, NEW op \in Kinds, NEW t \in Tasks,
                Asked(w, handler, op, t)
         PROVE  TypeOK'
    <2>1. blamed' \subseteq Tasks
      BY <1>10 DEF Asked, Sorts
    <2>2. \A v \in Mine : previous'[v] # <<>> => asked'[v] = "move" /\ req'[v].phase # "over"
      BY <1>0, <1>10 DEF Asked
    <2> QED BY <1>0, <1>10, <1>t, <2>1, <2>2 DEF Asked, SameStream
  <1>11. ASSUME NEW w \in Mine, Replaced(w) \/ Settled(w)
         PROVE  TypeOK'
    <2>1. Ended(w) /\ blamed' \subseteq Tasks
      BY <1>11 DEF Replaced, Settled, Sorts
    <2>3. \A v \in Mine : previous'[v] # <<>> => asked'[v] = "move" /\ req'[v].phase # "over"
      BY <1>0, <2>1 DEF Ended
    <2> QED BY <1>0, <1>t, <2>1, <2>3 DEF Ended, SameStream
  <1>12. CASE UNCHANGED vars
    BY <1>0, <1>12, <1>t DEF server, stream, page, vars
  <1>13. ASSUME NEW w \in Requests, NEW t \in Tasks, Prepared(w, t)
         PROVE  TypeOK'
    <2>1. Served /\ blamed' \subseteq Tasks /\ clock' \in Nat
      BY <1>0, <1>13 DEF Prepared, Sorts
    <2>2. \A v \in Requests : req'[v].phase = "over" => req[v].phase = "over"
      BY <1>13 DEF Prepared
    <2> QED BY <1>s, <2>1, <2>2
  <1>14. ASSUME NEW w \in Requests, NEW t \in Tasks, NEW at \in Nat, Committed(w, t, at)
         PROVE  TypeOK'
    <2>1. Served /\ blamed' \subseteq Tasks /\ clock' \in Nat
      BY <1>0, <1>14 DEF Committed, Sorts
    <2>2. \A v \in Requests : req'[v].phase = "over" => req[v].phase = "over"
      BY <1>14 DEF Committed
    <2> QED BY <1>s, <2>1, <2>2
  <1> QED BY <1>1, <1>2, <1>3, <1>4, <1>5, <1>6, <1>7, <1>8, <1>9, <1>10, <1>11, <1>12, <1>13,
             <1>14, Cases

LEMMA StampsStep ==
    ASSUME TypeOK, Stamps, [Next]_vars
    PROVE  Stamps'
  <1>0. /\ clock \in Nat /\ \A w \in Requests : req[w].ver \in Nat
        /\ (\A e \in events : e.at \in Nat) /\ seen \subseteq Nat
    BY DEF TypeOK, FeedTypeOK, ReqRecords
  <1>i. /\ \A w \in Requests : req[w].phase \in Due =>
              /\ req[w].ver > 0 /\ req[w].ver + 1 <= clock /\ req[w].ver + 1 \notin seen
              /\ \A e \in events : e.at # req[w].ver + 1
              /\ \A v \in Requests \ {w} : req[v].phase \in Due => req[v].ver # req[w].ver
        /\ IsFiniteSet(events) /\ (\A e \in events : e.at <= clock)
        /\ \A n \in seen : n <= clock
    BY DEF Stamps
  <1>q. ASSUME clock' = clock, events' \in SUBSET events,
               \A v \in Requests : req'[v].phase \in Due => req'[v] = req[v],
               \A n \in seen' : n \in seen \/ \E e \in events : n = e.at
        PROVE  Stamps'
    <2>1. IsFiniteSet(events')
      BY <1>i, <1>q, FS_Subset
    <2>2. ASSUME NEW w \in Requests, req'[w].phase \in Due
          PROVE  /\ req'[w].ver > 0 /\ req'[w].ver + 1 <= clock' /\ req'[w].ver + 1 \notin seen'
                 /\ \A e \in events' : e.at # req'[w].ver + 1
                 /\ \A v \in Requests \ {w} : req'[v].phase \in Due => req'[v].ver # req'[w].ver
      BY <1>i, <1>q, <2>2
    <2>3. (\A e \in events' : e.at <= clock') /\ \A n \in seen' : n <= clock'
      BY <1>i, <1>q
    <2> QED BY <2>1, <2>2, <2>3 DEF Stamps
  <1>1. CASE Loaded \/ Connected \/ Dropped \/ Polled \/ Took
    BY <1>1, <1>q DEF Loaded, Connected, Dropped, Polled, Took, SameServer, SameStream
  <1>2. ASSUME NEW w \in Requests, NEW op \in Kinds, NEW t \in Tasks, Wrote(w, op, t) \/ Prepared(w, t)
        PROVE  Stamps'
    <2>1. /\ clock' = clock + 2 /\ events' = events /\ seen' = seen
          /\ req'[w].ver = clock + 1 /\ \A v \in Requests \ {w} : req'[v] = req[v]
      BY <1>2 DEF Wrote, Prepared, Served, SameStream
    <2>2. (\A e \in events' : e.at <= clock) /\ (\A n \in seen' : n <= clock)
      BY <1>i, <2>1
    <2>3. ASSUME NEW v \in Requests \ {w}, req'[v].phase \in Due
          PROVE  /\ req[v].phase \in Due /\ req'[v] = req[v] /\ req[v].ver + 1 <= clock
                 /\ req[v].ver \in Nat
      BY <1>0, <1>i, <2>1, <2>3
    <2>4. ASSUME NEW v \in Requests, req'[v].phase \in Due
          PROVE  /\ req'[v].ver > 0 /\ req'[v].ver + 1 <= clock' /\ req'[v].ver + 1 \notin seen'
                 /\ \A e \in events' : e.at # req'[v].ver + 1
                 /\ \A u \in Requests \ {v} : req'[u].phase \in Due => req'[u].ver # req'[v].ver
      <3>1. CASE v = w
        <4>1. req'[v].ver + 1 = clock + 2
          BY <1>0, <2>1, <3>1
        <4>2. /\ req'[v].ver > 0 /\ req'[v].ver + 1 <= clock' /\ req'[v].ver + 1 \notin seen'
              /\ \A e \in events' : e.at # req'[v].ver + 1
          BY <1>0, <2>1, <2>2, <4>1
        <4>3. \A u \in Requests \ {v} : req'[u].phase \in Due => req'[u].ver # req'[v].ver
          BY <1>0, <2>1, <2>3, <3>1
        <4> QED BY <4>2, <4>3
      <3>2. CASE v # w
        <4>1. req'[v] = req[v] /\ req[v].phase \in Due /\ req[v].ver + 1 <= clock /\ req[v].ver \in Nat
          BY <2>3, <2>4, <3>2
        <4>2. /\ req'[v].ver > 0 /\ req'[v].ver + 1 <= clock' /\ req'[v].ver + 1 \notin seen'
              /\ \A e \in events' : e.at # req'[v].ver + 1
          BY <1>0, <1>i, <2>1, <4>1
        <4>3. req'[w].ver # req'[v].ver
          BY <1>0, <2>1, <4>1
        <4>4. \A u \in Requests \ {v} : req'[u].phase \in Due => req'[u].ver # req'[v].ver
          BY <1>i, <2>3, <3>2, <4>1, <4>3
        <4> QED BY <4>2, <4>4
      <3> QED BY <3>1, <3>2
    <2>5. (\A e \in events' : e.at <= clock') /\ \A n \in seen' : n <= clock'
      <3>1. \A n \in Nat : n <= clock => n <= clock'
        BY <1>0, <2>1
      <3>2. \A e \in events' : e.at \in Nat
        BY <1>0, <2>1
      <3>3. \A n \in seen' : n \in Nat
        BY <1>0, <2>1
      <3> QED BY <2>2, <3>1, <3>2, <3>3
    <2> QED BY <1>i, <2>1, <2>4, <2>5 DEF Stamps
  <1>3. ASSUME NEW w \in Requests, NEW t \in Tasks, Removed(w, t)
        PROVE  Stamps'
    <2>1. events' \in SUBSET events
      BY <1>3 DEF Removed
    <2>2. \A v \in Requests : req'[v].phase \in Due => req'[v] = req[v]
      BY <1>3 DEF Removed, Due
    <2> QED BY <1>3, <1>q, <2>1, <2>2 DEF Removed, Served, SameStream
  <1>4. ASSUME NEW w \in Requests, NEW t \in Tasks, NEW at \in Nat,
               Logged(w, t, at) \/ Committed(w, t, at)
        PROVE  Stamps'
    <2>1. /\ clock' = clock /\ seen' = seen /\ req[w].phase \in Due /\ at = req[w].ver + 1
          /\ \A v \in Requests : req'[v].phase \in Due => v # w /\ req'[v] = req[v]
          /\ events' \in SUBSET (events \cup {[id |-> t, at |-> at]})
      BY <1>4 DEF Logged, Committed, Served, SameStream, In, Due
    <2>2. IsFiniteSet(events')
      <3>1. IsFiniteSet(events \cup {[id |-> t, at |-> at]})
        BY <1>i, FS_AddElement
      <3> QED BY <2>1, <3>1, FS_Subset
    <2>3. \A e \in events' : e \in events \/ e.at = at
      BY <2>1
    <2>4. ASSUME NEW v \in Requests, req'[v].phase \in Due
          PROVE  /\ req'[v].ver > 0 /\ req'[v].ver + 1 <= clock' /\ req'[v].ver + 1 \notin seen'
                 /\ \A e \in events' : e.at # req'[v].ver + 1
                 /\ \A u \in Requests \ {v} : req'[u].phase \in Due => req'[u].ver # req'[v].ver
      <3>1. v # w /\ req'[v] = req[v] /\ req[v].phase \in Due
        BY <2>1, <2>4
      <3>2. at # req[v].ver + 1
        BY <1>0, <1>i, <2>1, <3>1
      <3>3. \A e \in events' : e.at # req'[v].ver + 1
        BY <1>i, <2>3, <3>1, <3>2
      <3>4. req'[v].ver > 0 /\ req'[v].ver + 1 <= clock' /\ req'[v].ver + 1 \notin seen'
        BY <1>i, <2>1, <3>1
      <3>5. \A u \in Requests \ {v} : req'[u].phase \in Due => req'[u].ver # req'[v].ver
        BY <1>i, <2>1, <3>1
      <3> QED BY <3>3, <3>4, <3>5
    <2>5. (\A e \in events' : e.at <= clock') /\ \A n \in seen' : n <= clock'
      BY <1>i, <2>1, <2>3
    <2> QED BY <2>2, <2>4, <2>5 DEF Stamps
  <1>5. ASSUME NEW w \in Requests, Denied(w)
        PROVE  Stamps'
    <2>1. \A v \in Requests : req'[v].phase \in Due => req'[v] = req[v]
      BY <1>5 DEF Denied, Due
    <2> QED BY <1>5, <1>q, <2>1 DEF Denied, Served, SameStream
  <1>6. ASSUME NEW w \in Mine, NEW handler \in Handlers, NEW op \in Kinds, NEW t \in Tasks,
               Asked(w, handler, op, t)
        PROVE  Stamps'
    <2>1. \A v \in Requests : req'[v].phase \in Due => req'[v] = req[v]
      BY <1>6 DEF Asked, Due
    <2> QED BY <1>6, <1>q, <2>1 DEF Asked, SameStream
  <1>7. ASSUME NEW w \in Mine, Replaced(w) \/ Settled(w)
        PROVE  Stamps'
    <2>1. Ended(w)
      BY <1>7 DEF Replaced, Settled
    <2>2. \A v \in Requests : req'[v].phase \in Due => req'[v] = req[v]
      BY <2>1 DEF Ended, Due
    <2> QED BY <1>q, <2>1, <2>2 DEF Ended, SameStream
  <1>8. CASE UNCHANGED vars
    BY <1>8, <1>q DEF vars, server, stream
  <1>9. PICK op \in Kinds : TRUE
    BY DEF Kinds
  <1> QED BY <1>1, <1>2, <1>3, <1>4, <1>5, <1>6, <1>7, <1>8, <1>9, Cases

(* A request keeps its task once it has named one. *)
LEMMA NamedStep ==
    ASSUME TypeOK, Stamps, [Next]_vars
    PROVE  \A v \in Requests : req[v].phase # "unsent" =>
               req'[v].id = req[v].id /\ req'[v].phase # "unsent"
  <1>1. CASE Loaded \/ Connected \/ Dropped \/ Polled \/ Took
    BY <1>1 DEF Loaded, Connected, Dropped, Polled, Took, SameServer
  <1>2. ASSUME NEW w \in Requests, NEW op \in Kinds, NEW t \in Tasks, Wrote(w, op, t)
        PROVE  \A v \in Requests : req[v].phase # "unsent" =>
                   req'[v].id = req[v].id /\ req'[v].phase # "unsent"
    <2>1. req[w].phase # "unsent" => req[w].id = t
      BY <1>2 DEF Wrote, Entitled, In
    <2> QED BY <1>2, <2>1 DEF Wrote
  <1>3. ASSUME NEW w \in Requests, NEW t \in Tasks, Removed(w, t)
        PROVE  \A v \in Requests : req[v].phase # "unsent" =>
                   req'[v].id = req[v].id /\ req'[v].phase # "unsent"
    <2>1. req[w].phase # "unsent" => req[w].id = t
      BY <1>3 DEF Removed, Entitled, In
    <2> QED BY <1>3, <2>1 DEF Removed
  <1>4. ASSUME NEW w \in Requests, NEW t \in Tasks, NEW at \in Nat, Logged(w, t, at)
        PROVE  \A v \in Requests : req[v].phase # "unsent" =>
                   req'[v].id = req[v].id /\ req'[v].phase # "unsent"
    <2>1. req'[w].phase # "unsent" /\ req'[w].id = req[w].id
      BY <1>4 DEF Logged
    <2> QED BY <1>4, <2>1 DEF Logged
  <1>5. ASSUME NEW w \in Requests, Denied(w)
        PROVE  \A v \in Requests : req[v].phase # "unsent" =>
                   req'[v].id = req[v].id /\ req'[v].phase # "unsent"
    BY <1>5 DEF Denied
  <1>6. ASSUME NEW w \in Mine, NEW handler \in Handlers, NEW op \in Kinds, NEW t \in Tasks,
               Asked(w, handler, op, t)
        PROVE  \A v \in Requests : req[v].phase # "unsent" =>
                   req'[v].id = req[v].id /\ req'[v].phase # "unsent"
    <2>1. req[w].phase = "unsent"
      BY <1>6 DEF Asked, In
    <2> QED BY <1>6, <2>1 DEF Asked
  <1>7. ASSUME NEW w \in Mine, Replaced(w) \/ Settled(w)
        PROVE  \A v \in Requests : req[v].phase # "unsent" =>
                   req'[v].id = req[v].id /\ req'[v].phase # "unsent"
    <2>1. Ended(w)
      BY <1>7 DEF Replaced, Settled
    <2> QED BY <2>1 DEF Ended
  <1>8. CASE UNCHANGED vars
    BY <1>8 DEF vars, server
  <1>9. ASSUME NEW w \in Requests, NEW t \in Tasks, Prepared(w, t)
        PROVE  \A v \in Requests : req[v].phase # "unsent" =>
                   req'[v].id = req[v].id /\ req'[v].phase # "unsent"
    <2>1. req[w].phase = "unsent"
      BY <1>9 DEF Prepared, In
    <2> QED BY <1>9, <2>1 DEF Prepared
  <1>10. ASSUME NEW w \in Requests, NEW t \in Tasks, NEW at \in Nat, Committed(w, t, at)
         PROVE  \A v \in Requests : req[v].phase # "unsent" =>
                    req'[v].id = req[v].id /\ req'[v].phase # "unsent"
    <2>1. req'[w].phase # "unsent" /\ req'[w].id = req[w].id
      BY <1>10 DEF Committed
    <2> QED BY <1>10, <2>1 DEF Committed
  <1> QED BY <1>1, <1>2, <1>3, <1>4, <1>5, <1>6, <1>7, <1>8, <1>9, <1>10, Cases

LEMMA TracesStep ==
    ASSUME TypeOK, Stamps, Traces, Tracked, [Next]_vars
    PROVE  Traces'
  <1>0. /\ \A e \in events : e.id \in Tasks
        /\ \A i \in DOMAIN wire : wire[i].id \in Tasks
        /\ row \in [Tasks -> Nat]
    <2>1. PICK S : S = [id : Tasks, ver : Nat]
      OBVIOUS
    <2>2. wire \in Seq(S)
      BY <2>1 DEF TypeOK, FeedTypeOK
    <2>3. \A i \in DOMAIN wire : wire[i] \in S
      BY <2>2
    <2> QED BY <2>1, <2>3 DEF TypeOK, FeedTypeOK
  <1>i. /\ \A e \in events : row[e.id] # NoRow /\ Touched(req, e.id)
        /\ \A i \in DOMAIN wire :
            /\ wire[i].ver # NoRow /\ Touched(req, wire[i].id)
            /\ row[wire[i].id] # NoRow => Announced(wire[i].id)
        /\ link # "up" => wire = <<>>
    BY DEF Traces
  <1>t. \A t \in Tasks : Touched(req, t) => Touched(req', t)
    BY NamedStep DEF Touched
  <1>e. ASSUME \A e \in events' : e \in events \/ (row'[e.id] # NoRow /\ Touched(req', e.id)),
               \A e \in events : e \in events' => row'[e.id] # NoRow
        PROVE  \A e \in events' : row'[e.id] # NoRow /\ Touched(req', e.id)
    BY <1>0, <1>i, <1>t, <1>e
  <1>s. ASSUME SameServer,
               \A i \in DOMAIN wire' : \/ \E j \in DOMAIN wire : wire'[i] = wire[j]
                                       \/ \E e \in events : wire'[i] = Payload(e),
               link' # "up" => wire' = <<>>
        PROVE  Traces'
    <2>1. \A e \in events' : row'[e.id] # NoRow /\ Touched(req', e.id)
      BY <1>e, <1>i, <1>s DEF SameServer
    <2>2. ASSUME NEW i \in DOMAIN wire'
          PROVE  /\ wire'[i].ver # NoRow /\ Touched(req', wire'[i].id)
                 /\ row'[wire'[i].id] # NoRow => \E e \in events' : e.id = wire'[i].id
      <3>1. CASE \E j \in DOMAIN wire : wire'[i] = wire[j]
        BY <1>0, <1>i, <1>s, <1>t, <3>1 DEF SameServer, Announced
      <3>2. CASE \E e \in events : wire'[i] = Payload(e)
        <4>1. PICK e \in events : wire'[i] = Payload(e)
          BY <3>2
        <4>2. wire'[i].id = e.id /\ wire'[i].ver = row[e.id]
          BY <4>1 DEF Payload
        <4> QED BY <1>0, <1>i, <1>s, <1>t, <4>2 DEF SameServer
      <3> QED BY <1>s, <2>2, <3>1, <3>2
    <2> QED BY <1>s, <2>1, <2>2 DEF Traces, Announced
  <1>1. CASE Loaded
    BY <1>1, <1>i, <1>s DEF Loaded, SameStream
  <1>2. CASE Connected
    BY <1>2, <1>s DEF Connected
  <1>3. CASE Dropped
    BY <1>3, <1>s DEF Dropped
  <1>4. CASE Polled
    BY <1>4, <1>i, <1>s DEF Polled, Unsent
  <1>5. CASE Took
    BY <1>5, <1>i, <1>s DEF Took
  <1>v. ASSUME Served, \A e \in events' : row'[e.id] # NoRow /\ Touched(req', e.id),
               \A i \in DOMAIN wire : row'[wire[i].id] # NoRow =>
                   row[wire[i].id] # NoRow /\ \A e \in events : e.id = wire[i].id => e \in events'
        PROVE  Traces'
    <2>1. wire' = wire /\ link' = link
      BY <1>v DEF Served, SameStream
    <2>2. ASSUME NEW i \in DOMAIN wire
          PROVE  /\ wire[i].ver # NoRow /\ Touched(req', wire[i].id)
                 /\ row'[wire[i].id] # NoRow => \E e \in events' : e.id = wire[i].id
      BY <1>0, <1>i, <1>t, <1>v, <2>2 DEF Announced
    <2> QED BY <1>i, <1>v, <2>1, <2>2 DEF Traces, Announced
  <1>6. ASSUME NEW w \in Requests, NEW op \in Kinds, NEW t \in Tasks, Wrote(w, op, t)
        PROVE  Traces'
    <2>1. /\ Served /\ Entitled(w, op, t) /\ op \in {"update", "create"}
          /\ events' = events /\ row'[t] = clock + 1 /\ \A u \in Tasks \ {t} : row'[u] = row[u]
          /\ op = "update" => row[t] # NoRow
      BY <1>6 DEF Wrote
    <2>2. row'[t] # NoRow
      BY <2>1 DEF TypeOK, FeedTypeOK, NoRow
    <2>3. \A e \in events' : row'[e.id] # NoRow /\ Touched(req', e.id)
      BY <1>0, <1>i, <1>t, <2>1, <2>2
    <2>4. ASSUME NEW i \in DOMAIN wire, wire[i].id = t
          PROVE  row[t] # NoRow
      <3>1. CASE op = "create" /\ In(w, "sent")
        BY <2>1, <2>4, <3>1 DEF Entitled, Tracked, Unborn, In
      <3>2. CASE op = "create" /\ ~In(w, "sent")
        <4>1. Unused(t)
          BY <2>1, <3>2 DEF Entitled
        <4> QED BY <1>i, <2>4, <4>1 DEF Unused, Touched, In
      <3> QED BY <2>1, <3>1, <3>2
    <2>5. \A i \in DOMAIN wire : row'[wire[i].id] # NoRow => row[wire[i].id] # NoRow
      BY <1>0, <2>1, <2>4
    <2> QED BY <1>v, <2>1, <2>3, <2>5
  <1>7. ASSUME NEW w \in Requests, NEW t \in Tasks, Removed(w, t)
        PROVE  Traces'
    <2>1. /\ Served /\ row'[t] = NoRow /\ \A u \in Tasks \ {t} : row'[u] = row[u]
          /\ events' = {e \in events : e.id # t}
      BY <1>7 DEF Removed
    <2>2. \A e \in events' : row'[e.id] # NoRow /\ Touched(req', e.id)
      BY <1>0, <1>i, <1>t, <2>1
    <2>3. \A i \in DOMAIN wire : row'[wire[i].id] # NoRow =>
                   row[wire[i].id] # NoRow /\ \A e \in events : e.id = wire[i].id => e \in events'
      BY <1>0, <2>1
    <2> QED BY <1>v, <2>1, <2>2, <2>3
  <1>8. ASSUME NEW w \in Requests, NEW t \in Tasks, NEW at \in Nat, Logged(w, t, at)
        PROVE  Traces'
    <2>1. Served /\ row' = row /\ events \subseteq events'
      BY <1>8 DEF Logged
    <2>2. \A e \in events' : e \in events \/ (row'[e.id] # NoRow /\ Touched(req', e.id))
      <3>1. Touched(req', t)
        BY <1>8 DEF Touched, Logged
      <3>2. ASSUME NEW e \in events', e \notin events PROVE e.id = t /\ row[t] # NoRow
        BY <1>8, <3>2 DEF Logged
      <3> QED BY <2>1, <3>1, <3>2
    <2>3. \A e \in events' : row'[e.id] # NoRow /\ Touched(req', e.id)
      BY <1>e, <1>i, <2>1, <2>2
    <2> QED BY <1>v, <2>1, <2>3
  <1>9. ASSUME NEW w \in Requests, Denied(w)
        PROVE  Traces'
    <2>1. Served /\ row' = row /\ events = events'
      BY <1>9 DEF Denied
    <2>3. \A e \in events' : row'[e.id] # NoRow /\ Touched(req', e.id)
      BY <1>e, <1>i, <2>1
    <2> QED BY <1>v, <2>1, <2>3
  <1>a. ASSUME row' = row, events' = events, SameStream, link' = link
        PROVE  Traces'
    <2>1. \A e \in events' : row'[e.id] # NoRow /\ Touched(req', e.id)
      BY <1>e, <1>i, <1>a
    <2>2. \A i \in DOMAIN wire' : Touched(req', wire'[i].id)
      BY <1>0, <1>a, <1>i, <1>t DEF SameStream
    <2> QED BY <1>a, <1>i, <2>1, <2>2 DEF Traces, Announced, SameStream
  <1>10. ASSUME NEW w \in Mine, NEW handler \in Handlers, NEW op \in Kinds, NEW t \in Tasks,
               Asked(w, handler, op, t)
         PROVE  Traces'
    BY <1>10, <1>a DEF Asked
  <1>11. ASSUME NEW w \in Mine, Replaced(w) \/ Settled(w)
         PROVE  Traces'
    BY <1>11, <1>a DEF Ended, Replaced, Settled
  <1>12. CASE UNCHANGED vars
    BY <1>12, <1>a DEF vars, server, stream, page, SameStream
  <1>13. ASSUME NEW w \in Requests, NEW t \in Tasks, Prepared(w, t)
         PROVE  Traces'
    <2>1. Served /\ row' = row /\ events = events'
      BY <1>13 DEF Prepared
    <2>2. \A e \in events' : row'[e.id] # NoRow /\ Touched(req', e.id)
      BY <1>e, <1>i, <2>1
    <2> QED BY <1>v, <2>1, <2>2
  <1>14. ASSUME NEW w \in Requests, NEW t \in Tasks, NEW at \in Nat, Committed(w, t, at)
         PROVE  Traces'
    <2>1. /\ Served /\ events \subseteq events' /\ t \in Tasks
          /\ \A u \in Tasks : row'[u] # NoRow <=> row[u] # NoRow
      BY <1>14 DEF Committed, Stamps, Due, In, NoRow
    <2>2. \A e \in events' : e \in events \/ (row'[e.id] # NoRow /\ Touched(req', e.id))
      <3>1. Touched(req', t)
        BY <1>14 DEF Touched, Committed
      <3>2. ASSUME NEW e \in events', e \notin events PROVE e.id = t /\ row[t] # NoRow
        BY <1>14, <3>2 DEF Committed
      <3> QED BY <2>1, <3>1, <3>2
    <2>3. \A e \in events' : row'[e.id] # NoRow /\ Touched(req', e.id)
      BY <1>0, <1>e, <1>i, <2>1, <2>2
    <2> QED BY <1>0, <1>v, <2>1, <2>3
  <1> QED BY <1>1, <1>2, <1>3, <1>4, <1>5, <1>6, <1>7, <1>8, <1>9, <1>10, <1>11, <1>12, <1>13,
             <1>14, Cases

LEMMA TrackedStep ==
    ASSUME TypeOK, Stamps, Traces, Tracked, [Next]_vars
    PROVE  Tracked'
  <1>0. row \in [Tasks -> Nat] /\ Mine \subseteq Requests /\ NoRow = 0 /\ clock \in Nat
        /\ \A v \in Requests : req[v].id \in Tasks
    BY BoardPageAssumption DEF TypeOK, FeedTypeOK, NoRow, ReqRecords
  <1>i. \A w \in Requests : Matches(w) /\ Unborn(w)
    BY DEF Tracked
  <1>t. SUFFICES ASSUME NEW v \in Requests PROVE Matches(v)' /\ Unborn(v)'
    BY DEF Tracked
  (* A step that leaves the requests and the rows alone. *)
  <1>s. ASSUME SameServer, asked' = asked,
               \A i \in DOMAIN wire' : \/ \E j \in DOMAIN wire : wire'[i] = wire[j]
                                       \/ \E e \in events : wire'[i] = Payload(e)
        PROVE  Matches(v)' /\ Unborn(v)'
    <2>1. Matches(v)'
      BY <1>i, <1>s DEF SameServer, Matches, In
    <2>2. ASSUME NEW i \in DOMAIN wire', row[req[v].id] = NoRow,
                 \A j \in DOMAIN wire : wire[j].id # req[v].id
          PROVE  wire'[i].id # req[v].id
      <3>1. \A e \in events : Payload(e).id = e.id /\ row[e.id] # NoRow
        BY DEF Traces, Payload
      <3> QED BY <1>s, <2>2, <3>1
    <2>3. Unborn(v)'
      BY <1>i, <1>s, <2>2 DEF SameServer, Unborn, In
    <2> QED BY <2>1, <2>3
  <1>1. CASE Loaded \/ Connected \/ Dropped \/ Polled \/ Took
    BY <1>1, <1>s DEF Loaded, Connected, Dropped, Polled, Took, SameAsked, SameStream, Unsent
  <1>6. ASSUME NEW w \in Requests, NEW op \in Kinds, NEW t \in Tasks, Wrote(w, op, t)
        PROVE  Matches(v)' /\ Unborn(v)'
    <2>1. /\ asked' = asked /\ wire' = wire /\ Entitled(w, op, t) /\ op \in {"update", "create"}
          /\ row'[t] # NoRow /\ \A u \in Tasks \ {t} : row'[u] = row[u]
          /\ req'[w].op = op /\ req'[w].id = t /\ req'[w].phase = "written"
          /\ \A u \in Requests \ {w} : req'[u] = req[u]
          /\ op = "update" => row[t] # NoRow
      BY <1>0, <1>6 DEF Wrote, Served, SameStream, SameAsked
    <2>2. w \in Mine => In(w, "sent") /\ op = req[w].op /\ t = req[w].id
      BY <2>1 DEF Entitled, Others
    <2>3. ASSUME v # w, req[v].id = t
          PROVE  /\ ~(In(v, "sent") /\ req[v].op = "create")
                 /\ In(v, "logged") => row[t] # NoRow
      <3>1. CASE op = "update"
        BY <1>i, <2>1, <2>3, <3>1 DEF Unborn
      <3>2. CASE op = "create" /\ In(w, "sent") /\ req[w].op = "create" /\ t = req[w].id
        BY <1>i, <2>3, <3>2 DEF Unborn, In
      <3>3. CASE op = "create" /\ Unused(t)
        BY <2>3, <3>3 DEF Unused, In
      <3> QED BY <2>1, <3>1, <3>2, <3>3 DEF Entitled
    <2>4. Matches(v)'
      <3>1. CASE v = w
        BY <1>i, <2>1, <2>2, <3>1 DEF Matches, In
      <3>2. CASE v # w
        <4>1. v \in Mine /\ asked[v] = "delete" /\ In(v, "logged") => row'[req[v].id] = NoRow
          BY <1>0, <1>i, <2>1, <2>3, <3>2 DEF Matches
        <4> QED BY <1>i, <2>1, <3>2, <4>1 DEF Matches, In
      <3> QED BY <3>1, <3>2
    <2>5. Unborn(v)'
      <3>1. CASE v = w
        BY <2>1, <3>1 DEF Unborn, In
      <3>2. CASE v # w
        <4>1. SUFFICES ASSUME In(v, "sent"), req[v].op = "create"
                       PROVE  /\ row'[req[v].id] = NoRow
                              /\ \A u \in Requests \ {v} : req'[u].id = req[v].id =>
                                    \/ req'[u].phase \in {"unsent", "refused", "over"}
                                    \/ req'[u].phase = "sent" /\ req'[u].op # "create"
                              /\ \A i \in DOMAIN wire : wire[i].id # req[v].id
          BY <2>1, <3>2 DEF Unborn, In
        <4>2. req[v].id # t
          BY <2>3, <3>2, <4>1
        <4> QED BY <1>0, <1>i, <2>1, <4>1, <4>2 DEF Unborn
      <3> QED BY <3>1, <3>2
    <2> QED BY <2>4, <2>5
  <1>7. ASSUME NEW w \in Requests, NEW t \in Tasks, Removed(w, t)
        PROVE  Matches(v)' /\ Unborn(v)'
    <2>1. /\ asked' = asked /\ wire' = wire /\ Entitled(w, "delete", t)
          /\ row[t] # NoRow /\ row'[t] = NoRow /\ \A u \in Tasks \ {t} : row'[u] = row[u]
          /\ req'[w].op = "delete" /\ req'[w].id = t /\ req'[w].phase = "logged"
          /\ \A u \in Requests \ {w} : req'[u] = req[u]
      BY <1>7 DEF Removed, Served, SameStream, SameAsked
    <2>2. w \in Mine => In(w, "sent") /\ "delete" = req[w].op /\ t = req[w].id
      BY <2>1 DEF Entitled, Others
    <2>4. Matches(v)'
      <3>1. CASE v = w
        BY <1>i, <2>1, <2>2, <3>1 DEF Matches, In
      <3>2. CASE v # w
        BY <1>0, <1>i, <2>1, <3>2 DEF Matches, In
      <3> QED BY <3>1, <3>2
    <2>5. Unborn(v)'
      <3>1. CASE v = w
        BY <2>1, <3>1 DEF Unborn, In
      <3>2. CASE v # w
        BY <1>0, <1>i, <2>1, <3>2 DEF Unborn, In
      <3> QED BY <3>1, <3>2
    <2> QED BY <2>4, <2>5
  <1>8. ASSUME NEW w \in Requests, NEW t \in Tasks, NEW at \in Nat, Logged(w, t, at)
        PROVE  Matches(v)' /\ Unborn(v)'
    <2>1. /\ asked' = asked /\ wire' = wire /\ row' = row /\ In(w, "written")
          /\ req'[w].op = req[w].op /\ req'[w].id = req[w].id
          /\ req'[w].phase \in {"logged", "refused"}
          /\ \A u \in Requests \ {w} : req'[u] = req[u]
      BY <1>8 DEF Logged, Served, SameStream, SameAsked
    <2>4. Matches(v)'
      <3>1. CASE v = w
        BY <1>i, <2>1, <3>1 DEF Matches, In
      <3>2. CASE v # w
        BY <1>i, <2>1, <3>2 DEF Matches, In
      <3> QED BY <3>1, <3>2
    <2>5. Unborn(v)'
      BY <1>i, <2>1 DEF Unborn, In
    <2> QED BY <2>4, <2>5
  <1>9. ASSUME NEW w \in Requests, Denied(w)
        PROVE  Matches(v)' /\ Unborn(v)'
    <2>1. /\ asked' = asked /\ wire' = wire /\ row' = row /\ In(w, "sent")
          /\ req'[w].op = req[w].op /\ req'[w].id = req[w].id
          /\ req'[w].phase = "refused"
          /\ \A u \in Requests \ {w} : req'[u] = req[u]
      BY <1>9 DEF Denied, Served, SameStream, SameAsked
    <2>4. Matches(v)'
      BY <1>i, <2>1 DEF Matches, In
    <2>5. Unborn(v)'
      BY <1>i, <2>1 DEF Unborn, In
    <2> QED BY <2>4, <2>5
  <1>10. ASSUME NEW w \in Mine, NEW handler \in Handlers, NEW op \in Kinds, NEW t \in Tasks,
               Asked(w, handler, op, t)
         PROVE  Matches(v)' /\ Unborn(v)'
    <2>1. /\ wire' = wire /\ row' = row /\ In(w, "unsent")
          /\ IF op = "create" THEN Unused(t) ELSE ~Unused(t)
          /\ asked'[w] = handler /\ \A u \in Mine \ {w} : asked'[u] = asked[u]
          /\ handler = "create" <=> op = "create"
          /\ handler = "delete" <=> op = "delete"
          /\ req'[w].op = op /\ req'[w].id = t /\ req'[w].phase = "sent"
          /\ \A u \in Requests \ {w} : req'[u] = req[u]
      BY <1>10 DEF Asked, SameStream
    <2>4. Matches(v)'
      <3>1. CASE v = w
        BY <2>1, <3>1 DEF Matches, In
      <3>2. CASE v # w
        BY <1>i, <2>1, <3>2 DEF Matches, In
      <3> QED BY <3>1, <3>2
    <2>5. Unborn(v)'
      <3>1. CASE v = w
        <4>1. op = "create" => \A i \in DOMAIN wire : wire[i].id # t
          BY <2>1 DEF Unused, Traces, Touched, In
        <4> QED BY <2>1, <3>1, <4>1 DEF Unborn, Unused, In
      <3>2. CASE v # w
        <4>1. op = "create" => req[v].id # t \/ In(v, "unsent")
          BY <2>1 DEF Unused
        <4> QED BY <1>i, <2>1, <3>2, <4>1 DEF Unborn, In
      <3> QED BY <3>1, <3>2
    <2> QED BY <2>4, <2>5
  <1>11. ASSUME NEW w \in Mine, Replaced(w) \/ Settled(w)
         PROVE  Matches(v)' /\ Unborn(v)'
    <2>1. /\ asked' = asked /\ wire' = wire /\ row' = row /\ ~In(w, "unsent")
          /\ req'[w].op = req[w].op /\ req'[w].id = req[w].id
          /\ req'[w].phase = "over"
          /\ \A u \in Requests \ {w} : req'[u] = req[u]
      BY <1>11 DEF Replaced, Settled, Ended, SameStream, In
    <2>4. Matches(v)'
      BY <1>i, <2>1 DEF Matches, In
    <2>5. Unborn(v)'
      BY <1>i, <2>1 DEF Unborn, In
    <2> QED BY <2>4, <2>5
  <1>12. CASE UNCHANGED vars
    BY <1>12, <1>s DEF vars, server, stream, page, SameServer
  <1>13. ASSUME NEW w \in Requests, NEW t \in Tasks, Prepared(w, t)
         PROVE  Matches(v)' /\ Unborn(v)'
    <2>1. /\ asked' = asked /\ wire' = wire /\ row' = row /\ row[t] # NoRow /\ w \notin Mine
          /\ req'[w].op = "update" /\ req'[w].id = t /\ req'[w].phase = "stamped"
          /\ \A u \in Requests \ {w} : req'[u] = req[u]
      BY <1>13 DEF Prepared, Served, SameStream, SameAsked, Others
    <2>4. Matches(v)'
      BY <1>i, <2>1 DEF Matches, In
    <2>5. Unborn(v)'
      BY <1>i, <2>1 DEF Unborn, In
    <2> QED BY <2>4, <2>5
  <1>14. ASSUME NEW w \in Requests, NEW t \in Tasks, NEW at \in Nat, Committed(w, t, at)
         PROVE  Matches(v)' /\ Unborn(v)'
    <2>1. /\ asked' = asked /\ wire' = wire /\ In(w, "stamped")
          /\ req'[w].op = req[w].op /\ req'[w].id = req[w].id
          /\ req'[w].phase \in {"logged", "refused"}
          /\ \A u \in Requests \ {w} : req'[u] = req[u]
      BY <1>14 DEF Committed, Served, SameStream, SameAsked
    <2>2. \A u \in Tasks : row[u] = NoRow => row'[u] = NoRow
      BY <1>14 DEF Committed
    <2>4. Matches(v)'
      <3>1. CASE v = w
        BY <1>i, <2>1, <3>1 DEF Matches, In
      <3>2. CASE v # w
        BY <1>0, <1>i, <2>1, <2>2, <3>2 DEF Matches, In
      <3> QED BY <3>1, <3>2
    <2>5. Unborn(v)'
      BY <1>0, <1>i, <2>1, <2>2 DEF Unborn, In
    <2> QED BY <2>4, <2>5
  <1> QED BY <1>1, <1>6, <1>7, <1>8, <1>9, <1>10, <1>11, <1>12, <1>13, <1>14, Cases

LEMMA DoublesStep ==
    ASSUME TypeOK, Stamps, Traces, Tracked, Doubles, [Next]_vars
    PROVE  Doubles'
  <1>0. Mine \subseteq Requests /\ \A w \in Mine : req[w].id \in Tasks
    BY BoardPageAssumption DEF TypeOK, FeedTypeOK, ReqRecords
  <1>i. /\ \A t \in Tasks : DoubledIn(cards, t) => CreatedHere(t)
        /\ \A w \in Mine, t \in Tasks : DoubledIn(previous[w], t) => CreatedHere(t)
    BY DEF Doubles
  <1>n. \A w \in Mine : asked[w] = "create" =>
            req[w].phase # "unsent" /\ req'[w].id = req[w].id
    BY <1>0, NamedStep DEF Tracked, Matches, In
  <1>e. \A t : ~DoubledIn(<<>>, t)
    BY DEF DoubledIn
  <1>q. ASSUME \A w \in Mine : asked[w] = "create" => asked'[w] = "create",
               \A t \in Tasks : DoubledIn(cards', t) =>
                   DoubledIn(cards, t) \/ CreatedHere(t) \/ \E w \in Mine : DoubledIn(previous[w], t),
               \A w \in Mine : previous'[w] \in {previous[w], cards, <<>>}
        PROVE  Doubles'
    <2>1. \A t \in Tasks : CreatedHere(t) => CreatedHere(t)'
      BY <1>n, <1>q DEF CreatedHere
    <2>2. \A t \in Tasks : DoubledIn(cards', t) => CreatedHere(t)'
      BY <1>i, <1>q, <2>1
    <2>3. ASSUME NEW w \in Mine, NEW t \in Tasks, DoubledIn(previous'[w], t)
          PROVE  CreatedHere(t)'
      <3>1. DoubledIn(previous[w], t) \/ DoubledIn(cards, t)
        BY <1>e, <1>q, <2>3
      <3> QED BY <1>i, <2>1, <3>1
    <2> QED BY <2>2, <2>3 DEF Doubles
  <1>1. CASE Loaded \/ Connected \/ Dropped \/ Polled \/ Took
    BY <1>1, <1>q DEF Loaded, Connected, Dropped, Polled, Took, SameAsked
  <1>2. ASSUME Served PROVE Doubles'
    BY <1>2, <1>q DEF Served, SameAsked
  <1>3. ASSUME NEW w \in Mine, NEW handler \in Handlers, NEW op \in Kinds, NEW t \in Tasks,
               Asked(w, handler, op, t)
        PROVE  Doubles'
    <2>1. asked[w] # "create"
      BY <1>3, <1>n DEF Asked, In
    <2> QED BY <1>3, <1>q, <2>1 DEF Asked
  <1>4. ASSUME NEW w \in Mine, Replaced(w) \/ Settled(w)
        PROVE  Doubles'
    <2>1. asked' = asked /\ \A v \in Mine : previous'[v] \in {previous[v], <<>>}
      BY <1>4 DEF Replaced, Settled, Ended
    <2>2. ASSUME NEW t \in Tasks, DoubledIn(cards', t)
          PROVE  DoubledIn(cards, t) \/ CreatedHere(t) \/ \E v \in Mine : DoubledIn(previous[v], t)
      <3>1. CASE Replaced(w)
        BY <2>2, <3>1 DEF Replaced, CreatedHere
      <3>2. CASE Settled(w)
        <4>1. ~Holds(cards', req[w].id) => ~DoubledIn(cards', req[w].id)
          BY DEF Holds, DoubledIn
        <4> QED BY <2>2, <3>2, <4>1 DEF Settled
      <3> QED BY <1>4, <3>1, <3>2
    <2> QED BY <1>q, <2>1, <2>2
  <1>5. CASE UNCHANGED vars
    BY <1>5, <1>q DEF vars, page
  <1> QED BY <1>1, <1>2, <1>3, <1>4, <1>5, Cases DEF Wrote, Removed, Logged, Prepared, Committed, Denied

-----------------------------------------------------------------------------
(* Why a task is still explained, and an older payload still overtaken,    *)
(* after each step.                                                        *)
LEMMA ReasonParts ==
    ASSUME TypeOK
    PROVE  /\ row \in [Tasks -> Nat] /\ Mine \subseteq Requests /\ NoRow = 0 /\ clock \in Nat
           /\ \A v \in Requests : req[v].id \in Tasks
           /\ \A e \in events : e.id \in Tasks /\ e.at \in Nat
           /\ \A i \in DOMAIN wire : wire[i].id \in Tasks
           /\ blamed \subseteq Tasks /\ lastSeen \in Nat
  <1>1. PICK S : S = [id : Tasks, ver : Nat]
    OBVIOUS
  <1>2. wire \in Seq(S)
    BY <1>1 DEF TypeOK, FeedTypeOK
  <1>3. \A i \in DOMAIN wire : wire[i] \in S
    BY <1>2
  <1> QED BY <1>1, <1>3, BoardPageAssumption DEF TypeOK, FeedTypeOK, ReqRecords, NoRow

LEMMA ReasonsLoad ==
    ASSUME TypeOK, Traces, Reasons, Loaded
    PROVE  Reasons'
  <1>1. \A t \in Tasks : Explained(t)'
    BY DEF Loaded, SameServer, Explained
  <1>2. DOMAIN wire' = {}
    BY DEF Loaded, SameStream, Traces
  <1> QED BY <1>1, <1>2 DEF Reasons

LEMMA ReasonsConnect ==
    ASSUME TypeOK, Stamps, Traces, Reasons, Connected
    PROVE  Reasons'
  <1>0. /\ SameServer /\ SameAsked /\ cards' = cards
        /\ link = "down" /\ link' = "up" /\ seen' = {} /\ wire' = <<>>
        /\ lastSeen' \in Latest(cards) /\ lastSeen' \in Nat /\ Sorts(Skipped)
    BY DEF Connected
  <1>1. \A e \in events : e.at \in Nat /\ e.id \in Tasks
    BY ReasonParts
  <1>2. \A e \in events : e.id \in Skipped \/ e \in Unsent'
    BY <1>0, <1>1 DEF Skipped, Unsent, SameServer
  <1>3. \A t \in Tasks : t \in blamed \/ t \in Skipped => t \in blamed' \/ Faithful(row', cards', t)
    BY <1>0 DEF Sorts
  <1>4. ASSUME NEW t \in Tasks PROVE Explained(t)'
    <2>1. /\ Faithful(row, cards, t) \/ t \in blamed \/ Doubled(t)
             \/ ToLog(t) \/ ToSend(t) \/ ToReceive(t) \/ ToRollBack(t) \/ ToRemove(t)
      BY <1>0 DEF Reasons, Explained
    <2>2. ToSend(t) => ToSend(t)' \/ t \in Skipped
      BY <1>0, <1>2 DEF ToSend
    <2>3. ~ToReceive(t)
      BY <1>0 DEF ToReceive, Traces
    <2>4. ToLog(t) => ToLog(t)'
      BY <1>0 DEF ToLog, SameServer, In
    <2>5. ToRollBack(t) => ToRollBack(t)'
      BY <1>0 DEF ToRollBack, SameServer, SameAsked
    <2>6. ToRemove(t) => ToRemove(t)'
      BY <1>0 DEF ToRemove, SameServer, SameAsked, In
    <2>7. Faithful(row, cards, t) => Faithful(row', cards', t)
      BY <1>0 DEF SameServer
    <2>8. Doubled(t) => Doubled(t)'
      BY <1>0 DEF Doubled
    <2> QED BY <1>3, <2>1, <2>2, <2>3, <2>4, <2>5, <2>6, <2>7, <2>8 DEF Explained
  <1>5. DOMAIN wire' = {}
    BY <1>0
  <1> QED BY <1>4, <1>5 DEF Reasons

LEMMA ReasonsDrop ==
    ASSUME TypeOK, Stamps, Traces, Reasons, Dropped
    PROVE  Reasons'
  <1>0. /\ SameServer /\ SameAsked /\ cards' = cards /\ blamed' = blamed
        /\ link = "up" /\ link' = "down" /\ wire' = <<>>
    BY DEF Dropped
  <1>1. ASSUME NEW t \in Tasks PROVE Explained(t)'
    <2>1. Explained(t)
      BY DEF Reasons
    <2>2. ToSend(t) => ToSend(t)'
      BY <1>0 DEF ToSend, Unsent, SameServer
    <2>3. ToReceive(t) => ToSend(t)'
      BY <1>0 DEF ToReceive, ToSend, Traces, Announced, SameServer
    <2>4. ToLog(t) => ToLog(t)'
      BY <1>0 DEF ToLog, SameServer, In
    <2>5. ToRollBack(t) => ToRollBack(t)'
      BY <1>0 DEF ToRollBack, SameServer, SameAsked
    <2>6. ToRemove(t) => ToRemove(t)'
      BY <1>0 DEF ToRemove, SameServer, SameAsked, In
    <2> QED BY <1>0, <2>1, <2>2, <2>3, <2>4, <2>5, <2>6 DEF Explained, SameServer, Doubled
  <1>2. DOMAIN wire' = {}
    BY <1>0
  <1> QED BY <1>1, <1>2 DEF Reasons

LEMMA ReasonsPoll ==
    ASSUME TypeOK, Stamps, Traces, Reasons, Polled
    PROVE  Reasons'
  <1>0. /\ SameServer /\ SameAsked /\ cards' = cards /\ blamed' = blamed
        /\ link = "up" /\ link' = link
        /\ \A i \in DOMAIN wire : i \in DOMAIN wire' /\ wire'[i] = wire[i]
        /\ \A i \in DOMAIN wire' : i \in DOMAIN wire \/ \E e \in Unsent : wire'[i] = Payload(e)
        /\ \A e \in Unsent : \E j \in DOMAIN wire' :
              wire'[j] = Payload(e) /\ \A i \in DOMAIN wire : i < j
    BY DEF Polled
  <1>1. \A t \in Tasks : ToSend(t) => \E j \in DOMAIN wire' :
            wire'[j] = [id |-> t, ver |-> row[t]] /\ \A i \in DOMAIN wire : i < j
    BY <1>0 DEF ToSend, Payload
  <1>2. ASSUME NEW t \in Tasks PROVE Explained(t)'
    <2>1. Explained(t)
      BY DEF Reasons
    <2>2. ToSend(t) => ToReceive(t)'
      BY <1>0, <1>1 DEF ToReceive, SameServer
    <2>3. ToReceive(t) => ToReceive(t)'
      BY <1>0 DEF ToReceive, SameServer
    <2>4. ToLog(t) => ToLog(t)'
      BY <1>0 DEF ToLog, SameServer, In
    <2>5. ToRollBack(t) => ToRollBack(t)'
      BY <1>0 DEF ToRollBack, SameServer, SameAsked
    <2>6. ToRemove(t) => ToRemove(t)'
      BY <1>0 DEF ToRemove, SameServer, SameAsked, In
    <2> QED BY <1>0, <2>1, <2>2, <2>3, <2>4, <2>5, <2>6 DEF Explained, SameServer, Doubled
  <1>3. ASSUME NEW i \in DOMAIN wire' PROVE Overtaken(i)'
    <2>1. CASE i \in DOMAIN wire
      <3>1. PICK t \in Tasks : t = wire[i].id /\ t = wire'[i].id
        BY <1>0, <2>1, ReasonParts
      <3>2. row[t] # NoRow /\ wire[i].ver # row[t] =>
                \/ t \in blamed \/ ToLog(t) \/ ToSend(t)
                \/ \E j \in DOMAIN wire : j > i /\ wire[j] = [id |-> t, ver |-> row[t]]
        BY <2>1, <3>1 DEF Reasons, Overtaken
      <3>3. ToLog(t) => ToLog(t)'
        BY <1>0 DEF ToLog, SameServer, In
      <3>4. ToSend(t) => \E j \in DOMAIN wire' : j > i /\ wire'[j] = [id |-> t, ver |-> row[t]]
        BY <1>1, <2>1
      <3>5. (\E j \in DOMAIN wire : j > i /\ wire[j] = [id |-> t, ver |-> row[t]])
                => \E j \in DOMAIN wire' : j > i /\ wire'[j] = [id |-> t, ver |-> row[t]]
        BY <1>0
      <3> QED BY <1>0, <2>1, <3>1, <3>2, <3>3, <3>4, <3>5 DEF Overtaken, SameServer
    <2>2. CASE i \notin DOMAIN wire
      <3>1. wire'[i].ver = row[wire'[i].id]
        BY <1>0, <2>2 DEF Payload
      <3> QED BY <1>0, <3>1 DEF Overtaken, SameServer
    <2> QED BY <2>1, <2>2
  <1> QED BY <1>2, <1>3 DEF Reasons

LEMMA ReasonsTook ==
    ASSUME TypeOK, Stamps, Traces, Reasons, Took
    PROVE  Reasons'
  <1>0. /\ SameServer /\ SameAsked /\ lastSeen' = lastSeen /\ seen' = seen
        /\ link = "up" /\ link' = link
        /\ 1 \in DOMAIN wire /\ wire[1].id \in Tasks
        /\ \A i \in DOMAIN wire' : i + 1 \in DOMAIN wire /\ wire'[i] = wire[i + 1]
        /\ \A i \in DOMAIN wire : i > 1 => i - 1 \in DOMAIN wire' /\ wire'[i - 1] = wire[i]
        /\ \A u \in Tasks : u # wire[1].id => (Faithful(row, cards', u) <=> Faithful(row, cards, u))
        /\ \A u \in Tasks : DoubledIn(cards', u) <=> DoubledIn(cards, u)
        /\ row[wire[1].id] # NoRow /\ wire[1].ver = row[wire[1].id] =>
              DoubledIn(cards, wire[1].id) \/ Faithful(row, cards', wire[1].id)
        /\ Sorts(IF row[wire[1].id] = NoRow THEN {wire[1].id} ELSE {})
    BY DEF Took
  <1>w. \A i \in DOMAIN wire : i \in Nat /\ i >= 1
    <2>1. wire \in Seq([id : Tasks, ver : Nat])
      BY DEF TypeOK, FeedTypeOK
    <2>2. DOMAIN wire = 1..Len(wire)
      BY <2>1, LenProperties
    <2> QED BY <2>2
  <1>w1. \A i \in DOMAIN wire' : i \in Nat /\ i >= 1
    <2>1. wire' \in Seq([id : Tasks, ver : Nat])
      BY DEF Took
    <2>2. DOMAIN wire' = 1..Len(wire')
      BY <2>1, LenProperties
    <2> QED BY <2>2
  <1>1. \A t \in Tasks : t \in blamed \/ (t = wire[1].id /\ row[t] = NoRow)
                            => t \in blamed' \/ Faithful(row', cards', t)
    BY <1>0 DEF Sorts
  <1>2. \A t : (Doubled(t) <=> DoubledIn(cards, t)) /\ (Doubled(t)' <=> DoubledIn(cards', t))
    BY DEF Doubled, DoubledIn
  <1>3. \A t \in Tasks : ToLog(t) => ToLog(t)'
    BY <1>0 DEF ToLog, SameServer, In
  <1>4. \A t \in Tasks : ToSend(t) => ToSend(t)'
    BY <1>0 DEF ToSend, Unsent, SameServer
  <1>5. ASSUME NEW t \in Tasks, NEW i \in DOMAIN wire, i > 1, wire[i] = [id |-> t, ver |-> row[t]]
        PROVE  ToReceive(t)'
    BY <1>0, <1>5 DEF ToReceive, SameServer
  <1>6. ASSUME NEW t \in Tasks PROVE Explained(t)'
    <2>1. Explained(t)
      BY DEF Reasons
    <2>5. ToRollBack(t) => ToRollBack(t)'
      BY <1>0 DEF ToRollBack, SameServer, SameAsked
    <2>6. ToRemove(t) => ToRemove(t)'
      BY <1>0 DEF ToRemove, SameServer, SameAsked, In
    <2>7. CASE t # wire[1].id
      <3>1. ToReceive(t) => ToReceive(t)'
        <4>1. ASSUME NEW i \in DOMAIN wire, wire[i] = [id |-> t, ver |-> row[t]]
              PROVE  i > 1
          BY <1>w, <2>7, <4>1
        <4> QED BY <1>5, <4>1 DEF ToReceive
      <3>2. Faithful(row, cards, t) => Faithful(row', cards', t)
        BY <1>0, <2>7 DEF SameServer
      <3> QED BY <1>0, <1>1, <1>2, <1>3, <1>4, <2>1, <2>5, <2>6, <3>1, <3>2 DEF Explained
    <2>8. CASE t = wire[1].id /\ row[t] = NoRow
      BY <1>1, <2>8 DEF Explained
    <2>9. CASE t = wire[1].id /\ row[t] # NoRow
      <3>1. CASE wire[1].ver = row[t]
        <4>1. DoubledIn(cards', t) \/ Faithful(row', cards', t)
          BY <1>0, <2>9, <3>1 DEF SameServer
        <4> QED BY <1>2, <4>1 DEF Explained
      <3>2. CASE wire[1].ver # row[t]
        <4>1. \/ t \in blamed \/ ToLog(t) \/ ToSend(t)
              \/ \E j \in DOMAIN wire : j > 1 /\ wire[j] = [id |-> t, ver |-> row[t]]
          BY <1>0, <2>9, <3>2 DEF Reasons, Overtaken
        <4> QED BY <1>1, <1>3, <1>4, <1>5, <4>1 DEF Explained
      <3> QED BY <3>1, <3>2
    <2> QED BY <2>7, <2>8, <2>9
  <1>7. ASSUME NEW i \in DOMAIN wire' PROVE Overtaken(i)'
    <2>1. PICK k \in DOMAIN wire : k = i + 1 /\ wire'[i] = wire[k]
      BY <1>0
    <2>2. PICK t \in Tasks : t = wire[k].id
      BY ReasonParts
    <2>3. row[t] # NoRow /\ wire[k].ver # row[t] =>
              \/ t \in blamed \/ ToLog(t) \/ ToSend(t)
              \/ \E j \in DOMAIN wire : j > k /\ wire[j] = [id |-> t, ver |-> row[t]]
      BY <2>2 DEF Reasons, Overtaken
    <2>4. t \in blamed /\ wire[k].ver # row[t] => t \in blamed'
      BY <1>0, <2>1, <2>2 DEF Sorts, SameServer
    <2>5. ASSUME NEW j \in DOMAIN wire, j > k
          PROVE  j - 1 \in DOMAIN wire' /\ j - 1 > i /\ wire'[j - 1] = wire[j]
      BY <1>0, <1>w, <1>w1, <2>1, <2>5
    <2>6. (\E j \in DOMAIN wire : j > k /\ wire[j] = [id |-> t, ver |-> row[t]])
              => \E j \in DOMAIN wire' : j > i /\ wire'[j] = [id |-> t, ver |-> row[t]]
      BY <2>5
    <2> QED BY <1>0, <1>3, <1>4, <2>1, <2>2, <2>3, <2>4, <2>6 DEF Overtaken, SameServer
  <1> QED BY <1>6, <1>7 DEF Reasons

(* A step of the server leaves the other tasks explained. *)
LEMMA ServedKeeps ==
    ASSUME TypeOK, Reasons, Served, NEW ids, Sorts(ids), NEW t \in Tasks, row'[t] = row[t],
           ToLog(t) => ToLog(t)' \/ ToSend(t)' \/ t \in ids,
           ToSend(t) => ToSend(t)',
           \A v \in Mine : req[v].id = t /\ req[v].phase = "logged" => req'[v] = req[v],
           \A v \in Mine : req[v].id = t /\ req[v].phase \in {"sent", "refused"} =>
               req'[v].id = t /\ req'[v].phase \in {"sent", "refused"}
    PROVE  Explained(t)' /\ \A i \in DOMAIN wire : wire[i].id = t => Overtaken(i)'
  <1>0. wire' = wire /\ cards' = cards /\ asked' = asked /\ previous' = previous /\ link' = link
    BY DEF Served, SameStream, SameAsked
  <1>1. t \in blamed \/ t \in ids => t \in blamed' \/ Faithful(row', cards', t)
    BY DEF Sorts
  <1>2. \A list : Faithful(row', list, t) <=> Faithful(row, list, t)
    BY DEF Faithful
  <1>3. Explained(t)'
    <2>1. Explained(t)
      BY DEF Reasons
    <2>2. ToReceive(t) => ToReceive(t)'
      BY <1>0 DEF ToReceive
    <2>3. ToRollBack(t) => ToRollBack(t)'
      BY <1>0, <1>2 DEF ToRollBack
    <2>4. ToRemove(t) => ToRemove(t)'
      BY <1>0 DEF ToRemove, In
    <2>5. Faithful(row, cards, t) => Faithful(row', cards', t)
      BY <1>0, <1>2
    <2>6. Doubled(t) => Doubled(t)'
      BY <1>0 DEF Doubled
    <2> QED BY <1>0, <1>1, <2>1, <2>2, <2>3, <2>4, <2>5, <2>6 DEF Explained
  <1>4. ASSUME NEW i \in DOMAIN wire, wire[i].id = t PROVE Overtaken(i)'
    <2>1. row[t] # NoRow /\ wire[i].ver # row[t] =>
              \/ t \in blamed \/ ToLog(t) \/ ToSend(t)
              \/ \E j \in DOMAIN wire : j > i /\ wire[j] = [id |-> t, ver |-> row[t]]
      BY <1>4 DEF Reasons, Overtaken
    <2>2. (t \in blamed \/ t \in ids) /\ wire[i].ver # row[t] => t \in blamed'
      BY <1>0, <1>4 DEF Sorts
    <2> QED BY <1>0, <1>4, <2>1, <2>2 DEF Overtaken
  <1> QED BY <1>3, <1>4

LEMMA ReasonsServed ==
    ASSUME wire' = wire, \A t \in Tasks : Explained(t)',
           \A t \in Tasks : \A i \in DOMAIN wire : wire[i].id = t => Overtaken(i)',
           TypeOK
    PROVE  Reasons'
  <1>1. \A i \in DOMAIN wire : wire[i].id \in Tasks
    BY ReasonParts
  <1>2. \A i \in DOMAIN wire' : Overtaken(i)'
    BY <1>1
  <1> QED BY <1>2 DEF Reasons

LEMMA ReasonsWrote ==
    ASSUME TypeOK, Stamps, Traces, Tracked, Reasons,
           NEW w \in Requests, NEW op \in Kinds, NEW t \in Tasks, Wrote(w, op, t)
    PROVE  Reasons'
  <1>0. /\ Served /\ Sorts({}) /\ wire' = wire /\ link' = link /\ lastSeen' = lastSeen /\ seen' = seen
        /\ events' = events /\ row'[t] = clock + 1 /\ \A u \in Tasks \ {t} : row'[u] = row[u]
        /\ req'[w].id = t /\ req'[w].phase = "written"
        /\ \A v \in Requests \ {w} : req'[v] = req[v]
    BY DEF Wrote, Served, SameStream
  <1>1. req[w].phase = "unsent" \/ (req[w].phase = "sent" /\ req[w].id = t)
    BY DEF Wrote, Entitled, In
  <1>2. Mine \subseteq Requests /\ row'[t] # NoRow
    BY <1>0, ReasonParts
  <1>3. ASSUME NEW u \in Tasks
        PROVE  Explained(u)' /\ \A i \in DOMAIN wire : wire[i].id = u => Overtaken(i)'
    <2>1. CASE u = t
      <3>1. ToLog(u)'
        BY <1>0, <1>2, <2>1 DEF ToLog, In
      <3>2. \A i \in DOMAIN wire : wire[i].id = u => Overtaken(i)'
        BY <1>0, <3>1 DEF Overtaken
      <3> QED BY <3>1, <3>2 DEF Explained
    <2>2. CASE u # t
      <3>1. ToLog(u) => ToLog(u)' \/ ToSend(u)' \/ u \in {}
        BY <1>0, <1>1, <2>2 DEF ToLog, In
      <3>2. ToSend(u) => ToSend(u)'
        BY <1>0 DEF ToSend, Unsent
      <3>3. \A v \in Mine : req[v].id = u /\ req[v].phase = "logged" => req'[v] = req[v]
        BY <1>0, <1>1, <1>2
      <3>4. \A v \in Mine : req[v].id = u /\ req[v].phase \in {"sent", "refused"} =>
                req'[v].id = u /\ req'[v].phase \in {"sent", "refused"}
        BY <1>0, <1>1, <1>2, <2>2
      <3>5. row'[u] = row[u]
        BY <1>0, <2>2
      <3> QED BY <1>0, <3>1, <3>2, <3>3, <3>4, <3>5, ServedKeeps
    <2> QED BY <2>1, <2>2
  <1> QED BY <1>0, <1>3, ReasonsServed

LEMMA ReasonsRemoved ==
    ASSUME TypeOK, Stamps, Traces, Tracked, Reasons,
           NEW w \in Requests, NEW t \in Tasks, Removed(w, t)
    PROVE  Reasons'
  <1>0. /\ Served /\ Sorts(IF w \in Others /\ In(w, "unsent") THEN {t} ELSE {})
        /\ wire' = wire /\ link' = link /\ lastSeen' = lastSeen /\ seen' = seen /\ asked' = asked
        /\ events' = {e \in events : e.id # t}
        /\ row'[t] = NoRow /\ \A u \in Tasks \ {t} : row'[u] = row[u]
        /\ req'[w].id = t /\ req'[w].phase = "logged"
        /\ \A v \in Requests \ {w} : req'[v] = req[v]
        /\ Entitled(w, "delete", t)
    BY DEF Removed, Served, SameStream, SameAsked
  <1>1. \/ w \in Others /\ In(w, "unsent")
        \/ In(w, "sent") /\ req[w].op = "delete" /\ req[w].id = t
    BY <1>0 DEF Entitled
  <1>2. Mine \subseteq Requests
    BY ReasonParts
  <1>3. ASSUME NEW u \in Tasks
        PROVE  Explained(u)' /\ \A i \in DOMAIN wire : wire[i].id = u => Overtaken(i)'
    <2>1. CASE u = t
      <3>1. Explained(u)'
        <4>1. CASE w \in Others /\ In(w, "unsent")
          <5>1. u \in blamed' \/ Faithful(row', cards', u)
            BY <1>0, <2>1, <4>1 DEF Sorts
          <5> QED BY <5>1 DEF Explained
        <4>2. CASE In(w, "sent") /\ req[w].op = "delete" /\ req[w].id = t
          <5>1. w \in Mine /\ asked[w] = "delete"
            BY <4>2 DEF Tracked, Matches, In
          <5>2. ToRemove(u)'
            BY <1>0, <2>1, <5>1 DEF ToRemove, In
          <5> QED BY <5>2 DEF Explained
        <4> QED BY <1>1, <4>1, <4>2
      <3>2. \A i \in DOMAIN wire : wire[i].id = u => Overtaken(i)'
        BY <1>0, <2>1 DEF Overtaken
      <3> QED BY <3>1, <3>2
    <2>2. CASE u # t
      <3>1. ToLog(u) => ToLog(u)' \/ ToSend(u)' \/ u \in {}
        BY <1>0, <1>1, <2>2 DEF ToLog, In
      <3>2. ToSend(u) => ToSend(u)'
        BY <1>0, <2>2 DEF ToSend, Unsent
      <3>3. \A v \in Mine : req[v].id = u /\ req[v].phase = "logged" => req'[v] = req[v]
        BY <1>0, <1>1, <1>2 DEF In
      <3>4. \A v \in Mine : req[v].id = u /\ req[v].phase \in {"sent", "refused"} =>
                req'[v].id = u /\ req'[v].phase \in {"sent", "refused"}
        BY <1>0, <1>1, <1>2, <2>2 DEF In
      <3>5. row'[u] = row[u]
        BY <1>0, <2>2
      <3>6. Sorts({})
        BY <1>0 DEF Sorts
      <3> QED BY <1>0, <3>1, <3>2, <3>3, <3>4, <3>5, <3>6, ServedKeeps
    <2> QED BY <2>1, <2>2
  <1> QED BY <1>0, <1>3, ReasonsServed

LEMMA ReasonsLogged ==
    ASSUME TypeOK, Stamps, Traces, Tracked, Reasons,
           NEW w \in Requests, NEW t \in Tasks, NEW at \in Nat, Logged(w, t, at)
    PROVE  Reasons'
  <1>0. /\ Served /\ Sorts(IF Late(w) THEN {t} ELSE {})
        /\ wire' = wire /\ link' = link /\ lastSeen' = lastSeen /\ seen' = seen
        /\ row' = row /\ req[w].phase = "written" /\ req[w].id = t /\ at = req[w].ver + 1
        /\ req'[w].id = t /\ \A v \in Requests \ {w} : req'[v] = req[v]
        /\ \/ row[t] = NoRow /\ events' = events /\ req'[w].phase = "refused"
           \/ /\ row[t] # NoRow /\ req'[w].phase = "logged"
              /\ events' = events \cup {[id |-> t, at |-> at]}
    BY DEF Logged, Served, SameStream, In
  <1>1. Mine \subseteq Requests /\ lastSeen \in Nat
    BY ReasonParts
  <1>2. ASSUME row[t] # NoRow PROVE ToSend(t)' \/ Late(w)
    <2>1. PICK e \in events' : e = [id |-> t, at |-> at]
      BY <1>0, <1>2
    <2>2. e.id = t /\ e.at = at
      BY <2>1
    <2>3. CASE link = "up"
      <3>1. at \notin seen
        BY <1>0 DEF Stamps, Due
      <3>2. at >= lastSeen \/ at < lastSeen
        BY <1>1
      <3>3. CASE at >= lastSeen
        <4>1. e \in Unsent'
          BY <1>0, <2>1, <2>2, <3>1, <3>3 DEF Unsent
        <4> QED BY <1>0, <2>2, <2>3, <4>1 DEF ToSend
      <3>4. CASE at < lastSeen
        BY <1>0, <2>3, <3>4 DEF Late, In
      <3> QED BY <3>2, <3>3, <3>4
    <2>4. CASE link # "up"
      BY <1>0, <2>1, <2>2, <2>4 DEF ToSend
    <2> QED BY <2>3, <2>4
  <1>3. ASSUME NEW u \in Tasks
        PROVE  Explained(u)' /\ \A i \in DOMAIN wire : wire[i].id = u => Overtaken(i)'
    <2>1. ToLog(u) => ToLog(u)' \/ ToSend(u)' \/ u \in (IF Late(w) THEN {t} ELSE {})
      <3>1. ASSUME ToLog(u), ~ToLog(u)' PROVE u = t /\ row[t] # NoRow
        BY <1>0, <3>1 DEF ToLog, In
      <3> QED BY <1>2, <3>1
    <2>2. ToSend(u) => ToSend(u)'
      <3>1. events \subseteq events' /\ Unsent \subseteq Unsent'
        BY <1>0 DEF Unsent
      <3> QED BY <1>0, <3>1 DEF ToSend
    <2>3. \A v \in Mine : req[v].id = u /\ req[v].phase = "logged" => req'[v] = req[v]
      BY <1>0, <1>1
    <2>4. \A v \in Mine : req[v].id = u /\ req[v].phase \in {"sent", "refused"} =>
              req'[v].id = u /\ req'[v].phase \in {"sent", "refused"}
      BY <1>0, <1>1
    <2>5. row'[u] = row[u]
      BY <1>0
    <2> QED BY <1>0, <2>1, <2>2, <2>3, <2>4, <2>5, ServedKeeps
  <1> QED BY <1>0, <1>3, ReasonsServed

LEMMA ReasonsPrepared ==
    ASSUME TypeOK, Stamps, Traces, Tracked, Reasons,
           NEW w \in Requests, NEW t \in Tasks, Prepared(w, t)
    PROVE  Reasons'
  <1>0. /\ Served /\ Sorts({}) /\ wire' = wire /\ link' = link /\ lastSeen' = lastSeen /\ seen' = seen
        /\ row' = row /\ events' = events /\ req[w].phase = "unsent"
        /\ \A v \in Requests \ {w} : req'[v] = req[v]
    BY DEF Prepared, Served, SameStream, In
  <1>1. Mine \subseteq Requests
    BY ReasonParts
  <1>3. ASSUME NEW u \in Tasks
        PROVE  Explained(u)' /\ \A i \in DOMAIN wire : wire[i].id = u => Overtaken(i)'
    <2>1. ToLog(u) => ToLog(u)' \/ ToSend(u)' \/ u \in {}
      BY <1>0 DEF ToLog, In
    <2>2. ToSend(u) => ToSend(u)'
      BY <1>0 DEF ToSend, Unsent
    <2>3. \A v \in Mine : req[v].id = u /\ req[v].phase = "logged" => req'[v] = req[v]
      BY <1>0, <1>1
    <2>4. \A v \in Mine : req[v].id = u /\ req[v].phase \in {"sent", "refused"} =>
              req'[v].id = u /\ req'[v].phase \in {"sent", "refused"}
      BY <1>0, <1>1
    <2>5. row'[u] = row[u]
      BY <1>0
    <2> QED BY <1>0, <2>1, <2>2, <2>3, <2>4, <2>5, ServedKeeps
  <1> QED BY <1>0, <1>3, ReasonsServed

(* The new row is announced, or comes too late and its task is blamed.     *)
LEMMA ReasonsCommitted ==
    ASSUME TypeOK, Stamps, Traces, Tracked, Reasons,
           NEW w \in Requests, NEW t \in Tasks, NEW at \in Nat, Committed(w, t, at)
    PROVE  Reasons'
  <1>0. /\ Served /\ Sorts(IF Late(w) THEN {t} ELSE {})
        /\ wire' = wire /\ link' = link /\ lastSeen' = lastSeen /\ seen' = seen
        /\ req[w].phase = "stamped" /\ req[w].id = t /\ at = req[w].ver + 1
        /\ \A v \in Requests \ {w} : req'[v] = req[v]
        /\ \A u \in Tasks \ {t} : row'[u] = row[u]
        /\ \/ row[t] = NoRow /\ row' = row /\ events' = events
           \/ row[t] # NoRow /\ events' = events \cup {[id |-> t, at |-> at]}
    BY DEF Committed, Served, SameStream, In
  <1>1. Mine \subseteq Requests /\ lastSeen \in Nat
    BY ReasonParts
  <1>2. ASSUME row[t] # NoRow PROVE ToSend(t)' \/ Late(w)
    <2>1. PICK e \in events' : e = [id |-> t, at |-> at]
      BY <1>0, <1>2
    <2>2. e.id = t /\ e.at = at
      BY <2>1
    <2>3. CASE link = "up"
      <3>1. at \notin seen
        BY <1>0 DEF Stamps, Due
      <3>2. at >= lastSeen \/ at < lastSeen
        BY <1>1
      <3>3. CASE at >= lastSeen
        <4>1. e \in Unsent'
          BY <1>0, <2>1, <2>2, <3>1, <3>3 DEF Unsent
        <4> QED BY <1>0, <2>2, <2>3, <4>1 DEF ToSend
      <3>4. CASE at < lastSeen
        BY <1>0, <2>3, <3>4 DEF Late, In
      <3> QED BY <3>2, <3>3, <3>4
    <2>4. CASE link # "up"
      BY <1>0, <2>1, <2>2, <2>4 DEF ToSend
    <2> QED BY <2>3, <2>4
  <1>3. ASSUME NEW u \in Tasks, row'[u] = row[u]
        PROVE  Explained(u)' /\ \A i \in DOMAIN wire : wire[i].id = u => Overtaken(i)'
    <2>1. ToLog(u) => ToLog(u)' \/ ToSend(u)' \/ u \in (IF Late(w) THEN {t} ELSE {})
      BY <1>0, <1>3 DEF ToLog, In
    <2>2. ToSend(u) => ToSend(u)'
      <3>1. events \subseteq events' /\ Unsent \subseteq Unsent'
        BY <1>0 DEF Unsent
      <3> QED BY <1>0, <3>1 DEF ToSend
    <2>3. \A v \in Mine : req[v].id = u /\ req[v].phase = "logged" => req'[v] = req[v]
      BY <1>0, <1>1
    <2>4. \A v \in Mine : req[v].id = u /\ req[v].phase \in {"sent", "refused"} =>
              req'[v].id = u /\ req'[v].phase \in {"sent", "refused"}
      BY <1>0, <1>1
    <2> QED BY <1>0, <1>3, <2>1, <2>2, <2>3, <2>4, ServedKeeps
  <1>4. ASSUME row[t] # NoRow
        PROVE  Explained(t)' /\ \A i \in DOMAIN wire : wire[i].id = t => Overtaken(i)'
    <2>1. CASE ToSend(t)'
      <3>1. \A i \in DOMAIN wire : wire[i].id = t => Overtaken(i)'
        BY <1>0, <2>1 DEF Overtaken
      <3> QED BY <2>1, <3>1 DEF Explained
    <2>2. CASE Late(w)
      <3>1. /\ t \in blamed' \/ Faithful(row', cards', t)
            /\ \A i \in DOMAIN wire' : wire'[i].id = t /\ wire'[i].ver # row'[t] => t \in blamed'
        BY <1>0, <2>2 DEF Sorts
      <3>2. \A i \in DOMAIN wire : wire[i].id = t => Overtaken(i)'
        BY <1>0, <3>1 DEF Overtaken
      <3> QED BY <3>1, <3>2 DEF Explained
    <2> QED BY <1>2, <1>4, <2>1, <2>2
  <1>5. \A u \in Tasks : Explained(u)' /\ \A i \in DOMAIN wire : wire[i].id = u => Overtaken(i)'
    BY <1>0, <1>3, <1>4
  <1> QED BY <1>0, <1>5, ReasonsServed

LEMMA ReasonsDenied ==
    ASSUME TypeOK, Stamps, Traces, Tracked, Reasons, NEW w \in Requests, Denied(w)
    PROVE  Reasons'
  <1>0. /\ Served /\ Sorts({}) /\ wire' = wire /\ link' = link /\ lastSeen' = lastSeen /\ seen' = seen
        /\ row' = row /\ events' = events /\ req[w].phase = "sent"
        /\ req'[w].id = req[w].id /\ req'[w].phase = "refused"
        /\ \A v \in Requests \ {w} : req'[v] = req[v]
    BY DEF Denied, Served, SameStream, In
  <1>1. Mine \subseteq Requests
    BY ReasonParts
  <1>3. ASSUME NEW u \in Tasks
        PROVE  Explained(u)' /\ \A i \in DOMAIN wire : wire[i].id = u => Overtaken(i)'
    <2>1. ToLog(u) => ToLog(u)' \/ ToSend(u)' \/ u \in {}
      BY <1>0 DEF ToLog, In
    <2>2. ToSend(u) => ToSend(u)'
      BY <1>0 DEF ToSend, Unsent
    <2>3. \A v \in Mine : req[v].id = u /\ req[v].phase = "logged" => req'[v] = req[v]
      BY <1>0, <1>1
    <2>4. \A v \in Mine : req[v].id = u /\ req[v].phase \in {"sent", "refused"} =>
              req'[v].id = u /\ req'[v].phase \in {"sent", "refused"}
      BY <1>0, <1>1
    <2>5. row'[u] = row[u]
      BY <1>0
    <2> QED BY <1>0, <2>1, <2>2, <2>3, <2>4, <2>5, ServedKeeps
  <1> QED BY <1>0, <1>3, ReasonsServed

(* A step of the page about its request w, which leaves the wire alone.    *)
LEMMA PageKeeps ==
    ASSUME TypeOK, Reasons, row' = row, events' = events, SameStream, link' = link,
           Sorts({}), \A t \in Tasks : Explained(t)',
           \A v \in Requests : req[v].phase = "written" => req'[v] = req[v]
    PROVE  Reasons'
  <1>1. lastSeen' = lastSeen /\ seen' = seen /\ wire' = wire
    BY DEF SameStream
  <1>2. ASSUME NEW i \in DOMAIN wire PROVE Overtaken(i)'
    <2>1. PICK t \in Tasks : t = wire[i].id
      BY ReasonParts
    <2>2. row[t] # NoRow /\ wire[i].ver # row[t] =>
              \/ t \in blamed \/ ToLog(t) \/ ToSend(t)
              \/ \E j \in DOMAIN wire : j > i /\ wire[j] = [id |-> t, ver |-> row[t]]
      BY <2>1 DEF Reasons, Overtaken
    <2>3. t \in blamed /\ wire[i].ver # row[t] => t \in blamed'
      BY <1>1, <2>1 DEF Sorts
    <2>4. ToLog(t) => ToLog(t)'
      BY DEF ToLog, In
    <2>5. ToSend(t) => ToSend(t)'
      BY <1>1 DEF ToSend, Unsent
    <2> QED BY <1>1, <2>1, <2>2, <2>3, <2>4, <2>5 DEF Overtaken
  <1> QED BY <1>1, <1>2 DEF Reasons

LEMMA ReasonsAsked ==
    ASSUME TypeOK, Stamps, Traces, Tracked, Reasons,
           NEW w \in Mine, NEW handler \in Handlers, NEW op \in Kinds, NEW t \in Tasks,
           Asked(w, handler, op, t)
    PROVE  Reasons'
  <1>0. /\ row' = row /\ events' = events /\ SameStream /\ link' = link /\ link # "loading"
        /\ lastSeen' = lastSeen /\ seen' = seen /\ wire' = wire
        /\ req[w].phase = "unsent" /\ req'[w].id = t /\ req'[w].phase = "sent"
        /\ \A v \in Requests \ {w} : req'[v] = req[v]
        /\ handler = "move" => previous'[w] = cards
        /\ \A v \in Mine \ {w} : previous'[v] = previous[v]
        /\ asked'[w] = handler /\ \A v \in Mine \ {w} : asked'[v] = asked[v]
        /\ handler # "move" => cards' = cards
        /\ \A u \in Tasks : u # t => (Faithful(row, cards', u) <=> Faithful(row, cards, u))
        /\ \A u \in Tasks : DoubledIn(cards', u) <=> DoubledIn(cards, u)
        /\ Sorts({}) /\ Mine \subseteq Requests
    BY ReasonParts DEF Asked, SameStream, In
  <1>1. ASSUME NEW u \in Tasks PROVE Explained(u)'
    <2>1. Explained(u)
      BY DEF Reasons
    <2>2. Faithful(row, cards, u) => Faithful(row', cards', u) \/ ToRollBack(u)'
      <3>1. CASE u = t /\ handler = "move"
        <4>1. Faithful(row, cards, u) => Faithful(row', previous'[w], u)
          BY <1>0, <3>1
        <4> QED BY <1>0, <3>1, <4>1 DEF ToRollBack
      <3>2. CASE u # t \/ handler # "move"
        BY <1>0, <3>2
      <3> QED BY <3>1, <3>2
    <2>3. u \in blamed => u \in blamed' \/ Faithful(row', cards', u)
      BY <1>0 DEF Sorts
    <2>4. Doubled(u) => Doubled(u)'
      <3>1. (Doubled(u) <=> DoubledIn(cards, u)) /\ (Doubled(u)' <=> DoubledIn(cards', u))
        BY DEF Doubled, DoubledIn
      <3> QED BY <1>0, <3>1
    <2>5. ToLog(u) => ToLog(u)'
      BY <1>0 DEF ToLog, In
    <2>6. ToSend(u) => ToSend(u)'
      BY <1>0 DEF ToSend, Unsent
    <2>7. ToReceive(u) => ToReceive(u)'
      BY <1>0 DEF ToReceive
    <2>8. ToRollBack(u) => ToRollBack(u)'
      <3>1. ASSUME NEW v \in Mine, req[v].id = u, asked[v] = "move",
                   req[v].phase \in {"sent", "refused"}, Faithful(row, previous[v], u)
            PROVE  ToRollBack(u)'
        <4>1. v # w
          BY <1>0, <3>1
        <4>2. req'[v] = req[v] /\ asked'[v] = asked[v] /\ previous'[v] = previous[v]
          BY <1>0, <4>1
        <4> QED BY <1>0, <3>1, <4>2 DEF ToRollBack
      <3> QED BY <3>1 DEF ToRollBack
    <2>9. ToRemove(u) => ToRemove(u)'
      BY <1>0 DEF ToRemove, In
    <2> QED BY <1>0, <2>1, <2>2, <2>3, <2>4, <2>5, <2>6, <2>7, <2>8, <2>9 DEF Explained
  <1>2. \A v \in Requests : req[v].phase = "written" => req'[v] = req[v]
    BY <1>0
  <1> QED BY <1>0, <1>1, <1>2, PageKeeps

LEMMA ReasonsAnswered ==
    ASSUME TypeOK, Stamps, Traces, Tracked, Reasons,
           NEW w \in Mine, Replaced(w) \/ Settled(w)
    PROVE  Reasons'
  <1>0. /\ row' = row /\ events' = events /\ SameStream /\ link' = link
        /\ lastSeen' = lastSeen /\ seen' = seen /\ wire' = wire /\ asked' = asked
        /\ req[w].phase \in {"logged", "refused"} /\ req'[w].id = req[w].id
        /\ \A v \in Requests \ {w} : req'[v] = req[v]
        /\ \A v \in Mine \ {w} : previous'[v] = previous[v]
        /\ Sorts({}) /\ Mine \subseteq Requests /\ req[w].id \in Tasks
    <2>1. Ended(w)
      BY DEF Replaced, Settled
    <2>2. Sorts({})
      BY DEF Replaced, Settled, Sorts
    <2>3. Mine \subseteq Requests /\ req[w].id \in Tasks
      BY ReasonParts
    <2> QED BY <2>1, <2>2, <2>3 DEF Ended, SameStream, In
  <1>1. ASSUME NEW u \in Tasks PROVE Explained(u)'
    <2>1. Explained(u)
      BY DEF Reasons
    <2>3. u \in blamed => u \in blamed' \/ Faithful(row', cards', u)
      BY <1>0 DEF Sorts
    <2>4. (Doubled(u) <=> DoubledIn(cards, u)) /\ (Doubled(u)' <=> DoubledIn(cards', u))
      BY DEF Doubled, DoubledIn
    <2>5. ToLog(u) => ToLog(u)'
      BY <1>0 DEF ToLog, In
    <2>6. ToSend(u) => ToSend(u)'
      BY <1>0 DEF ToSend, Unsent
    <2>7. ToReceive(u) => ToReceive(u)'
      BY <1>0 DEF ToReceive
    <2>8. ToRollBack(u) => ToRollBack(u)' \/ (asked[w] = "move" /\ In(w, "refused")
                                              /\ Faithful(row, previous[w], u))
      <3>1. ASSUME NEW v \in Mine, req[v].id = u, asked[v] = "move", v # w,
                   req[v].phase \in {"sent", "refused"}, Faithful(row, previous[v], u)
            PROVE  ToRollBack(u)'
        <4>2. req'[v] = req[v] /\ previous'[v] = previous[v]
          BY <1>0, <3>1
        <4> QED BY <1>0, <3>1, <4>2 DEF ToRollBack
      <3> QED BY <1>0, <3>1 DEF ToRollBack, In
    <2>9. ToRemove(u) => ToRemove(u)' \/ (asked[w] = "delete" /\ In(w, "logged") /\ u = req[w].id)
      BY <1>0 DEF ToRemove, In
    <2>10. CASE Replaced(w)
      <3>1. Faithful(row, cards, u) \/ Doubled(u) => u \in blamed' \/ Faithful(row', cards', u)
        BY <1>0, <2>4, <2>10 DEF Replaced
      <3>2. /\ asked[w] # "delete"
            /\ asked[w] = "move" /\ In(w, "refused") => cards' = previous[w]
        BY <2>10 DEF Replaced, In
      <3> QED BY <1>0, <2>1, <2>3, <2>5, <2>6, <2>7, <2>8, <2>9, <3>1, <3>2 DEF Explained
    <2>11. CASE Settled(w)
      <3>1. asked[w] # "move"
        BY <2>11 DEF Settled
      <3>2. CASE u = req[w].id /\ asked[w] = "delete"
        <4>1. CASE cards' = cards /\ Sorts(IF asked[w] = "delete" THEN {req[w].id} ELSE {})
          <5>1. u \in blamed' \/ Faithful(row', cards', u)
            BY <3>2, <4>1 DEF Sorts
          <5> QED BY <5>1 DEF Explained
        <4>2. CASE In(w, "logged") /\ ~Holds(cards', req[w].id)
          <5>1. row[u] = NoRow
            BY <1>0, <3>2, <4>2 DEF Tracked, Matches
          <5>2. Faithful(row', cards', u)
            BY <1>0, <3>2, <4>2, <5>1 DEF Faithful
          <5> QED BY <5>2 DEF Explained
        <4> QED BY <2>11, <4>1, <4>2 DEF Settled
      <3>3. CASE ~(u = req[w].id /\ asked[w] = "delete")
        <4>1. /\ Faithful(row, cards', u) <=> Faithful(row, cards, u)
              /\ DoubledIn(cards', u) <=> DoubledIn(cards, u)
          BY <2>11, <3>3 DEF Settled
        <4> QED BY <1>0, <2>1, <2>3, <2>4, <2>5, <2>6, <2>7, <2>8, <2>9, <3>1, <3>3, <4>1 DEF Explained
      <3> QED BY <3>2, <3>3
    <2> QED BY <2>10, <2>11
  <1>2. \A v \in Requests : req[v].phase = "written" => req'[v] = req[v]
    BY <1>0
  <1> QED BY <1>0, <1>1, <1>2, PageKeeps

LEMMA ReasonsStep ==
    ASSUME TypeOK, Stamps, Traces, Tracked, Reasons, [Next]_vars
    PROVE  Reasons'
  <1>1. CASE UNCHANGED vars
    <2>1. \A t \in Tasks : Explained(t)' <=> Explained(t)
      BY <1>1 DEF vars, server, stream, page, Explained, Doubled, ToLog, ToSend, Unsent, ToReceive,
                 ToRollBack, ToRemove, In
    <2>2. \A i \in DOMAIN wire : Overtaken(i)' <=> Overtaken(i)
      BY <1>1 DEF vars, server, stream, page, Overtaken, ToLog, ToSend, Unsent, In
    <2> QED BY <1>1, <2>1, <2>2 DEF Reasons, vars, stream
  <1>2. CASE Loaded \/ Connected \/ Dropped \/ Polled \/ Took
    BY <1>2, ReasonsLoad, ReasonsConnect, ReasonsDrop, ReasonsPoll, ReasonsTook
  <1> QED BY <1>1, <1>2, Cases, ReasonsWrote, ReasonsRemoved, ReasonsLogged, ReasonsDenied, ReasonsPrepared, ReasonsCommitted,
             ReasonsAsked, ReasonsAnswered

-----------------------------------------------------------------------------
LEMMA InitIInv ==
    ASSUME Init
    PROVE  IInv
  <1> USE DEF Init, FeedInit
  <1>1. /\ events = {} /\ clock = 1 /\ lastSeen = 0 /\ seen = {} /\ wire = <<>> /\ cards = <<>>
        /\ link = "loading" /\ asked = [w \in Mine |-> "none"] /\ previous = [w \in Mine |-> <<>>]
        /\ drops = 0 /\ blamed = {}
    OBVIOUS
  <1>2. PICK first \in Tasks : req = [w \in Requests |->
            [op |-> "update", id |-> first, ver |-> 0, phase |-> "unsent"]]
    BY BoardPageAssumption
  <1>3. /\ req \in [Requests -> ReqRecords]
        /\ \A w \in Requests : req[w].phase = "unsent"
    <2>1. [op |-> "update", id |-> first, ver |-> 0, phase |-> "unsent"] \in ReqRecords
      BY DEF ReqRecords, Kinds, Phases
    <2>2. req \in [Requests -> ReqRecords]
      BY <1>2, <2>1
    <2>3. \A w \in Requests : req[w].phase = "unsent"
      BY <1>2
    <2> QED BY <2>2, <2>3
  <1>4. row \in [Tasks -> Nat]
    BY DEF NoRow
  <1>5. Mine \subseteq Requests /\ MaxDrops \in Nat
    BY BoardPageAssumption
  <1>6. TypeOK
    <2>1. wire \in Seq([id : Tasks, ver : Nat]) /\ cards \in Seq(Cards)
          /\ previous \in [Mine -> Seq(Cards)] /\ asked \in [Mine -> Handlers] /\ drops \in 0..MaxDrops
      BY <1>1, <1>5 DEF Handlers
    <2> QED BY <1>1, <1>3, <1>4, <2>1, TypeParts
  <1>7. Stamps
    BY <1>1, <1>3, FS_EmptySet DEF Stamps, Due
  <1>8. Traces
    BY <1>1 DEF Traces
  <1>9. Tracked
    BY <1>1, <1>3 DEF Tracked, Matches, Unborn, In
  <1>10. Reasons
    BY <1>1 DEF Reasons, Explained
  <1>11. Doubles
    BY <1>1 DEF Doubles, DoubledIn
  <1> QED BY <1>6, <1>7, <1>8, <1>9, <1>10, <1>11 DEF IInv

LEMMA Inductive == Spec => []IInv
  <1>1. IInv /\ [Next]_vars => IInv'
    BY TypeStep, StampsStep, TracesStep, TrackedStep, ReasonsStep, DoublesStep DEF IInv
  <1> QED BY InitIInv, <1>1, PTL DEF Spec

(* The variables keep their types: a request holds a list to restore only  *)
(* while it is a move that is not over, the wire carries only versions of  *)
(* tasks, and no connection breaks beyond the bound.                       *)
THEOREM TypeCorrect == Spec => []TypeOK
  <1>1. IInv => TypeOK
    BY DEF IInv
  <1> QED BY Inductive, <1>1, PTL

(* Whatever the tasks, the requests, the polls and the broken connections: *)
(* a card is only ever wrong while the refresh that will correct it is on  *)
(* its way, while its task is shown twice, or for one of the reasons the   *)
(* code is known to give (connect, mergeTaskIntoList, handleTaskMove's     *)
(* previousTasks, the answers of handleTaskSave and handleDeleteTask).     *)
THEOREM StaleOnlyIfExplained == Spec => []StaleIsExplained
  <1>1. ASSUME IInv PROVE StaleIsExplained
    <2>1. \A t \in Tasks : Explained(t)
      BY <1>1 DEF IInv, Reasons
    <2>2. ASSUME NEW t \in Tasks
          PROVE  Faithful(row, cards, t) \/ t \in blamed \/ Doubled(t) \/ Awaited(t)
      <3>1. ToLog(t) => Awaited(t)
        BY DEF ToLog, Awaited
      <3>2. ToSend(t) => Awaited(t)
        BY DEF ToSend, Awaited
      <3>3. ToReceive(t) => Awaited(t)
        BY DEF ToReceive, Awaited
      <3>4. ToRollBack(t) => Awaited(t)
        BY DEF ToRollBack, Awaited
      <3>5. ToRemove(t) => Awaited(t)
        BY DEF ToRemove, Awaited
      <3>6. link = "loading" => Awaited(t)
        BY DEF Awaited
      <3> QED BY <2>1, <3>1, <3>2, <3>3, <3>4, <3>5, <3>6 DEF Explained
    <2> QED BY <2>2 DEF StaleIsExplained
  <1> QED BY Inductive, <1>1, PTL

(* The stream, the rollback and the answers never put a second card of a   *)
(* task on the list, but for the creations of this page, whose answer is   *)
(* put in front of a card the stream may have brought (handleCreateTask).  *)
THEOREM DoubledOnlyIfCreated == Spec => []DoubledOnlyIfCreatedHere
  <1>1. IInv => DoubledOnlyIfCreatedHere
    BY DEF IInv, Doubles, DoubledOnlyIfCreatedHere, Doubled, DoubledIn, CreatedHere
  <1> QED BY Inductive, <1>1, PTL
=============================================================================
