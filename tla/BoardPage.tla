------------------------------ MODULE BoardPage ------------------------------
(***************************************************************************)
(* The task list of the board page (app/boards/[boardId]/page.tsx): filled *)
(* from a snapshot, kept up to date by the event stream of TaskFeed, which *)
(* is reconnected from the newest stamp in the list, and changed by the    *)
(* page's own creations, moves, saves and deletions.                       *)
(***************************************************************************)
EXTENDS TaskFeed, SequencesExt

CONSTANTS
    Mine,       \* the requests of this page, numbered as it sends them; the
                \* others are of agents and other users
    MaxDrops    \* bound: connections that break

ASSUME BoardPageAssumption ==
    IsFiniteSet(Tasks) /\ Tasks # {} /\ Mine \subseteq Requests \cap Nat /\ MaxDrops \in Nat

VARIABLES
    cards,      \* tasks, the list the page shows
    link,       \* "loading", then the stream is "down" or "up"
    asked,      \* per request of this page: which handler sent it
    previous,   \* per move: previousTasks
    drops,      \* connections broken so far
    blamed      \* history: tasks the page shows wrongly for a known reason

page == <<cards, link, asked, previous, drops, blamed>>
vars == <<server, stream, page>>

Others == Requests \ Mine
Handlers == {"none", "create", "move", "save", "delete"}
Cards == [id : Tasks, ver : Nat, moved : BOOLEAN]  \* moved: a status set here

TypeOK ==
    /\ FeedTypeOK
    /\ cards \in Seq(Cards)
    /\ link \in {"loading", "down", "up"}
    /\ asked \in [Mine -> Handlers]
    /\ previous \in [Mine -> Seq(Cards)]
    /\ \A w \in Mine : previous[w] # <<>> => asked[w] = "move" /\ ~In(w, "over")
    /\ drops \in 0..MaxDrops
    /\ blamed \subseteq Tasks

Init ==
    /\ FeedInit
    /\ cards = <<>> /\ link = "loading"
    /\ asked = [w \in Mine |-> "none"]
    /\ previous = [w \in Mine |-> <<>>]
    /\ drops = 0 /\ blamed = {}

-----------------------------------------------------------------------------
Card(t, ver) == [id |-> t, ver |-> ver, moved |-> FALSE]
Holds(list, t) == \E i \in DOMAIN list : list[i].id = t

(* The list shows the task as its row is. *)
Faithful(rows, list, t) ==
    IF rows[t] = NoRow THEN ~Holds(list, t)
    ELSE Holds(list, t) /\ \A i \in DOMAIN list :
            list[i].id = t => list[i] = Card(t, rows[t])

(* The tasks a step of the page makes wrong that were shown right before. *)
Doubled(t) == \E i, j \in DOMAIN cards : i # j /\ cards[i].id = t /\ cards[j].id = t
Spoils(list) == {t \in Tasks : /\ Faithful(row, cards, t) \/ Doubled(t)
                               /\ ~Faithful(row, list, t)}

(* A task shown right is cleared, unless an older copy is on the wire. *)
Blame(rows, list, msgs, ids) ==
    blamed' = {t \in blamed \cup ids :
        ~Faithful(rows, list, t) \/ \E i \in DOMAIN msgs : msgs[i].id = t /\ msgs[i].ver # rows[t]}
ShowWith(list, msgs, ids) == cards' = list /\ Blame(row, list, msgs, ids)
Show(list, ids) == ShowWith(list, wire, ids)

(* latestTaskTimestamp, in a set of its own. Without it, the server starts *)
(* from its own clock, which is past every stamp there is.                 *)
Latest(list) == IF list = <<>> THEN {clock + 1}
    ELSE {n \in {list[i].ver : i \in DOMAIN list} : \A i \in DOMAIN list : n >= list[i].ver}

(* loadBoard *)
LoadBoard ==
    /\ link = "loading"
    /\ Show(SetToSeq({Card(t, row[t]) : t \in {u \in Tasks : row[u] # NoRow}}), {})
    /\ link' = "down"
    /\ UNCHANGED <<server, stream, asked, previous, drops>>

(* Mutant: the page always starts from the time of the connection. *)
SinceNow == {clock + 1}

Since == Latest(cards)

(* connect; an event before the newest stamp in the list is never asked for *)
Skipped == {e.id : e \in {f \in events : \E n \in Latest(cards) : f.at < n}}

(* Mutant: a broken connection is not opened again. *)
FirstOnly == link = "down" /\ drops = 0

CanConnect == link = "down"

Connect ==
    /\ CanConnect
    /\ \E since \in Since : Open(since)
    /\ link' = "up"
    /\ Show(cards, Skipped)
    /\ UNCHANGED <<server, asked, previous, drops>>

(* The connection breaks, or the page is hidden: what was not read is lost. *)
Drop ==
    /\ link = "up" /\ drops < MaxDrops
    /\ drops' = drops + 1
    /\ link' = "down"
    /\ wire' = <<>>
    /\ UNCHANGED <<server, lastSeen, seen, cards, asked, previous, blamed>>

(* Mutant: every payload becomes a card. *)
Prepended(list, p) == <<Card(p.id, p.ver)>> \o list

(* A task payload updates the first card with its id or becomes a new card. *)
First(list, t) == {i \in DOMAIN list : list[i].id = t /\ \A j \in 1..(i - 1) : list[j].id # t}

Merged(list, p) ==
    IF Holds(list, p.id)
    THEN [i \in DOMAIN list |-> IF i \in First(list, p.id) THEN Card(p.id, p.ver) ELSE list[i]]
    ELSE <<Card(p.id, p.ver)>> \o list

(* A payload about a task deleted since brings its card back. *)
Receive ==
    /\ link = "up" /\ wire # <<>>
    /\ ShowWith(Merged(cards, Head(wire)), Tail(wire),
            IF row[Head(wire).id] = NoRow THEN {Head(wire).id} ELSE {})
    /\ wire' = Tail(wire)
    /\ UNCHANGED <<server, lastSeen, seen, link, asked, previous, drops>>

-----------------------------------------------------------------------------
(* The page's own requests; an answer that is over leaves Underway. *)

(* Mutant: every request keeps the list. *)
KeepsList(w, handler) == cards

Kept(w, handler) == IF handler = "move" THEN cards ELSE <<>>

Ask(w, handler, op, t, list) ==
    /\ link # "loading"
    /\ \A v \in Mine : v < w => ~In(v, "unsent")
    /\ Send(w, op, t)
    /\ asked' = [asked EXCEPT ![w] = handler]
    /\ previous' = [previous EXCEPT ![w] = Kept(w, handler)]
    /\ Show(list, {})
    /\ UNCHANGED <<stream, link, drops>>

Busy(handler) == \E w \in Mine : asked[w] = handler /\ Underway(w)

(* handleCreateTask; the dialog's button is disabled while it runs *)
CreateTask(w, t) == ~Busy("create") /\ Ask(w, "create", "create", t, cards)

(* handleTaskMove: the status is shown before the server has answered *)
Moved(list, t) == [i \in DOMAIN list |->
    IF list[i].id = t THEN [id |-> t, ver |-> list[i].ver, moved |-> TRUE] ELSE list[i]]

MoveTask(w, t) == Holds(cards, t) /\ Ask(w, "move", "update", t, Moved(cards, t))

(* handleTaskSave, handleDeleteTask *)
SaveTask(w, t) == Holds(cards, t) /\ ~Busy("save") /\ Ask(w, "save", "update", t, cards)
DeleteTask(w, t) == Holds(cards, t) /\ ~Busy("delete") /\ Ask(w, "delete", "delete", t, cards)

(* The answer to a move or a save carries the row as this request left it, *)
(* which may be older than what the stream has brought.                    *)
Answered(list, t, ver) == [i \in DOMAIN list |->
    IF list[i].id = t THEN Card(t, ver) ELSE list[i]]

Over(w) ==
    /\ req' = [req EXCEPT ![w].phase = "over", ![w].ver = 0]
    /\ previous' = [previous EXCEPT ![w] = <<>>]
    /\ UNCHANGED <<row, events, clock, stream, link, asked, drops>>

Finish(w) ==
    /\ In(w, "logged")
    /\ Over(w)

UpdateAnswered(w) ==
    LET list == Answered(cards, req[w].id, req[w].ver) IN
    /\ asked[w] \in {"move", "save"}
    /\ Finish(w)
    /\ Show(list, Spoils(list))

(* The created task is put in front of the list, which may show it already. *)
CreateAnswered(w) ==
    LET list == <<Card(req[w].id, req[w].ver)>> \o cards IN
    /\ asked[w] = "create"
    /\ Finish(w)
    /\ Show(list, Spoils(list))

DeleteAnswered(w) ==
    /\ asked[w] = "delete"
    /\ Finish(w)
    /\ LET kept == {i \in DOMAIN cards : cards[i].id # req[w].id} IN
       \E order \in [1..Cardinality(kept) -> kept] :
           /\ \A i, j \in DOMAIN order : i < j => order[i] < order[j]
           /\ Show([i \in DOMAIN order |-> cards[order[i]]], {})

(* A failed move puts back the whole list of the time it began, with what  *)
(* other moves had changed then and without what has arrived since.        *)
Restored(w) == IF asked[w] = "move" THEN previous[w] ELSE cards

(* The server refuses, or its answer is lost although it wrote. *)
RequestFails(w) ==
    /\ In(w, "refused") \/ In(w, "logged")
    /\ Over(w)
    /\ Show(Restored(w), CASE asked[w] = "move" -> Spoils(previous[w])
                           [] asked[w] = "delete" -> {req[w].id}
                           [] OTHER -> {})

-----------------------------------------------------------------------------
(* The server's steps, and what they hide from this page: an event         *)
(* committed after a later one was sent, and a deletion by somebody else.  *)
Late(w) == (In(w, "written") \/ In(w, "stamped")) /\ link = "up" /\ req[w].ver + 1 < lastSeen

ServerStep(w) ==
    /\ Serve(w)
    /\ Blame(row', cards, wire, IF Late(w) THEN {req[w].id} ELSE {})
    /\ UNCHANGED <<stream, cards, link, asked, previous, drops>>

OtherStep(w, op, t) ==
    /\ ServeOther(w, op, t)
    /\ Blame(row', cards, wire, IF op = "delete" THEN {t} ELSE {})
    /\ UNCHANGED <<stream, cards, link, asked, previous, drops>>

PollStep == link = "up" /\ Poll /\ UNCHANGED page

AnswerStep(w) ==
    \/ UpdateAnswered(w) \/ CreateAnswered(w) \/ DeleteAnswered(w) \/ RequestFails(w)

UserStep(w, t) ==
    CreateTask(w, t) \/ MoveTask(w, t) \/ SaveTask(w, t) \/ DeleteTask(w, t)

Next ==
    \/ LoadBoard \/ Connect \/ Drop \/ PollStep \/ Receive
    \/ \E w \in Requests : ServerStep(w)
    \/ \E w \in Others, op \in Kinds, t \in Tasks : OtherStep(w, op, t)
    \/ \E w \in Mine, t \in Tasks : UserStep(w, t)
    \/ \E w \in Mine : AnswerStep(w)

Spec == Init /\ [][Next]_vars

(* The page loads, reconnects and reads for as long as it is shown, the    *)
(* stream polls, and a request that was sent is served and answered.       *)
FairSpec ==
    /\ Spec
    /\ WF_vars(LoadBoard) /\ WF_vars(Connect) /\ WF_vars(PollStep) /\ WF_vars(Receive)
    /\ \A w \in Requests : WF_vars(ServerStep(w))
    /\ \A w \in Mine : WF_vars(AnswerStep(w))

-----------------------------------------------------------------------------
(* Something is on its way that will show the task as it is. *)
Awaited(t) ==
    \/ link = "loading"
    \/ \E w \in Requests : req[w].id = t /\ In(w, "written")
    \/ \E w \in Mine : req[w].id = t /\ asked[w] = "move"
                       /\ req[w].phase \in {"sent", "refused"}
    \/ \E w \in Mine : req[w].id = t /\ In(w, "logged")
                       /\ (asked[w] = "delete" \/ req[w].ver = row[t])
    \/ \E i \in DOMAIN wire : wire[i] = [id |-> t, ver |-> row[t]]
    \/ \E e \in IF link = "up" THEN Unsent ELSE events : e.id = t

(* A card differs from the task's row only while a refresh is on its way,  *)
(* or for one of the reasons in blamed: a rollback or an answer put an     *)
(* older copy over a newer one, the reconnect cursor passed an event, an   *)
(* event was committed after a later one was sent, or the task was deleted *)
(* where the stream cannot tell (the merge and cursor code, 1213-1850).    *)
StaleIsExplained ==
    \A t \in Tasks : Faithful(row, cards, t) \/ t \in blamed \/ Doubled(t) \/ Awaited(t)

(* The stream, the rollback and the answers never show a task twice, except *)
(* for one this page created, whose event came before the answer (2027).   *)
DoubledOnlyIfCreatedHere ==
    \A t \in Tasks : Doubled(t) =>
        \E w \in Mine : asked[w] = "create" /\ req[w].id = t

(* Once nobody sends requests any more, the list comes to show every task  *)
(* as it is, across broken connections, but for the same reasons.          *)
Converges == <>[](\A t \in Tasks : Faithful(row, cards, t) \/ t \in blamed \/ Doubled(t))
=============================================================================
