------------------------------ MODULE Onboarding ------------------------------
(***************************************************************************)
(* Board onboarding: the user answers the gateway agent's questions in a   *)
(* dialog (components/BoardOnboardingChat.tsx), the agent replies over its *)
(* own endpoint, and both write the transcript of the latest session       *)
(* (app/api/board_onboarding.py). The dialog polls while it waits.         *)
(***************************************************************************)
EXTENDS Naturals, FiniteSets, Sequences

CONSTANTS
    MaxDialogs, MaxPolls, MaxMessages, MaxTrouble,   \* bounds
    None       \* no session, no request

VARIABLES
    rows,      \* board_onboarding_sessions
    newest,    \* the row updated last; 0 when there is none
    due,       \* messages delivered to the agent that it has not replied to
    said,      \* messages the agent has composed so far
    call,      \* the POST of each dialog, under way or the last of one left
    opened,    \* dialogs opened so far, by the user's tabs or by other members
    open,      \* those still on a page
    get,       \* their polls under way, or the answers of these
    session,   \* the session each of them shows
    awaiting,  \* awaitingAssistantFingerprint; 0 when there is none
    faults,
    lost,      \* history: a reply, or the start, got lost
    stale      \* history: the dialogs that may show something out of date

server == <<rows, newest, due, said>>
dialogs == <<opened, open, get, session, awaiting>>
history == <<faults, lost, stale>>
onboarding == <<server, call, dialogs, history>>

Dialogs == 1..MaxDialogs
Polls == 1..MaxPolls
Told == Nat   \* the number of a message of the agent; 0 for none

(* last: the latest message of the agent in the transcript, which is what  *)
(* the dialog takes a fingerprint of; turn: who wrote the last of all.     *)
Rows == [status : {"active", "completed", "confirmed"}, turn : {"user", "assistant"},
         last : Told, kind : {"none", "question", "complete"}, draft : Told]
Copies == [id : Dialogs, last : Told, kind : {"none", "question", "complete"}, draft : Told]
Posts == [op : {"none", "start", "answer", "confirm"},
          phase : {"idle", "sent", "dispatched", "ok", "failed"},
          copy : Copies \cup {None}, before : Told]
Post(op, phase, copy, before) ==
    [op |-> op, phase |-> phase, copy |-> copy, before |-> before]
NoCall == Post("none", "idle", None, 0)
Start == Post("start", "sent", None, 0)

ASSUME BoundsAssumption ==
    MaxDialogs \in Nat /\ MaxPolls \in Nat /\ MaxMessages \in Nat /\ MaxTrouble \in Nat
ASSUME MarksAssumption == None \notin Copies

TypeOK ==
    /\ rows \in Seq(Rows) /\ Len(rows) <= MaxDialogs
    /\ \A r \in DOMAIN rows : rows[r].draft # 0 => rows[r].status # "active"
    /\ newest \in 0..Len(rows)
    /\ due \in Nat /\ said \in Told
    /\ call \in [Dialogs -> Posts]
    /\ opened \in 0..MaxDialogs /\ open \subseteq 1..opened
    /\ get \in [Dialogs -> [Polls -> {None} \cup Copies]]
    /\ session \in [Dialogs -> {None} \cup Copies]
    /\ awaiting \in [Dialogs -> Told]
    /\ faults \in 0..MaxTrouble
    /\ lost \in BOOLEAN /\ stale \subseteq 1..opened

Init ==
    /\ rows = <<>> /\ newest = 0 /\ due = 0 /\ said = 0
    /\ call = [i \in Dialogs |-> NoCall]
    /\ opened = 0 /\ open = {}
    /\ get = [i \in Dialogs |-> [p \in Polls |-> None]]
    /\ session = [i \in Dialogs |-> None]
    /\ awaiting = [i \in Dialogs |-> 0]
    /\ faults = 0 /\ lost = FALSE /\ stale = {}

(* What a dialog shows of a session, and what an answer writes back. *)
CopyOf(r, row) == [id |-> r, last |-> row.last, kind |-> row.kind, draft |-> row.draft]
Copy(r) == CopyOf(r, rows[r])
IsLatest(copy) == newest # 0 /\ copy = Copy(newest)

(* Dialogs open at once, and what has gone wrong so far, a call failed or  *)
(* retried or a poll overtaken, are bounded together.                      *)
LittleTrouble == faults + Cardinality(open) < MaxTrouble
Fail == LittleTrouble /\ faults' = faults + 1

-----------------------------------------------------------------------------
(* The server. Messages to the agent go over the gateway, which may take   *)
(* one and fail, or take it again on a retry, before the row is written.   *)

Phase(i, op, phase) == call[i].op = op /\ call[i].phase = phase
Dispatching == {i \in Dialogs : call[i].phase = "dispatched"}
Set(i, phase, copy) == call' = [call EXCEPT ![i] =
    IF phase = "dispatched" \/ i \in open
    THEN Post(@.op, phase, copy, @.before)
    ELSE NoCall]   \* nobody waits for the answer

(* _dispatch_gateway_message, with its retry. The dialogs it is not done   *)
(* for do not know what the agent was told, and nobody knows that it was   *)
(* told twice or by a call that failed.                                    *)
Dispatch(i, copy, knowing) ==
    \/ /\ due' = due + 1
       /\ Set(i, "dispatched", copy)
       /\ stale' = stale \cup ((1..opened) \ knowing)
       /\ UNCHANGED <<faults, lost>>
    \/ /\ due' = due + 2 /\ Fail
       /\ Set(i, "dispatched", copy)
       /\ stale' = 1..opened
       /\ UNCHANGED lost
    \/ /\ due' \in {due, due + 1} /\ Fail
       /\ Set(i, "failed", None)
       /\ stale' = IF due' = due THEN stale ELSE 1..opened
       /\ lost' = (lost \/ call[i].op = "start")

Active == {r \in DOMAIN rows : rows[r].status = "active"}

(* start_onboarding with an active session: the last message of the user   *)
(* is sent again when it is the last of all, and the dialog gets to show   *)
(* the question asked before it.                                           *)
ResumeStart(i) ==
    /\ Phase(i, "start", "sent")
    /\ \E r \in Active :
        IF rows[r].turn = "user"
        THEN Dispatch(i, Copy(r), IF rows[r].kind = "none" THEN {i} ELSE {})
        ELSE Set(i, "ok", Copy(r)) /\ UNCHANGED <<due, faults, lost, stale>>
    /\ UNCHANGED <<rows, newest, said, dialogs>>

FirstStart(i) ==
    /\ Phase(i, "start", "sent") /\ Active = {}
    /\ Dispatch(i, None, {i})
    /\ UNCHANGED <<rows, newest, said, dialogs>>

NewRow == [status |-> "active", turn |-> "user", last |-> 0, kind |-> "none", draft |-> 0]

(* The row is touched, or inserted, after the gateway has taken the prompt. *)
FinishStart(i) ==
    /\ Phase(i, "start", "dispatched")
    /\ LET r == IF call[i].copy = None THEN Len(rows) + 1 ELSE call[i].copy.id IN
       /\ newest' = r
       /\ rows' = IF r \in DOMAIN rows THEN rows ELSE Append(rows, NewRow)
       /\ Set(i, "ok", CopyOf(r, rows'[r]))
    /\ UNCHANGED <<due, said, dialogs, history>>

(* answer_onboarding: the transcript is copied before the gateway is called *)
(* and written back after.                                                 *)
SendAnswer(i) ==
    /\ Phase(i, "answer", "sent") /\ newest # 0
    /\ Dispatch(i, Copy(newest), {i})
    /\ UNCHANGED <<rows, newest, said, dialogs>>

FinishAnswer(i) ==
    /\ Phase(i, "answer", "dispatched")
    /\ LET r == call[i].copy.id
           old == call[i].copy IN
       /\ rows' = [rows EXCEPT ![r].turn = "user", ![r].last = old.last, ![r].kind = old.kind]
       /\ newest' = r
       /\ Set(i, "ok", CopyOf(r, rows'[r]))
       /\ lost' = (lost \/ rows[r].last # old.last)
    /\ UNCHANGED <<due, said, dialogs, faults, stale>>

(* confirm_onboarding fails before the commit, or after it, when the lead  *)
(* agent cannot be provisioned, or not at all.                             *)
Confirm(i) ==
    /\ Phase(i, "confirm", "sent") /\ newest # 0
    /\ \/ rows' = [rows EXCEPT ![newest].status = "confirmed"]
          /\ \/ Set(i, "ok", None) /\ UNCHANGED faults
             \/ Set(i, "failed", None) /\ Fail
       \/ Set(i, "failed", None) /\ Fail /\ UNCHANGED rows
    /\ UNCHANGED <<newest, due, said, dialogs, lost, stale>>

(* agent_onboarding_update, on the latest row: 404 or 409 and the message  *)
(* is lost, or it joins the transcript.                                    *)

(* Mutant: a complete message leaves the status as it is. *)
DraftOnly(row, n, kind) == [row EXCEPT
    !.turn = "assistant", !.last = n, !.kind = kind,
    !.draft = IF kind = "complete" THEN n ELSE @]

Replied(row, n, kind) == [row EXCEPT
    !.turn = "assistant", !.last = n, !.kind = kind,
    !.status = IF kind = "complete" THEN "completed" ELSE @,
    !.draft = IF kind = "complete" THEN n ELSE @]

(* Some call has told the agent on behalf of another session. *)
ForAnother == \E i \in Dispatching : call[i].copy = None \/ call[i].copy.id # newest

AgentReplies ==
    /\ due > 0
    /\ due' = due - 1
    /\ said' = said + 1
    /\ IF newest = 0 \/ rows[newest].status = "confirmed"
       THEN lost' = TRUE /\ UNCHANGED rows
       ELSE /\ \E kind \in {"question", "complete"} :
                   rows' = [rows EXCEPT ![newest] = Replied(@, said + 1, kind)]
            /\ lost' = (lost \/ ForAnother)
    /\ UNCHANGED <<newest, call, dialogs, faults, stale>>

-----------------------------------------------------------------------------
(* The dialogs. *)

Loading(i) == call[i].op # "none"   \* loading, set and cleared with the POST
Draft(i) == session[i] # None /\ session[i].draft # 0
Question(i) == session[i] # None /\ session[i].kind = "question"
Last(i) == IF session[i] = None THEN 0 ELSE session[i].last
IsAwaitingAgent(i) == awaiting[i] # 0 /\ awaiting[i] = Last(i)

(* Mutant: the dialog polls only until there is something to show. *)
PollsUntilShown(i) == i \in open /\ (Loading(i) \/ (~Question(i) /\ ~Draft(i)))

ShouldPoll(i) ==
    i \in open /\ (Loading(i) \/ IsAwaitingAgent(i) \/ (~Question(i) /\ ~Draft(i)))

(* Messages told, or soon to be told, to the agent are bounded. *)
MoreMessages ==
    said + due + Cardinality({i \in Dialogs : call[i].phase = "sent"}) < MaxMessages

(* The page opens the dialog, in a tab or at another member's. *)
Open ==
    /\ opened < MaxDialogs /\ MoreMessages /\ LittleTrouble
    /\ opened' = opened + 1 /\ open' = open \cup {opened'}
    /\ call' = [call EXCEPT ![opened'] = Start]
    /\ stale' = IF due > 0 \/ Dispatching # {} THEN stale \cup {opened'} ELSE stale
    /\ UNCHANGED <<server, get, session, awaiting, faults, lost>>

Gone(i) ==
    /\ open' = open \ {i}
    /\ get' = [get EXCEPT ![i] = [p \in Polls |-> None]]
    /\ session' = [session EXCEPT ![i] = None]
    /\ awaiting' = [awaiting EXCEPT ![i] = 0]

(* It is closed, or the page reloaded; what was sent goes on at the server. *)
Leave(i) ==
    /\ i \in open
    /\ Gone(i)
    /\ call' = [call EXCEPT ![i] = IF @.phase \in {"sent", "dispatched"} THEN @ ELSE NoCall]
    /\ UNCHANGED <<server, opened, history>>

(* setSession, and the effect that ends the wait for a newer message. What *)
(* is shown may be out of date for a cause, or be the latest again.        *)
Show(i, copy, wait, cause) ==
    /\ session' = [session EXCEPT ![i] = copy]
    /\ awaiting' = [awaiting EXCEPT ![i] = IF wait = copy.last THEN wait ELSE 0]
    /\ stale' = IF IsLatest(copy) /\ due = 0 /\ Dispatching = {} /\ ~Loading(i)' THEN stale \ {i}
                ELSE IF cause THEN stale \cup {i} ELSE stale

(* refreshSession. The answer is computed while the dialog polls: computed *)
(* later, it would be as good as the next one, or help one out of date.    *)
Poll(i, p) ==
    /\ ShouldPoll(i) /\ get[i][p] = None /\ newest # 0
    /\ get' = [get EXCEPT ![i][p] = Copy(newest)]
    /\ IF \A q \in Polls : get[i][q] = None THEN UNCHANGED faults ELSE Fail
    /\ UNCHANGED <<server, call, opened, open, session, awaiting, lost, stale>>

(* An answer computed before the one shown takes its place all the same.   *)
PollArrives(i, p) ==
    /\ get[i][p] # None
    /\ get' = [get EXCEPT ![i][p] = None]
    /\ UNCHANGED call
    /\ Show(i, get[i][p], awaiting[i],
            session[i] \notin {None, get[i][p]} /\ ~IsLatest(get[i][p]))
    /\ UNCHANGED <<server, opened, open, faults, lost>>

(* Mutant: the controls are not disabled while the dialog waits. *)
EnabledWhileAwaiting(i) == i \in open /\ ~Loading(i) /\ (Draft(i) \/ Question(i))

CanAct(i) ==
    i \in open /\ ~Loading(i) /\ ~IsAwaitingAgent(i) /\ (Draft(i) \/ Question(i))

Ask(i, op, before) ==
    /\ CanAct(i)
    /\ call' = [call EXCEPT ![i] = Post(op, "sent", None, before)]
    /\ UNCHANGED <<server, opened, open, get, session, faults, lost, stale>>

(* handleAnswer on a question, submitExtraContext on a draft *)
HandleAnswer(i) ==
    /\ MoreMessages
    /\ Ask(i, "answer", Last(i))
    /\ awaiting' = [awaiting EXCEPT ![i] = 0]

ConfirmGoal(i) ==
    Draft(i) /\ Ask(i, "confirm", session[i].draft) /\ UNCHANGED <<awaiting>>

Return(i) ==
    /\ i \in open
    /\ call' = [call EXCEPT ![i] = NoCall]
    /\ UNCHANGED <<server, opened, faults, lost>>

(* The session may not be the one updated last. *)
StartReturns(i) ==
    /\ Phase(i, "start", "ok")
    /\ Return(i)
    /\ Show(i, call[i].copy, awaiting[i], call[i].copy.id # newest)
    /\ UNCHANGED <<open, get>>

(* Mutant: the dialog does not wait for the next message. *)
NoWait(before) == 0

Awaited(before) == before

(* Without a message of the agent there is none to wait past. *)
AnswerReturns(i) ==
    /\ Phase(i, "answer", "ok")
    /\ Return(i)
    /\ Show(i, call[i].copy, Awaited(call[i].before), call[i].before = 0)
    /\ UNCHANGED <<open, get>>

(* onConfirmed closes the dialog. *)
ConfirmReturns(i) ==
    /\ Phase(i, "confirm", "ok")
    /\ Return(i)
    /\ Gone(i)
    /\ UNCHANGED stale

CallFails(i) ==
    /\ call[i].phase = "failed"
    /\ Return(i)
    /\ UNCHANGED <<open, get, session, awaiting, stale>>

ServerStep(i) ==
    ResumeStart(i) \/ FirstStart(i) \/ FinishStart(i) \/ SendAnswer(i) \/ FinishAnswer(i) \/ Confirm(i)

Returns(i) == StartReturns(i) \/ AnswerReturns(i) \/ ConfirmReturns(i) \/ CallFails(i)

PollStep(i) == \E p \in Polls : Poll(i, p) \/ PollArrives(i, p)

Next ==
    \/ Open
    \/ AgentReplies
    \/ \E i \in Dialogs :
        \/ ServerStep(i)
        \/ PollStep(i)
        \/ HandleAnswer(i) \/ ConfirmGoal(i) \/ Leave(i) \/ Returns(i)

Spec ==
    /\ Init /\ [][Next]_onboarding
    /\ WF_onboarding(AgentReplies)
    /\ \A i \in Dialogs :
        WF_onboarding(ServerStep(i) \/ Returns(i)) /\ WF_onboarding(PollStep(i))

-----------------------------------------------------------------------------
(* A dialog that lets the user act shows the latest question or draft of   *)
(* the session, and the agent has nothing left to reply to. It may be      *)
(* otherwise only when the agent was told on behalf of another dialog      *)
(* since, or told twice by a retry or a call that failed, or was still     *)
(* being told, or still to reply, when the dialog was opened; when the     *)
(* start found the agent asked already or an older session; or when an     *)
(* older poll came late: the dialog shows something and so no longer polls *)
(* (BoardOnboardingChat.tsx:250). Until it has shown the latest again.     *)
StaleIsExplained == \A i \in Dialogs :
    CanAct(i) /\ i \notin stale => due = 0 /\ IsLatest(session[i])

(* An answer is sent for the question, and a draft is confirmed as, the    *)
(* user saw it, although the server takes whatever is latest, unless the   *)
(* dialog was already out of date, or another one told the agent before    *)
(* the server read the row.                                                *)
ActsOnWhatIsShown == \A i \in Dialogs \ stale :
    /\ Phase(i, "answer", "sent") => newest # 0 /\ rows[newest].last = call[i].before
    /\ Phase(i, "confirm", "sent") => newest # 0 /\ rows[newest].draft = call[i].before

(* No dialog waits for good while the agent replies to whatever it is      *)
(* told, unless a reply was lost: the transcript written back by an answer *)
(* overwrote it, or it went to another session than it was asked for, or   *)
(* came after the confirmation, or the start failed                        *)
(* (board_onboarding.py:299, 351).                                         *)
NeverWaitsForGood == \A i \in Dialogs : []<>(CanAct(i) \/ i \notin open \/ lost)
=============================================================================
