------------------------------- MODULE CaioPage -------------------------------
(***************************************************************************)
(* The Think Loop tab of the Caio page (app/caio/page.tsx) before the       *)
(* decision endpoints, which keep what DecisionLedger promises: a list      *)
(* reloaded every 30 seconds, answers in any order, a click that posts a   *)
(* verdict and patches the list from the answer. Verdicts come from        *)
(* Discord too, and Caio's runtime starts and completes approved events.   *)
(***************************************************************************)
EXTENDS CaioCards

CONSTANTS
    Events,
    Undecided,
    Loads,     \* bound: requests for the list under way at once
    Idle, NoAnswer, Refused   \* no request; not answered yet; 409

VARIABLES
    verdict, started, completed,   \* the server's ledger
    list,   \* response.items, the cards of the events shown
    load,   \* per request for the list: Idle, or its answer
    post    \* per event: the verdict posted and the answer to it

pageVars == <<verdict, started, completed, list, load, post>>

Ledger == INSTANCE DecisionLedger

(* What an answer says of an event. *)
Card(e) == [event |-> e, verdict |-> verdict[e],
            started |-> e \in started, completed |-> e \in completed]
Cards == [event : Events, verdict : Ledger!Verdicts \cup {Undecided},
          started : BOOLEAN, completed : BOOLEAN]
Snapshot == {Card(e) : e \in Events}

(* An answer is told from the absence of one. *)
ASSUME CaioPageAssumption ==
    /\ Undecided \notin Ledger!Verdicts
    /\ Idle # NoAnswer /\ NoAnswer # Refused
    /\ \A items \in SUBSET Cards : items # Idle /\ items # NoAnswer
    /\ \A c \in Cards : c # NoAnswer /\ c # Refused

NoPost == [asked |-> Undecided, answer |-> NoAnswer]
Answers == Cards \cup {NoAnswer, Refused}

TypeOK ==
    /\ verdict \in [Events -> Ledger!Verdicts \cup {Undecided}]
    /\ started \subseteq Events /\ completed \subseteq Events
    /\ list \subseteq Cards
    /\ load \in [Loads -> {Idle, NoAnswer} \cup SUBSET Cards]
    /\ post \in [Events -> [asked : Ledger!Verdicts \cup {Undecided}, answer : Answers]]

Init ==
    /\ Ledger!Init
    /\ list = {}
    /\ load = [l \in Loads |-> Idle]
    /\ post = [e \in Events |-> NoPost]

Unchanged == UNCHANGED <<verdict, started, completed>>

-----------------------------------------------------------------------------
(* load: from the interval, from Recarregar, or on mount. *)

(* Mutant: only the first load is sent. *)
OnceOnly(l) == load[l] = Idle /\ list = {}

CanLoad(l) == load[l] = Idle

SendLoad(l) ==
    /\ CanLoad(l)
    /\ load' = [load EXCEPT ![l] = NoAnswer]
    /\ UNCHANGED <<list, post>> /\ Unchanged

(* The log of events and the ledger are read; the list is empty when the   *)
(* log cannot be read, with a 200 all the same.                            *)
ServeLoad(l) ==
    /\ load[l] = NoAnswer
    /\ \E items \in {Snapshot, {}} : load' = [load EXCEPT ![l] = items]
    /\ UNCHANGED <<list, post>> /\ Unchanged

LoadArrives(l) ==
    /\ load[l] \notin {Idle, NoAnswer}
    /\ list' = load[l]
    /\ load' = [load EXCEPT ![l] = Idle]
    /\ UNCHANGED post /\ Unchanged

LoadFails(l) ==
    /\ load[l] # Idle
    /\ load' = [load EXCEPT ![l] = Idle]
    /\ UNCHANGED <<list, post>> /\ Unchanged

-----------------------------------------------------------------------------
(* markDecision; both buttons of a card are disabled while it runs. *)
MarkDecision(e, d) ==
    /\ post[e] = NoPost
    /\ \E c \in list : c.event = e
    /\ post' = [post EXCEPT ![e].asked = d]
    /\ UNCHANGED <<list, load>> /\ Unchanged

Posted(e) == post[e].asked # Undecided /\ post[e].answer = NoAnswer

(* The first verdict is recorded, the same one is confirmed, any other     *)
(* refused with 409.                                                       *)
ServePost(e) ==
    /\ Posted(e)
    /\ IF verdict[e] = Undecided
          THEN Ledger!Decide(e) /\ verdict'[e] = post[e].asked
          ELSE Unchanged
    /\ post' = [post EXCEPT ![e].answer =
           IF verdict'[e] = post[e].asked THEN Card(e)' ELSE Refused]
    /\ UNCHANGED <<list, load>>

(* Mutant: what was asked for is shown whatever the server says. *)
PatchedAnyway(e) == {IF c.event = e THEN [c EXCEPT !.verdict = post[e].asked] ELSE c : c \in list}

(* Mutant: the body of a refusal is taken for the card. *)
PatchedUnchecked(e) == {IF c.event = e THEN post[e].answer ELSE c : c \in list}

(* The card of the event becomes what the server answered. *)
Patched(e) == IF post[e].answer = Refused THEN list
              ELSE {IF c.event = e THEN post[e].answer ELSE c : c \in list}

PostArrives(e) ==
    /\ post[e].answer # NoAnswer
    /\ list' = Patched(e)
    /\ post' = [post EXCEPT ![e] = NoPost]
    /\ UNCHANGED load /\ Unchanged

(* The request or its answer is lost. *)
PostFails(e) ==
    /\ post[e] # NoPost
    /\ post' = [post EXCEPT ![e] = NoPost]
    /\ UNCHANGED <<list, load>> /\ Unchanged

(* Discord, and Caio's runtime. *)
Elsewhere == Ledger!Next /\ UNCHANGED <<list, load, post>>

Next ==
    \/ \E l \in Loads : SendLoad(l) \/ ServeLoad(l) \/ LoadArrives(l) \/ LoadFails(l)
    \/ \E e \in Events, d \in Ledger!Verdicts : MarkDecision(e, d)
    \/ \E e \in Events : ServePost(e) \/ PostArrives(e) \/ PostFails(e)
    \/ Elsewhere

(* The interval keeps asking, every request ends, and of all the answers   *)
(* those with a readable log get through now and then.                     *)
Fairness ==
    /\ \A l \in Loads :
        /\ WF_pageVars(SendLoad(l)) /\ WF_pageVars(ServeLoad(l))
        /\ WF_pageVars(LoadArrives(l) \/ LoadFails(l))
        /\ SF_pageVars(ServeLoad(l) /\ load'[l] = Snapshot)
        /\ SF_pageVars(LoadArrives(l) /\ load[l] # {})
    /\ \A e \in Events : WF_pageVars(ServePost(e)) /\ WF_pageVars(PostArrives(e) \/ PostFails(e))

Spec == Init /\ [][Next]_pageVars /\ Fairness

-----------------------------------------------------------------------------
(* A verdict, a start or a completion the page shows is on the ledger,     *)
(* whoever else decided in between and however old the answer shown is; a  *)
(* click shows nothing before the server has agreed (1157-1216).           *)
ShownIsTrue == \A c \in list :
    /\ c.verdict \in {Undecided, verdict[c.event]}
    /\ c.started => c.event \in started
    /\ c.completed => c.event \in completed

(* A page that is left open comes to show the ledger as it is and to stay  *)
(* there, though an older list may arrive after a newer one or after the   *)
(* answer to a click; only an unreadable log empties it (1068-1088, 1218). *)
SettlesOnLedger == <>[](list \in {{}, Snapshot}) /\ []<>(list = Snapshot)

(* On a page with items every listed proposal is on exactly one card, its  *)
(* own or that of one policy decision, in whatever order events with equal *)
(* stamps are returned (app/caio/page.tsx:1255-1294).                      *)
OneCardPerProposal == list # {} => OnOneCard

(* A policy decision shows another proposal than the one it is on only     *)
(* when the page read the log before a listed proposal was decided on: the *)
(* pairing goes by time alone (app/caio/page.tsx:1266-1279).               *)
WrongPairOnlyUnsettled == list # {} => PairedRight

(* A proposal that needs Pedro, and that its policy does not block, asks   *)
(* for him on the card it is shown on, unless a listed proposal has not    *)
(* been decided on yet (app/caio/page.tsx:605-640).                        *)
PedroIsAsked == list # {} => Asked
=============================================================================
