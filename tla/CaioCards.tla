------------------------------ MODULE CaioCards ------------------------------
(***************************************************************************)
(* How the Caio page (app/caio/page.tsx) turns the newest Think Loop events *)
(* into cards: a policy decision takes in a proposal logged within two      *)
(* seconds of it, and the page shows the pair as one card. The pairing and  *)
(* the categories are functions of the log; they are checked over every log *)
(* within the bounds that Caio's runtime can have written when it is read.  *)
(***************************************************************************)
EXTENDS Integers, FiniteSets, Sequences, SequencesExt

CONSTANTS
    Limit,      \* events returned, 30 in the code
    Window,     \* how far apart a pair may be, 2 seconds in the code
    Lag,        \* how soon Caio writes the policy decision on a proposal
    MaxEvents, MaxTime   \* bounds

(* The window is meant to hold what the runtime writes back to back. *)
ASSUME CaioCardsAssumption ==
    Limit \in Nat /\ Window \in Nat /\ Lag \in Nat /\ MaxEvents \in Nat /\ MaxTime \in Nat
    /\ Lag <= Window

-----------------------------------------------------------------------------
(* The log of Caio's runtime, oldest event first. about: the proposal, as  *)
(* an index of the log, that a decision is on; pedro: requires_pedro_input *)
(* or requires_approval; blocked: not allowed, or a hard rule.             *)
LogEvents == [type : {"proposal", "policy"}, at : 0..MaxTime, about : 1..MaxEvents,
              pedro : BOOLEAN, blocked : BOOLEAN]

IsProposal(log, i) == log[i].type = "proposal"
DecidedOn(log, q, ids) == \E i \in ids : ~IsProposal(log, i) /\ log[i].about = q

(* The proposals are decided on in their order. *)
Oldest(log) == {q \in DOMAIN log :
    /\ IsProposal(log, q) /\ ~DecidedOn(log, q, DOMAIN log)
    /\ \A i \in 1..(q - 1) : DecidedOn(log, log[i].about, DOMAIN log)}

(* What the runtime may log next: stamps do not go back, two events of one *)
(* type never carry the same, and a proposal is decided on within Lag.     *)
NextEvents(log) == {e \in LogEvents :
    /\ \A i \in DOMAIN log : log[i].at <= e.at /\ (log[i].type = e.type => log[i].at < e.at)
    /\ \A q \in Oldest(log) : e.at <= log[q].at + Lag
    /\ IF e.type = "proposal" THEN e.about = Len(log) + 1 /\ ~e.blocked
       ELSE e.about \in Oldest(log)}

Logs ==
    LET UpTo[n \in 0..MaxEvents] ==
            IF n = 0 THEN {<<>>}
            ELSE LET shorter == UpTo[n - 1] IN
                 shorter \cup UNION {{Append(log, e) : e \in NextEvents(log)} :
                                        log \in {l \in shorter : Len(l) = n - 1}}
    IN UpTo[MaxEvents]

-----------------------------------------------------------------------------
(* _sync_recent_events: newest first. Where the stamps agree any order is   *)
(* possible, and any of the events may be the one that LIMIT leaves out.    *)
Newest(log) == {ids \in SUBSET DOMAIN log :
    /\ Cardinality(ids) = IF Len(log) < Limit THEN Len(log) ELSE Limit
    /\ \A i \in ids, j \in DOMAIN log \ ids : log[i].at >= log[j].at}

Listings(log) == {order \in UNION {SetToSeqs(ids) : ids \in Newest(log)} :
    \A i, j \in DOMAIN order : i < j => log[order[i]].at >= log[order[j]].at}

Near(log, p, q) == log[p].at - log[q].at \in (-Window)..Window

(* Mutant: a proposal may be taken more than once. *)
AnyCandidate(log, order, pairs, p) == {k \in DOMAIN order :
    ~IsProposal(log, p) /\ IsProposal(log, order[k]) /\ Near(log, p, order[k])}

(* Where the proposals are listed that a policy decision may take in. *)
Candidates(log, order, pairs, p) == {k \in DOMAIN order :
    /\ ~IsProposal(log, p) /\ IsProposal(log, order[k]) /\ Near(log, p, order[k])
    /\ \A pair \in pairs : pair.proposal # order[k]}

(* Mutant: the last one is taken. *)
LastListed(ks) == {k \in ks : \A j \in ks : k >= j}

FirstListed(ks) == {k \in ks : \A j \in ks : k <= j}

Taken(log, order, pairs, p) ==
    {[policy |-> p, proposal |-> order[k]] : k \in FirstListed(Candidates(log, order, pairs, p))}

(* The loop over the listing: each policy decision takes in the first      *)
(* proposal that those before it have left.                                *)
Pairs(log, order) ==
    LET upTo[n \in 0..Len(order)] ==
            IF n = 0 THEN {} ELSE upTo[n - 1] \cup Taken(log, order, upTo[n - 1], order[n])
    IN upTo[Len(order)]

(* preCategoryItems: a proposal taken in has no card of its own. *)
Shown(log, order) == {i \in ToSet(order) : \A pair \in Pairs(log, order) : pair.proposal # i}

(* categorize *)
AsksOnItsOwn(log, order, i) == log[i].pedro

AsksPedro(log, order, i) == log[i].pedro \/ \E pair \in Pairs(log, order) :
    pair.policy = i /\ log[pair.proposal].pedro

Category(log, order, i) ==
    CASE log[i].blocked -> "blocked"
      [] ~log[i].blocked /\ AsksPedro(log, order, i) -> "pedro"
      [] OTHER -> "history"

-----------------------------------------------------------------------------
(* The cards a listed proposal is shown on. *)
ShownOn(log, order, q) == {i \in Shown(log, order) :
    i = q \/ [policy |-> i, proposal |-> q] \in Pairs(log, order)}

(* A listed proposal has not been decided on yet. *)
Unsettled(log, order) ==
    \E q \in ToSet(order) : IsProposal(log, q) /\ ~DecidedOn(log, q, ToSet(order))

(* What the page may read: a log and the order of its newest events. *)
Readings == UNION {{<<log, order>> : order \in Listings(log)} : log \in Logs}

Proposals(log, order) == {q \in ToSet(order) : IsProposal(log, q)}

(* The rules of the cards, for every reading. *)
OnOneCard == \A r \in Readings : \A q \in Proposals(r[1], r[2]) :
    Cardinality(ShownOn(r[1], r[2], q)) = 1

PairedRight == \A r \in Readings : \A pair \in Pairs(r[1], r[2]) :
    pair.proposal = r[1][pair.policy].about \/ Unsettled(r[1], r[2])

Asked == \A r \in Readings : \A q \in Proposals(r[1], r[2]) :
    \A i \in ShownOn(r[1], r[2], q) : r[1][q].pedro =>
        \/ Category(r[1], r[2], i) = "pedro"
        \/ DecidedOn(r[1], q, {p \in ToSet(r[2]) : r[1][p].blocked})
        \/ Unsettled(r[1], r[2])
=============================================================================
