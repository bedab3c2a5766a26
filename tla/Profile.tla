------------------------------- MODULE Profile -------------------------------
(***************************************************************************)
(* What a user and the user's agents write into one profile: the saved     *)
(* events, the preferred vibes and the signals of app/api/discovery.py and *)
(* app/services/user_profile.py.                                           *)
(*                                                                         *)
(* saved_event_ids and preferred_vibes are JSON columns of the user's row. *)
(* A request loads the row, changes its copy and, at the commit, writes    *)
(* back whole the columns its copy changed (MutableList marks them dirty); *)
(* there is no row lock.  Signals are rows of their own, only inserted,    *)
(* except by set_preferences.                                              *)
(*                                                                         *)
(* Simplifications.  The lists are sets: nothing depends on their order.   *)
(* The signals a row of user_signals adds to the weights are kept once.    *)
(* The DELETE of set_preferences and its commit are one step: a signal     *)
(* committed between them is kept, as one committed just after would be.   *)
(* Requests refused with a 400 or a 404 write nothing and are left out.    *)
(***************************************************************************)
EXTENDS Naturals, FiniteSets

CONSTANTS
    Events,          \* ids of events
    Vibes,           \* tags
    Threads,         \* requests being served at once
    MaxWrites        \* bound: requests

ASSUME ProfileAssumption == MaxWrites \in Nat

VARIABLES
    saved,           \* saved_event_ids
    preferred,       \* preferred_vibes
    signals,         \* user_signals: what kind, of which event or tag
    request,         \* per thread, what is asked and the row as it was loaded
    writes,
    savedInTurn,     \* history: the columns had each request, in the order of
    preferredInTurn, \*   the commits, started only after the one before it
    savedRaced,      \* history: a request committed that dealt with the column
    preferredRaced   \*   and had loaded it before somebody else changed it

proHistory == <<savedInTurn, preferredInTurn, savedRaced, preferredRaced>>
proVars == <<saved, preferred, signals, request, writes, proHistory>>

Quiet == [kind |-> "none"]

\* What may be asked.  An agent's token has no say in the preferences.
Asks ==
    [kind : {"save"}, item : Events, agent : BOOLEAN]
    \cup [kind : {"click"}, item : Events, agent : BOOLEAN]
    \cup [kind : {"like"}, item : Vibes, agent : BOOLEAN]
    \cup [kind : {"prefs"}, item : SUBSET Vibes, agent : {FALSE}]
    \cup [kind : {"answer"}, item : {{}}, agent : {FALSE}]

ProfileInit ==
    /\ saved = {}
    /\ \E p \in SUBSET Vibes :
          preferred = p /\ preferredInTurn = p
    /\ signals = {}
    /\ request = [s \in Threads |-> Quiet]
    /\ writes = 0
    /\ savedInTurn = {}
    /\ savedRaced = FALSE
    /\ preferredRaced = FALSE

\* get_current_user or get_actor: the row is loaded.
Load(s) ==
    /\ request[s] = Quiet
    /\ writes < MaxWrites
    /\ writes' = writes + 1
    /\ \E a \in Asks :
          request' = [request EXCEPT ![s] =
            [kind |-> a.kind, item |-> a.item, agent |-> a.agent,
             saved |-> saved, preferred |-> preferred]]
    /\ UNCHANGED <<saved, preferred, signals, proHistory>>

\* set_onboarding_profile awaits the extractor, with the row loaded.
Extract(s) ==
    /\ request[s].kind = "answer"
    /\ \E tags \in SUBSET Vibes :
          request' = [request EXCEPT ![s].kind = "onboarding", ![s].item = tags]
    /\ UNCHANGED <<saved, preferred, signals, writes, proHistory>>

\* The commit of a request that leaves its copies as savedCopy and
\* preferredCopy: a column is written only when the copy differs from what was
\* loaded.
Commit(s, savedCopy, preferredCopy) ==
    /\ saved' = IF savedCopy = request[s].saved THEN saved ELSE savedCopy
    /\ preferred' = IF preferredCopy = request[s].preferred THEN preferred ELSE preferredCopy
    /\ request' = [request EXCEPT ![s] = Quiet]
    /\ UNCHANGED writes

Signal(kind, items) == signals' = signals \cup {[kind |-> kind, of |-> i] : i \in items}

TouchesSaved(s, items) ==
    /\ savedInTurn' = savedInTurn \cup items
    /\ savedRaced' = (savedRaced \/ request[s].saved # saved)
    /\ UNCHANGED <<preferredInTurn, preferredRaced>>

TouchesPreferred(s, new) ==
    /\ preferredInTurn' = new
    /\ preferredRaced' = (preferredRaced \/ request[s].preferred # preferred)
    /\ UNCHANGED <<savedInTurn, savedRaced>>

\* update_me_interests, action save
Save(s) ==
    LET r == request[s] IN
    /\ r.kind = "save"
    /\ Signal("save", {r.item})
    /\ Commit(s, r.saved \cup {r.item}, r.preferred)
    /\ TouchesSaved(s, {r.item})

\* action click or external_ticket_click
Click(s) ==
    LET r == request[s] IN
    /\ r.kind = "click"
    /\ Signal("click", {r.item})
    /\ Commit(s, r.saved, r.preferred)
    /\ UNCHANGED proHistory

\* action like: an agent leaves a signal only.
Like(s) ==
    LET r == request[s] IN
    /\ r.kind = "like"
    /\ Signal("like", {r.item})
    /\ IF r.agent
       THEN Commit(s, r.saved, r.preferred) /\ UNCHANGED proHistory
       ELSE /\ Commit(s, r.saved, r.preferred \cup {r.item})
            /\ TouchesPreferred(s, preferredInTurn \cup {r.item})

\* Fault: the row is written back whole.
SetPreferences_WholeRow(s) ==
    LET r == request[s] IN
    /\ r.kind = "prefs"
    /\ signals' = {g \in signals : g.kind \notin {"like", "onboarding"}}
    /\ saved' = r.saved
    /\ preferred' = r.item
    /\ request' = [request EXCEPT ![s] = Quiet]
    /\ TouchesPreferred(s, r.item)
    /\ UNCHANGED writes

\* Fault: every signal of the user is removed with the old choices.
SetPreferences_AllSignals(s) ==
    LET r == request[s] IN
    /\ r.kind = "prefs"
    /\ signals' = {}
    /\ Commit(s, r.saved, r.item)
    /\ TouchesPreferred(s, r.item)

\* set_preferences: the explicit choices are replaced and the weights derived
\* from the old ones removed; what was done with events is kept.
SetPreferences(s) ==
    LET r == request[s] IN
    /\ r.kind = "prefs"
    /\ signals' = {g \in signals : g.kind \notin {"like", "onboarding"}}
    /\ Commit(s, r.saved, r.item)
    /\ TouchesPreferred(s, r.item)

\* set_onboarding_profile after the extractor answered
Onboard(s) ==
    LET r == request[s] IN
    /\ r.kind = "onboarding"
    /\ Signal("onboarding", r.item)
    /\ Commit(s, r.saved, r.preferred \cup r.item)
    /\ TouchesPreferred(s, preferredInTurn \cup r.item)

\* Not a deadlock: every request allowed by the bound is answered.
ProfileRest ==
    /\ writes = MaxWrites
    /\ \A s \in Threads : request[s] = Quiet
    /\ UNCHANGED proVars

ProfileNext ==
    \/ \E s \in Threads :
          \/ Load(s) \/ Extract(s)
          \/ Save(s) \/ Click(s) \/ Like(s) \/ SetPreferences(s) \/ Onboard(s)
    \/ ProfileRest

ProfileSpec == ProfileInit /\ [][ProfileNext]_proVars

-----------------------------------------------------------------------------
\* Two requests that deal with different columns never undo each other: a column
\* is what its own requests, one after the other, would have made it, unless two
\* requests for that same column overlapped.  Preferences replaced while an event
\* is being saved leave it saved, and a save in progress brings no old
\* preference back.
ColumnsIndependent ==
    /\ savedRaced \/ saved = savedInTurn
    /\ preferredRaced \/ preferred = preferredInTurn

\* A saved event has left its signal, which later changes of the preferences and
\* overlapping saves do not take away: the weights and the count of interested
\* people know of every event the user still sees as saved.
SavedIsSignalled == \A e \in saved : [kind |-> "save", of |-> e] \in signals
=============================================================================
