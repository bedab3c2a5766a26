----------------------------- MODULE SharedPlans -----------------------------
(***************************************************************************)
(* Shared itineraries: an owner freezes a plan under a public link, anyone *)
(* reads it, and it goes dark when it expires or is revoked.  The sharing  *)
(* routes of app/api/discovery.py.                                         *)
(*                                                                         *)
(* Simplifications.  A stop is an event, and what is copied of it (title,  *)
(* times, venue, point) is one number, its revision, which ingestion       *)
(* raises.  Stops the user typed in are copied from the request and cannot *)
(* change.  Links are derived from a snapshot at each read and add nothing *)
(* to it.  A malformed token is answered like an unknown one.              *)
(***************************************************************************)
EXTENDS Naturals, FiniteSets

CONSTANTS
    Stops,        \* events that may be stops
    Plans,        \* share tokens
    Desks,        \* requests being served at once
    Lasting,      \* choices of expires_in_days
    MaxHour,      \* bound: clock
    MaxRevision,  \* bound: revisions of an event
    MaxServed     \* bound: requests

ASSUME PlansAssumption ==
    /\ Lasting \subseteq Nat \ {0}
    /\ MaxHour \in Nat
    /\ MaxRevision \in Nat
    /\ MaxServed \in Nat

VARIABLES
    hour,
    fact,         \* the events, as they are now
    plan,         \* saved_itineraries
    desk,
    served,
    told          \* history: what each public read of a plan said, and when

plaVars == <<hour, fact, plan, desk, served, told>>

Unshared == [made |-> FALSE, stops |-> {}, expires |-> 0, revoked |-> 0]
Ready    == [at |-> "ready"]

PlansInit ==
    /\ hour = 1
    /\ fact = [e \in Stops |-> 0]
    /\ plan = [p \in Plans |-> Unshared]
    /\ desk = [d \in Desks |-> Ready]
    /\ served = 0
    /\ told = [p \in Plans |-> {}]

\* _itinerary_share_status
ShareStatus(p) ==
    IF plan[p].revoked # 0 THEN "revoked"
    ELSE IF plan[p].expires <= hour THEN "expired" ELSE "active"

Serve(d) ==
    /\ desk[d] = Ready
    /\ served < MaxServed
    /\ served' = served + 1

\* share_concierge_itinerary: the stops are read again, in one statement.
Share(d) ==
    /\ Serve(d)
    /\ Cardinality({p \in Plans : ~plan[p].made})  \* bound: tokens
          > Cardinality({c \in Desks : desk[c].at = "share"})
    /\ \E S \in SUBSET Stops :
          /\ S # {}
          /\ desk' = [desk EXCEPT ![d] =
                [at |-> "share", stops |-> {[event |-> e, fact |-> fact[e]] : e \in S}]]
    /\ UNCHANGED <<hour, fact, plan, told>>

ShareCommit(d) ==
    /\ desk[d].at = "share"
    /\ \E p \in Plans, days \in Lasting :
          /\ ~plan[p].made
          /\ plan' = [plan EXCEPT ![p] = [made |-> TRUE, stops |-> desk[d].stops,
                                          expires |-> hour + days, revoked |-> 0]]
    /\ desk' = [desk EXCEPT ![d] = Ready]
    /\ UNCHANGED <<hour, fact, served, told>>

\* Fault: the stops are read from the events when the plan is shown.
Portable_Live(p) == {[event |-> s.event, fact |-> fact[s.event]] : s \in plan[p].stops}

\* _portable_response: the stored snapshot
Portable(p) == plan[p].stops

\* Fault: only an expired plan is dark.
PublicAnswer_Revoked(p) == IF ShareStatus(p) = "expired" THEN {} ELSE Portable(p)

\* get_shared_itinerary: 404, here no stops, unless the share is active
PublicAnswer(p) == IF ShareStatus(p) = "active" THEN Portable(p) ELSE {}

ReadShared(d) ==
    /\ Serve(d)
    /\ \E p \in Plans :
          /\ plan[p].made
          /\ told' = [told EXCEPT ![p] = @ \cup {[stops |-> PublicAnswer(p), at |-> served]}]
    /\ UNCHANGED <<hour, fact, plan, desk>>

\* revoke_owned_itinerary: the owner's plan is found ...
RevokeFind(d) ==
    /\ Serve(d)
    /\ \E p \in Plans :
          /\ plan[p].made
          /\ desk' = [desk EXCEPT ![d] = [at |-> "revoke", plan |-> p]]
    /\ UNCHANGED <<hour, fact, plan, told>>

\* ... and UPDATE ... WHERE revoked_at IS NULL: a repeated or concurrent
\* revocation leaves the original time.
RevokeWrite(d) ==
    LET p == desk[d].plan IN
    /\ desk[d].at = "revoke"
    /\ plan' = IF plan[p].revoked = 0 THEN [plan EXCEPT ![p].revoked = hour] ELSE plan
    /\ desk' = [desk EXCEPT ![d] = Ready]
    /\ UNCHANGED <<hour, fact, served, told>>

\* Ingestion revises an event.
Revise(e) ==
    /\ fact[e] < MaxRevision
    /\ fact' = [fact EXCEPT ![e] = @ + 1]
    /\ UNCHANGED <<hour, plan, desk, served, told>>

HourPasses ==
    /\ hour < MaxHour
    /\ hour' = hour + 1
    /\ UNCHANGED <<fact, plan, desk, served, told>>

\* Not a deadlock: the bounds are reached and every request is answered.
PlansRest ==
    /\ hour = MaxHour
    /\ \A d \in Desks : desk[d] = Ready
    /\ UNCHANGED plaVars

PlansNext ==
    \/ \E d \in Desks :
          \/ Share(d) \/ ShareCommit(d) \/ ReadShared(d)
          \/ RevokeFind(d) \/ RevokeWrite(d)
    \/ \E e \in Stops : Revise(e)
    \/ HourPasses
    \/ PlansRest

PlansSpec == PlansInit /\ [][PlansNext]_plaVars

-----------------------------------------------------------------------------
\* A link shows one and the same plan until it goes dark, and then never again,
\* however ingestion revises the events and whatever is revoked twice: the public
\* reads of a plan agree, and a dark one is followed by dark ones.
OnePlanPerLink ==
    \A p \in Plans : \A a, b \in told[p] :
        /\ a.stops # {} /\ b.stops # {} => a.stops = b.stops
        /\ a.stops = {} /\ a.at < b.at => b.stops = {}
=============================================================================
