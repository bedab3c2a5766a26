------------------------------ MODULE Concierge ------------------------------
(***************************************************************************)
(* POST /concierge/itinerary: one night out, built around an anchor event  *)
(* from the events of a window and the stops the user already has          *)
(* (app/api/discovery.py, app/services/concierge.py,                       *)
(* app/services/planning.py), and the way from each stop to the next.      *)
(*                                                                         *)
(* Simplifications.  What the prompt means is a choice: any eligible event *)
(* may be ranked first.  The window of the prompt is the whole corpus, and *)
(* a night ends at Dawn.  Times are quarters of an hour.  Links, titles    *)
(* and texts are left out; where a stop can be navigated to is its spot.   *)
(***************************************************************************)
EXTENDS Naturals, Integers, FiniteSets, Sequences, SequencesExt

CONSTANTS
    Corpus,        \* events that may be listed: see Night
    UserStops,     \* stops the user may bring
    MaxCorpus,     \* bound: events in a window
    MaxUserStops,  \* bound: stops of the user
    Miles,         \* distance of two spots
    Dawn           \* when one outing ends and the next begins

\* An event has a start, an end or NoEnd, a flag for a start that is estimated, a
\* tier, a spot, and the trust in it: "exact" for navigation, "rough" for
\* radius search only, or "none".
NoEnd == -1
Night == [start : Nat, end : Nat \cup {NoEnd}, guessed : BOOLEAN,
          tier : {"main", "support"}, spot : DOMAIN Miles,
          trust : {"exact", "rough", "none"}]

ASSUME ConciergeAssumption ==
    /\ IsFiniteSet(Corpus) /\ IsFiniteSet(UserStops)
    /\ Corpus \subseteq Night
    /\ UserStops \subseteq Night
    /\ \A u \in UserStops : ~u.guessed /\ (u.end # NoEnd => u.end >= u.start)
    /\ \A a, b \in DOMAIN Miles : Miles[a][b] \in Nat
    /\ MaxCorpus \in Nat /\ MaxUserStops \in Nat /\ Dawn \in Nat

VARIABLES
    listed,        \* the scheduled events of the window
    mine,          \* payload.user_stops
    itinerary,     \* the answer: stops with leave_by and timing_warning
    answered

conVars == <<listed, mine, itinerary, answered>>

SmallSubsets(S, n) == {T \in SUBSET S : Cardinality(T) <= n}

ConciergeInit ==
    /\ listed \in SmallSubsets(Corpus, MaxCorpus)
    /\ mine \in SmallSubsets(UserStops, MaxUserStops)
    /\ itinerary = <<>>
    /\ answered = FALSE

\* travel_minutes: half an hour where one end is not known exactly.
Minutes(a, b) ==
    IF a.trust = "exact" /\ b.trust = "exact" THEN 1 + Miles[a.spot][b.spot] ELSE 2

Outing(t) == t < Dawn

\* Fault: the way to the later event is forgotten.
CanFollow_NoTravel(a, b) == a.end # NoEnd /\ a.end >= a.start /\ a.end <= b.start

\* An event with a known end, and time to get to the next one.
CanFollow(a, b) ==
    a.end # NoEnd /\ a.end >= a.start /\ a.end + Minutes(a, b) <= b.start

\* The anchor query takes the good sources, with or without a published hour.
Anchors == {e \in listed : e.tier = "main"}

Near(anchor, radius) ==
    {e \in listed : /\ e # anchor
                    /\ e.tier = "support" /\ ~e.guessed /\ e.trust # "none"
                    /\ Miles[anchor.spot][e.spot] <= radius}

\* The half mile first, then the mile; nothing around a point that is a guess,
\* and nothing at a time the user has already planned.
Support(anchor) ==
    LET around == IF anchor.trust = "none" THEN {}
                  ELSE IF Near(anchor, 1) # {} THEN Near(anchor, 1) ELSE Near(anchor, 2)
        last(e) == IF e.end = NoEnd THEN e.start ELSE e.end
    IN  {e \in around : \A u \in mine : ~(e.start <= last(u) /\ last(e) >= u.start)}

\* _build_stop
EventStop(e) == IF e.end < e.start THEN [e EXCEPT !.end = NoEnd] ELSE e

\* sequence_itinerary: the stops that may stand before and after the anchor.
SameNight(anchor) ==
    {e \in Support(anchor) : /\ e.end # NoEnd => e.end >= e.start
                             /\ Outing(e.start) = Outing(anchor.start)}

BeforeAnchor(anchor) ==
    LET fits == {e \in SameNight(anchor) : CanFollow(e, anchor)}
    IN  {e \in fits : \A f \in fits : f.start <= e.start}

AfterAnchor(anchor) ==
    LET fits == {e \in SameNight(anchor) : CanFollow(anchor, e)}
    IN  {e \in fits : \A f \in fits : f.start >= e.start}

\* One of a set, or none if it is empty.
OneOf(S) == IF S = {} THEN {{}} ELSE {{e} : e \in S}

\* The sets of events a plan may consist of.
Nights(anchor) ==
    IF anchor.guessed THEN {{anchor}}
    ELSE {before \cup {anchor} \cup after :
            before \in OneOf(BeforeAnchor(anchor)), after \in OneOf(AfterAnchor(anchor))}

\* Fault: a stop is over when it begins.
Boundary_Start(stop) == IF stop.guessed THEN NoEnd ELSE stop.start

\* previous_boundary, NoEnd where nothing is known
Boundary(stop) ==
    IF stop.end # NoEnd THEN stop.end
    ELSE IF stop.guessed THEN NoEnd ELSE stop.start

\* _portable_stops: each leg from the stop immediately before.
PortableStops(stops) ==
    [n \in DOMAIN stops |->
        LET minutes == IF n = 1 THEN 0 ELSE Minutes(stops[n - 1], stops[n])
            leaves  == n > 1 /\ ~stops[n].guessed
        IN  [stop    |-> stops[n],
             minutes |-> minutes,
             warning |-> /\ leaves
                         /\ Boundary(stops[n - 1]) # NoEnd
                         /\ Boundary(stops[n - 1]) > stops[n].start - minutes]]

\* Sorted by start; the sort is stable, events before the user's stops.
StandsBefore(a, b) ==
    \/ a.at.start < b.at.start
    \/ a.at.start = b.at.start /\ a.of = "event" /\ b.of # "event"

InOrder(events, own) ==
    LET stops == {[of |-> "event", at |-> EventStop(e)] : e \in events}
                 \cup {[of |-> "planner", at |-> u] : u \in own}
    IN  {order \in Bijection(1..Cardinality(stops), stops) :
            \A m, n \in DOMAIN order : m < n => ~StandsBefore(order[n], order[m])}

AnswerWith(events) ==
    \E order \in InOrder(events, mine) :
        itinerary' = PortableStops([n \in DOMAIN order |-> order[n].at])

\* build_concierge_itinerary, around the event that is ranked first; without any
\* the stops of the user.
BuildItinerary ==
    /\ ~answered
    /\ answered' = TRUE
    /\ IF Anchors = {} THEN AnswerWith({})
       ELSE \E anchor \in Anchors : \E night \in Nights(anchor) : AnswerWith(night)
    /\ UNCHANGED <<listed, mine>>

ConciergeAnswered == answered /\ UNCHANGED conVars

ConciergeNext == BuildItinerary \/ ConciergeAnswered

ConciergeSpec == ConciergeInit /\ [][ConciergeNext]_conVars

-----------------------------------------------------------------------------
\* A plan without a warning can be kept: between any two of its stops, adjacent
\* or not, the earlier is over before the later begins, with the time to travel
\* between neighbours, if no stop's hour is estimated.  A plan made of events
\* alone never needs a warning: sequence_itinerary leaves the time that
\* _portable_stops asks for.
PlanKeepsTime ==
    LET stop(n) == itinerary[n].stop
        warned  == \E n \in DOMAIN itinerary : itinerary[n].warning
        guessed == \E n \in DOMAIN itinerary : stop(n).guessed
        over(n) == IF stop(n).end # NoEnd THEN stop(n).end ELSE stop(n).start
    IN  /\ ~warned /\ ~guessed =>
            \A m, n \in DOMAIN itinerary : m < n =>
                /\ over(m) <= stop(n).start
                /\ n = m + 1 => over(m) + itinerary[n].minutes <= stop(n).start
        /\ mine = {} => ~warned
=============================================================================
