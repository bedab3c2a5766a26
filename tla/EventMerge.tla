----------------------------- MODULE EventMerge -----------------------------
(***************************************************************************)
(* The life of one event row under the observations of several sources:    *)
(* the merge rules of app/services/data_pipeline.py and the "past" sweep   *)
(* of app/worker.py.                                                       *)
(*                                                                         *)
(* A source is observed again and again.  A stable source has a record     *)
(* with the hash of what it said last, so the pipeline knows a replay from *)
(* a revision; a weak one does not.  The location of an observation may    *)
(* be improved by geocoding and its tags by the classifier, after the hash *)
(* was taken and with no guarantee that they succeed twice.                *)
(*                                                                         *)
(* Simplifications.  Of the revision fields the row keeps its start, its   *)
(* status and its venue: title, description, price and the rest follow the *)
(* rules of the venue.  A venue is a number, a longer name having a larger *)
(* one and 0 standing for a missing name; the point of a venue is its      *)
(* number and 0 is the city centroid.  The confidence is TRUE at or above  *)
(* the search threshold.  Tags are one boolean.  end_at is left out, and   *)
(* titles are taken to agree.  The clock is the local day of the cutoff of *)
(* the sweep, which lags 24 hours behind the present.                      *)
(***************************************************************************)
EXTENDS Integers, FiniteSets, FiniteSetsExt

CONSTANTS
    Sources,       \* numbers naming the listings that describe this event
    Stable,        \* the ones with a _stable_source_identity
    Tier,          \* source_tier of each
    Says,          \* what each may say
    DayLength,     \* a start is an hour; hour \div DayLength is its local day
    Window,        \* DEDUPE_WINDOW_HOURS
    MaxDays,       \* bound: days
    MaxRevisions   \* bound: revisions by the sources

Severity == [scheduled |-> 0, postponed |-> 1, cancelled |-> 2, past |-> 3]
Statuses == DOMAIN Severity

Facts == [start : Nat, est : BOOLEAN, status : Statuses, venue : Nat, placed : BOOLEAN]

ASSUME MergeAssumption ==
    /\ Sources \subseteq Nat \ {0}
    /\ Stable \subseteq Sources
    /\ Tier \in [Sources -> Nat]
    /\ Says \in [Sources -> SUBSET Facts]
    /\ \A s \in Sources : \A f \in Says[s] : f.placed => f.venue # 0
    /\ DayLength \in Nat \ {0}
    /\ Window \in Nat
    /\ MaxDays \in Nat
    /\ MaxRevisions \in Nat

VARIABLES
    row,        \* the Event
    seen,       \* what each source said last; for a stable one, content_hash
    today,      \* the local day of the cutoff of the sweep
    revisions

vars == <<row, seen, today, revisions>>

NoRow   == [source |-> 0, tier |-> 99, start |-> 0, est |-> FALSE,
            status |-> "scheduled", venue |-> 0, point |-> 0, sure |-> FALSE,
            tagged |-> FALSE]
Nothing == [start |-> 0, est |-> FALSE, status |-> "past", venue |-> 0, placed |-> FALSE]

Init ==
    /\ row = NoRow
    /\ seen = [s \in Sources |-> Nothing]
    /\ today = 0
    /\ revisions = 0

Day(hour) == hour \div DayLength

-----------------------------------------------------------------------------
\* Fault: the hash is taken after enrichment.
Observation_HashEnriched(s, facts, located, tagged) ==
    LET sure == facts.placed \/ located
    IN  [source    |-> s,
         tier      |-> Tier[s],
         start     |-> facts.start,
         est       |-> facts.est,
         status    |-> facts.status,
         venue     |-> facts.venue,
         point     |-> IF sure THEN facts.venue ELSE 0,
         sure      |-> sure,
         tagged    |-> tagged,
         unchanged |-> s \in Stable /\ seen[s] = facts /\ ~tagged,
         known     |-> s \in Stable /\ seen[s] # Nothing /\ (seen[s] # facts \/ tagged)]

\* An observation: what a source says after enrichment, and what its record
\* tells about what it said before.
Observation(s, facts, located, tagged) ==
    LET sure == facts.placed \/ located
    IN  [source    |-> s,
         tier      |-> Tier[s],
         start     |-> facts.start,
         est       |-> facts.est,
         status    |-> facts.status,
         venue     |-> facts.venue,
         point     |-> IF sure THEN facts.venue ELSE 0,
         sure      |-> sure,
         tagged    |-> tagged,
         unchanged |-> s \in Stable /\ seen[s] = facts,
         known     |-> s \in Stable /\ seen[s] \notin {Nothing, facts}]

\* _starts_are_compatible
Close(r, o) ==
    IF r.est \/ o.est
    THEN Day(r.start) = Day(o.start)
    ELSE r.start - o.start \in (-Window)..Window

\* _is_duplicate, the titles agreeing
Duplicate(r, o) == Close(r, o) /\ (r.venue = 0 \/ o.venue = 0 \/ r.venue = o.venue)

\* _same_source_identity
SameSource(r, o) == o.source \in Stable /\ r.source = o.source

\* _location_context_matches
SamePlace(r, o) == r.venue = 0 \/ o.venue = 0 \/ r.venue = o.venue

\* Fault: any known revision of an equal tier may take the row over.
AliasCanRevise_Always(r, o) == o.known

\* alias_can_revise: not what is unavailable, unless of a better tier.
AliasCanRevise(r, o) == o.known /\ (o.tier < r.tier \/ r.status = "scheduled")

Authoritative(r, o) ==
    /\ SameSource(r, o) \/ AliasCanRevise(r, o)
    /\ o.tier <= r.tier
    /\ ~o.unchanged

\* The time of a merge without authority: a published time beats a placeholder,
\* then the better tier, then the earlier start.
MergedTime(r, o) ==
    CASE r.est /\ ~o.est                     -> [start |-> o.start, est |-> FALSE]
      [] ~r.est /\ o.est                     -> [start |-> r.start, est |-> FALSE]
      [] r.est = o.est /\ r.tier < o.tier    -> [start |-> r.start, est |-> r.est]
      [] r.est = o.est /\ o.tier < r.tier    -> [start |-> o.start, est |-> o.est]
      [] r.est = o.est /\ r.tier = o.tier    ->
             [start |-> Min({r.start, o.start}), est |-> r.est]

\* Fault: a revision may replace a published hour by a guess for the same day.
RevisedTime_AnyGuess(r, o) == [start |-> o.start, est |-> o.est]

\* The time of an authoritative revision: a guess for the same day does not
\* disprove a published hour.
RevisedTime(r, o) ==
    IF o.est /\ ~r.est /\ Day(r.start) = Day(o.start)
    THEN MergedTime(r, o)
    ELSE [start |-> o.start, est |-> o.est]

\* Fault: the surer point wins even if the venue has changed.
TakesPoint_SurerOnly(r, o) == o.sure \/ ~r.sure

\* Whether a revision brings its coordinate along.
TakesPoint(r, o) == (o.venue # 0 /\ o.venue # r.venue) \/ o.sure \/ ~r.sure

WorseStatus(a, b) == IF Severity[b] > Severity[a] THEN b ELSE a

\* What both ways of merging agree on.
Common(r, o) ==
    [source |-> IF o.tier < r.tier \/ Authoritative(r, o) THEN o.source ELSE r.source,
     tier   |-> Min({r.tier, o.tier}),
     tagged |-> r.tagged \/ o.tagged]

\* _merge_event_payloads where the observation revises the row.
Revision(r, o) ==
    LET time  == RevisedTime(r, o)
        takes == TakesPoint(r, o)
        stays == r.status = "past" /\ time.start = r.start
    IN  [source |-> Common(r, o).source, tier |-> Common(r, o).tier,
         start  |-> time.start, est |-> time.est,
         status |-> IF stays THEN "past" ELSE o.status,
         venue  |-> IF o.venue = 0 THEN r.venue ELSE o.venue,
         point  |-> IF takes THEN o.point ELSE r.point,
         sure   |-> IF takes THEN o.sure ELSE r.sure,
         tagged |-> Common(r, o).tagged,
         reset  |-> ~stays,
         moved  |-> takes /\ o.point # r.point]

\* _merge_event_payloads where it does not.
Merge(r, o) ==
    LET here  == SamePlace(r, o)
        takes == here /\ o.sure /\ ~r.sure
        time  == MergedTime(r, o)
    IN  [source |-> Common(r, o).source, tier |-> Common(r, o).tier,
         start  |-> time.start, est |-> time.est,
         status |-> WorseStatus(r.status, o.status),
         venue  |-> IF here THEN Max({r.venue, o.venue}) ELSE r.venue,
         point  |-> IF takes THEN o.point ELSE r.point,
         sure   |-> r.sure \/ takes,
         tagged |-> Common(r, o).tagged,
         reset  |-> FALSE,
         moved  |-> FALSE]

\* Fault: an unchanged alias counts as fresh evidence.
OldEvidence_Never(r, o) == FALSE

\* An unchanged observation of no better tier is old evidence.
OldEvidence(r, o) == o.unchanged /\ o.tier >= r.tier

MergedPayload(r, o) ==
    LET m == IF Authoritative(r, o) THEN Revision(r, o) ELSE Merge(r, o)
    IN  IF OldEvidence(r, o)
        THEN [m EXCEPT !.source = r.source, !.tier = r.tier, !.start = r.start,
                       !.est = r.est, !.status = r.status, !.venue = r.venue,
                       !.reset = FALSE]
        ELSE m

\* has_significant_new_information
Significant(r, o) ==
    LET m == MergedPayload(r, o)
    IN  IF o.unchanged
        THEN (SamePlace(r, o) /\ o.sure /\ ~r.sure) \/ (o.tagged /\ ~r.tagged)
        ELSE \/ /\ SameSource(r, o) \/ o.known
                /\ m.start # r.start \/ m.status # r.status \/ m.venue # r.venue \/ m.moved
             \/ /\ ~(SameSource(r, o) \/ o.known)
                /\ Severity[o.status] > Severity[r.status]
             \/ r.venue = 0 /\ o.venue # 0
             \/ o.sure /\ ~r.sure
             \/ o.tagged /\ ~r.tagged
             \/ r.est /\ ~o.est
             \/ ~r.est /\ ~o.est /\ r.start # o.start

\* _apply_payload: the status escalates, or is reset by a revision.
Applied(r, m) ==
    [source |-> m.source, tier |-> m.tier, start |-> m.start, est |-> m.est,
     status |-> IF m.reset THEN m.status ELSE WorseStatus(r.status, m.status),
     venue |-> m.venue, point |-> m.point, sure |-> m.sure, tagged |-> m.tagged]

Inserted(o) ==
    [source |-> o.source, tier |-> o.tier, start |-> o.start, est |-> o.est,
     status |-> o.status, venue |-> o.venue, point |-> o.point, sure |-> o.sure,
     tagged |-> o.tagged]

-----------------------------------------------------------------------------
\* _process_observation, for an observation that belongs to this event: the row
\* is inserted, or merged if there is something to learn, and the record of the
\* source remembers what it said.
Process(o) ==
    row' = IF row = NoRow THEN Inserted(o)
           ELSE IF Significant(row, o) THEN Applied(row, MergedPayload(row, o))
           ELSE row

\* A source is observed: it repeats itself, speaks for the first time or has
\* revised its listing.  A source without a record, new or weak, has to look
\* like the row.
Observe(s) ==
    \E facts \in Says[s], located \in BOOLEAN, tagged \in BOOLEAN :
        LET o == Observation(s, facts, located, tagged)
        IN  /\ located => facts.venue # 0
            /\ \/ row = NoRow
               \/ s \in Stable /\ seen[s] # Nothing
               \/ Duplicate(row, o)
            /\ IF seen[s] \in {Nothing, facts}
               THEN revisions' = revisions
               ELSE revisions < MaxRevisions /\ revisions' = revisions + 1
            /\ Process(o)
            /\ seen' = [seen EXCEPT ![s] = facts]
            /\ today' = today

NextDay ==
    /\ today < MaxDays
    /\ today' = today + 1
    /\ UNCHANGED <<row, seen, revisions>>

\* _mark_past_events: the event is older than the cutoff.
MarkPast ==
    /\ row # NoRow
    /\ Day(row.start) < today
    /\ row.status = "scheduled"
    /\ row' = [row EXCEPT !.status = "past"]
    /\ UNCHANGED <<seen, today, revisions>>

Next ==
    \/ \E s \in Sources : Observe(s)
    \/ NextDay
    \/ MarkPast

Spec == Init /\ [][Next]_vars

-----------------------------------------------------------------------------
TypeOK ==
    /\ row \in [source : Sources \cup {0}, tier : Nat, start : Nat, est : BOOLEAN,
                status : Statuses, venue : Nat, point : Nat, sure : BOOLEAN,
                tagged : BOOLEAN]
    /\ seen \in [Sources -> Facts]
    /\ today \in 0..MaxDays
    /\ revisions \in 0..MaxRevisions

\* A coordinate good enough to search by is that of the venue the row names,
\* whichever sources supplied the two and in whatever order.
PointMatchesVenue == row.sure => row.venue = 0 \/ row.point = row.venue

\* The source a row names is the one its tier belongs to.
TierOfOwner == row # NoRow => row.tier = Tier[row.source]

\* A cancellation, a postponement or a past event is undone only by a revision
\* of the row's owner or of a better tier, and a past event only by a new start;
\* and an unavailable event changes hands only to a better tier.
\* _merge_event_payloads, _apply_payload.
UndoneByOwner ==
    [][/\ Severity[row'.status] < Severity[row.status] =>
             /\ \E s \in Stable : /\ seen'[s] # seen[s]
                                  /\ s = row.source \/ Tier[s] < row.tier
             /\ row.status = "past" => row'.start # row.start
       /\ row # NoRow /\ row.status # "scheduled" /\ row'.source # row.source =>
             row'.tier < row.tier]_vars

\* A published hour gives way to a guess only when the event moves to another
\* day.
PublishedTimeKept ==
    [][row # NoRow /\ ~row.est /\ row'.est => Day(row'.start) # Day(row.start)]_vars

Revised == <<row.start, row.venue, row.status, row.source>>

\* A replay by a source no better than the row's cannot revert what anyone has
\* revised since, even when new tags or a new coordinate have it applied: where
\* nobody says anything new, only the sweep, a better tier and the sources whose
\* replays cannot be recognised change those facts.
OldEvidencePowerless ==
    [][row # NoRow /\ seen' = seen /\ Revised' # Revised =>
          \/ MarkPast
          \/ \E s \in Sources : (s \notin Stable \/ Tier[s] < row.tier) /\ Observe(s)]_vars

\* Once the sources stop revising, replaying them changes the row only finitely
\* often, in whatever order they come and however enrichment turns out.
NoOscillation == <>[][row' = row]_row

\* has_significant_new_information says of a replay that "Source facts cannot
\* revert newer facts": if nobody says anything new, the start stays, or a source
\* whose replays cannot be recognised has moved it.
ReplayKeepsFacts ==
    [][row # NoRow /\ seen' = seen /\ row'.start # row.start =>
          \E s \in Sources \ Stable : Observe(s)]_vars
=============================================================================
