------------------------------ MODULE Geocoding ------------------------------
(***************************************************************************)
(* How an event is placed, from a connector's listing to the row that      *)
(* radius search reads.  An ingestion cycle normalises an observation,     *)
(* looks its venue up if the connector could not place it                  *)
(* (enrich_locations, app/services/geocoding.py) and stores it; the        *)
(* backfill script looks up the venue of the stored row and writes the     *)
(* answer by id (scripts/backfill_geocode.py).  Each has its own geocoder, *)
(* budget and transaction; they share the cache table and the row.         *)
(*                                                                         *)
(* Simplifications.  One event, re-observed by one source.  An address and *)
(* the venue looked up with it are one place.  An address inside the name  *)
(* of a venue is not a further query, and a query always names a given     *)
(* city.  A statement on the cache table that fails, for whatever reason,  *)
(* is a choice; a commit of the cache alone is not lost.                   *)
(***************************************************************************)
EXTENDS Normalizers, Sequences

CONSTANTS
    Origins,           \* the connectors to explore
    ObservedListings,  \* the listings to explore
    MaxLookups,        \* max_lookups_per_run
    RetryDays,         \* failure_retry_days
    LastDay,           \* bound: days
    MaxObserved        \* bound: observations

ASSUME GeocodingAssumption ==
    /\ Origins \subseteq Connectors
    /\ ObservedListings \subseteq Listings
    /\ {MaxLookups, RetryDays, LastDay, MaxObserved} \subseteq Nat

Actors == {"cycle", "script"}

VARIABLES
    origin,     \* the connector that observes the event
    row,        \* the stored event, or NoRow
    payload,    \* the cycle's observation, or NoRow
    candidate,  \* the script's copy of the row, or NoRow
    change,     \* the script's planned change, or NoAnswer
    lookup,     \* by actor: the resolve under way
    spent,      \* by actor: _lookups_this_run
    usable,     \* by actor: _cache_usable
    cache,      \* geocode_cache, by key
    unsaved,    \* by actor: cache rows of its transaction
    today,      \* the day
    observed,   \* history: observations made
    refused,    \* history: queries the provider answered with no match, with the day
    overtaken   \* history: the row has changed since the script read it

geoVars == <<origin, row, payload, candidate, change, lookup, spent, usable, cache,
             unsaved, today, observed, refused, overtaken>>

MinConfidence == 50

NoRow    == [venue |-> "", address |-> "", city |-> "", point |-> <<"none", "">>,
             confidence |-> 0]
NoAnswer == [precision |-> "none"]
NotKept  == [precision |-> "absent"]

\* Fault: a town is as good as an address.
Confidence_Area == [poi |-> 85, street |-> 70, area |-> 55, venue |-> 90, none |-> 0]

\* _precision_for_rank
Confidence == [poi |-> 85, street |-> 70, area |-> 40, venue |-> 90, none |-> 0]

\* An area is the middle of a town, whatever was asked for.
Found(text, precision) ==
    [precision |-> precision,
     point |-> IF precision = "area" THEN <<"town", "">> ELSE <<"found", text>>]

\* An address may be made up from a venue: FuncheapAddress, Luma.
Texts   == Addresses \cup Venues
Queries == Texts \X (Cities \cup {""})

\* _query_variants: the address first, then a name that is not a placeholder.
Variants(address, venue, city) ==
    (IF address # "" THEN << <<address, city>> >> ELSE <<>>) \o
    (IF venue \notin Placeholders \cup {"", address} THEN << <<venue, city>> >> ELSE <<>>)

Resting == [stage |-> "idle"]
Answered(answer) == [stage |-> "answered", answer |-> answer]

GeocodingInit ==
    /\ origin \in Origins
    /\ row = NoRow
    /\ payload = NoRow
    /\ candidate = NoRow
    /\ change = NoAnswer
    /\ lookup = [a \in Actors |-> Resting]
    /\ spent = [a \in Actors |-> 0]
    /\ usable = [a \in Actors |-> TRUE]
    /\ cache = [q \in Queries |-> NotKept]
    /\ unsaved = [a \in Actors |-> [q \in Queries |-> NotKept]]
    /\ today = 1
    /\ observed = 0
    /\ refused = {}
    /\ overtaken = FALSE

-----------------------------------------------------------------------------
\* resolve, by either actor, up to the question whether the cache knows.

\* What an actor sees of the table: its own rows over the committed ones.
Seen(a, key) == IF unsaved[a][key] # NotKept THEN unsaved[a][key] ELSE cache[key]

\* Fault: a kept failure counts for ever.
Hit_Forever(entry) == entry # NotKept

\* A kept failure counts until it expires.
Hit(entry) ==
    /\ entry # NotKept
    /\ entry.precision = "none" => today - entry.day < RetryDays

Resolve(a, address, venue, city) ==
    LET queries == Variants(address, venue, city)
        ask     == [stage |-> "asking", attempts |-> queries, queries |-> queries]
    IN  IF InTable(venue)
        THEN /\ lookup' = [lookup EXCEPT ![a] =
                   Answered([precision |-> "venue", point |-> TablePoint(venue)])]
             /\ UNCHANGED usable
        ELSE IF queries = <<>>
        THEN lookup' = [lookup EXCEPT ![a] = Answered(NoAnswer)] /\ UNCHANGED usable
        ELSE \/ /\ usable[a]
                /\ lookup' = [lookup EXCEPT ![a] =
                      IF ~Hit(Seen(a, Head(queries))) THEN ask
                      ELSE Answered(Seen(a, Head(queries)).answer)]
                /\ UNCHANGED usable
             \/ /\ lookup' = [lookup EXCEPT ![a] = ask]
                /\ usable' = [usable EXCEPT ![a] = FALSE]

Other(a) == CHOOSE b \in Actors : b # a

\* _write_cache: kept in the transaction, or the cache is given up for the run.
\* Another transaction's row of the same key is waited for.
Keep(a, key, entry) ==
    \/ /\ usable[a]
       /\ unsaved[Other(a)][key] = NotKept
       /\ unsaved' = [unsaved EXCEPT ![a][key] = entry]
       /\ UNCHANGED usable
    \/ /\ usable' = [usable EXCEPT ![a] = FALSE]
       /\ UNCHANGED unsaved

Asking(a) == lookup[a].stage = "asking"

\* A lookup is kept under the first of its queries.
Key(a) == Head(lookup[a].attempts)

\* What is kept of a failure.  The queries that failed are history.
Failure(a) == [precision |-> "none", answer |-> NoAnswer, day |-> today,
               attempts |-> lookup[a].attempts]

\* Fault: when a later query cannot be asked, the refusals before it count for all.
Defer_Breaks(a) ==
    /\ Asking(a)
    /\ lookup' = [lookup EXCEPT ![a] = Answered(NoAnswer)]
    /\ spent' = IF spent[a] < MaxLookups THEN [spent EXCEPT ![a] = @ + 1] ELSE spent
    /\ IF lookup[a].queries = lookup[a].attempts THEN UNCHANGED <<usable, unsaved>>
       ELSE Keep(a, Key(a), Failure(a))
    /\ UNCHANGED <<origin, row, payload, candidate, change, cache, today, observed,
                   refused, overtaken>>

\* No lookups are left, or the provider does not answer: nothing is known.
Defer(a) ==
    /\ Asking(a)
    /\ lookup' = [lookup EXCEPT ![a] = Answered(NoAnswer)]
    /\ spent' = IF spent[a] < MaxLookups THEN [spent EXCEPT ![a] = @ + 1] ELSE spent
    /\ UNCHANGED <<origin, row, payload, candidate, change, usable, cache, unsaved,
                   today, observed, refused, overtaken>>

\* The first match is kept under the first query, as is no match for any of them.
Ask(a) ==
    LET query == Head(lookup[a].queries)
        rest  == Tail(lookup[a].queries)
    IN  /\ Asking(a)
        /\ spent[a] < MaxLookups
        /\ spent' = [spent EXCEPT ![a] = @ + 1]
        /\ \/ \E precision \in {"poi", "street", "area"} :
                LET answer == Found(Key(a)[1], precision) IN
                /\ lookup' = [lookup EXCEPT ![a] = Answered(answer)]
                /\ Keep(a, Key(a), [precision |-> precision, answer |-> answer])
                /\ UNCHANGED refused
           \/ /\ refused' = refused \cup {<<query, today>>}
              /\ IF rest # <<>>
                 THEN /\ lookup' = [lookup EXCEPT ![a].queries = rest]
                      /\ UNCHANGED <<usable, unsaved>>
                 ELSE /\ lookup' = [lookup EXCEPT ![a] = Answered(NoAnswer)]
                      /\ Keep(a, Key(a), Failure(a))
        /\ UNCHANGED <<origin, row, payload, candidate, change, cache, today,
                       observed, overtaken>>

\* worth_writing
WorthWriting(answer, known) ==
    /\ answer # NoAnswer
    /\ Confidence[answer.precision] >= MinConfidence
    /\ Confidence[answer.precision] > known

-----------------------------------------------------------------------------
\* An ingestion cycle.

\* A cycle or a run of the script has its own VenueGeocoder.
GeocoderEnds(a) ==
    /\ lookup' = [lookup EXCEPT ![a] = Resting]
    /\ spent' = [spent EXCEPT ![a] = 0]
    /\ usable' = [usable EXCEPT ![a] = TRUE]

\* _coerce_confidence: full where nothing is said.
Coerced(event) ==
    IF event.confidence = Missing THEN [event EXCEPT !.confidence = 100] ELSE event

\* The payload is normalised before anything is made of it.
Observe ==
    /\ payload = NoRow
    /\ observed < MaxObserved
    /\ \E listing \in ObservedListings :
          /\ Normalized(origin, listing) # NoEvent
          /\ payload' = Coerced(Normalized(origin, listing))
    /\ observed' = observed + 1
    /\ UNCHANGED <<origin, row, candidate, change, lookup, spent, usable, cache,
                   unsaved, today, refused, overtaken>>

\* A payload that may be searched is left alone.
EnrichStarts ==
    /\ payload # NoRow
    /\ lookup["cycle"] = Resting
    /\ payload.confidence < MinConfidence
    /\ Resolve("cycle", payload.address, payload.venue, payload.city)
    /\ UNCHANGED <<origin, row, payload, candidate, change, spent, cache, unsaved,
                   today, observed, refused, overtaken>>

EnrichedPayload ==
    IF /\ lookup["cycle"].stage = "answered"
       /\ WorthWriting(lookup["cycle"].answer, payload.confidence)
    THEN [payload EXCEPT !.point = lookup["cycle"].answer.point,
                         !.confidence = Confidence[lookup["cycle"].answer.precision]]
    ELSE payload

Or(new, old) == IF new # "" THEN new ELSE old

\* Fault: the surer of two confidences is kept with the point of the other.
MergedRow_Surest(old, new) ==
    [venue |-> Or(new.venue, old.venue), address |-> Or(new.address, old.address),
     city |-> old.city, point |-> old.point,
     confidence |-> IF new.confidence > old.confidence THEN new.confidence ELSE old.confidence]

\* A revision by the row's own source: the point goes with its confidence, and
\* with the venue.
MergedRow(old, new) ==
    LET moved == \/ new.venue \notin {"", old.venue}
                 \/ new.address \notin {"", old.address}
        takes == moved \/ new.confidence >= old.confidence
    IN  [venue |-> Or(new.venue, old.venue), address |-> Or(new.address, old.address),
         city |-> IF takes THEN new.city ELSE old.city,
         point |-> IF takes THEN new.point ELSE old.point,
         confidence |-> IF takes THEN new.confidence ELSE old.confidence]

\* The upsert and its commit.
Store ==
    LET new == EnrichedPayload IN
    /\ payload # NoRow
    /\ payload.confidence < MinConfidence => lookup["cycle"].stage = "answered"
    /\ row' = IF row = NoRow THEN new ELSE MergedRow(row, new)
    /\ overtaken' = (overtaken \/ (candidate # NoRow /\ row' # row))
    /\ cache' = [q \in Queries |-> Seen("cycle", q)]
    /\ unsaved' = [unsaved EXCEPT !["cycle"] = [q \in Queries |-> NotKept]]
    /\ payload' = NoRow
    /\ GeocoderEnds("cycle")
    /\ UNCHANGED <<origin, candidate, change, today, observed, refused>>

\* The cycle dies, or its transaction does.
CycleFails ==
    /\ payload # NoRow
    /\ unsaved' = [unsaved EXCEPT !["cycle"] = [q \in Queries |-> NotKept]]
    /\ payload' = NoRow
    /\ GeocoderEnds("cycle")
    /\ UNCHANGED <<origin, row, candidate, change, cache, today, observed, refused,
                   overtaken>>

-----------------------------------------------------------------------------
\* The backfill script.

\* find_candidates
FindCandidate ==
    /\ candidate = NoRow
    /\ row # NoRow
    /\ row.confidence < MinConfidence
    /\ row.venue # "" \/ row.address # ""
    /\ candidate' = row
    /\ overtaken' = FALSE
    /\ UNCHANGED <<origin, row, payload, change, lookup, spent, usable, cache,
                   unsaved, today, observed, refused>>

\* plan_backfill asks without a city.
PlanStarts ==
    /\ candidate # NoRow
    /\ change = NoAnswer
    /\ lookup["script"] = Resting
    /\ Resolve("script", candidate.address, candidate.venue, "")
    /\ UNCHANGED <<origin, row, payload, candidate, change, spent, cache, unsaved,
                   today, observed, refused, overtaken>>

\* The cache is committed before, and without, the changes.
PlanEnds ==
    /\ lookup["script"].stage = "answered"
    /\ cache' = [q \in Queries |-> Seen("script", q)]
    /\ unsaved' = [unsaved EXCEPT !["script"] = [q \in Queries |-> NotKept]]
    /\ GeocoderEnds("script")
    /\ LET answer == lookup["script"].answer IN
       IF WorthWriting(answer, candidate.confidence)
       THEN change' = answer /\ UNCHANGED candidate
       ELSE candidate' = NoRow /\ UNCHANGED change
    /\ UNCHANGED <<origin, row, payload, today, observed, refused, overtaken>>

\* apply_changes, by id, whatever the row says by now; or a dry run.
ApplyChange ==
    /\ change # NoAnswer
    /\ \/ /\ row' = [row EXCEPT !.point = change.point,
                                !.confidence = Confidence[change.precision]]
          /\ UNCHANGED overtaken
       \/ UNCHANGED <<origin, row, overtaken>>
    /\ candidate' = NoRow
    /\ change' = NoAnswer
    /\ UNCHANGED <<origin, payload, lookup, spent, usable, cache, unsaved, today,
                   observed, refused>>

\* The days of a retry pass between the runs.
NextDay ==
    /\ payload = NoRow /\ candidate = NoRow
    /\ today < LastDay
    /\ today' = today + 1
    /\ UNCHANGED <<origin, row, payload, candidate, change, lookup, spent, usable,
                   cache, unsaved, observed, refused, overtaken>>

GeocodingStops ==
    /\ observed = MaxObserved /\ payload = NoRow /\ candidate = NoRow
    /\ UNCHANGED geoVars

GeocodingNext ==
    \/ \E a \in Actors : Defer(a) \/ Ask(a)
    \/ Observe \/ EnrichStarts \/ Store \/ CycleFails
    \/ FindCandidate \/ PlanStarts \/ PlanEnds \/ ApplyChange
    \/ NextDay \/ GeocodingStops

GeocodingSpec == GeocodingInit /\ [][GeocodingNext]_geoVars

-----------------------------------------------------------------------------
\* Whether a point is where a row says its event is.
PlacedAt(event) ==
    CASE event.point[1] \in {"table", "given"} -> event.point[2] \in {event.venue, ""}
      [] event.point[1] = "found" ->
            event.point[2] \in {event.venue, event.address} \ Placeholders
      [] OTHER                                 -> FALSE

\* Radius search finds an event only where it is: a row at or above the threshold
\* has a point of its own venue or address, never the centroid of a city, the
\* point of a venue it has left or of a name that is no venue, whichever
\* connector, lookup or merge placed it.  Three ways round it are known: Meetup's
\* centroids, an address made up from a placeholder, and a change that the script
\* planned before the row moved.  DEFAULT_MIN_LOCATION_CONFIDENCE, worth_writing.
SearchableIsPlaced ==
    /\ row # NoRow
    /\ row.confidence >= MinConfidence
    /\ row.point # MeetupCentroid /\ row.address \notin Placeholders /\ ~overtaken
    => PlacedAt(row)

\* Only the provider can say that a place does not exist: a failure in the cache was
\* the provider's answer, on the day it is dated, to each query of the lookup that
\* left it there.  An outage or an empty budget, at whichever query, leaves none
\* behind, and what one actor keeps or rolls back does not part the two: resolve.
NegativesAreAnswers ==
    \A key \in Queries, a \in Actors :
        LET entry == Seen(a, key) IN
        entry.precision = "none" =>
            /\ entry.attempts # <<>> /\ Head(entry.attempts) = key
            /\ \A i \in DOMAIN entry.attempts : <<entry.attempts[i], entry.day>> \in refused

\* What an actor would ask for.
Wanted(a) ==
    IF a = "cycle" THEN Variants(payload.address, payload.venue, payload.city)
    ELSE Variants(candidate.address, candidate.venue, "")

\* A failure expires, whoever kept it and whoever reads it: a place that can be asked
\* for is given up without asking only if the provider refused its first query less
\* than RetryDays ago.  _read_cache.
FailuresExpire ==
    [][\A a \in Actors :
          /\ lookup[a] = Resting /\ lookup'[a] = Answered(NoAnswer)
          /\ Wanted(a) # <<>>
          => \E r \in refused : r[1] = Head(Wanted(a)) /\ today - r[2] < RetryDays]_geoVars
=============================================================================
