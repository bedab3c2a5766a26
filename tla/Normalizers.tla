----------------------------- MODULE Normalizers -----------------------------
(***************************************************************************)
(* What each connector makes of a listing: whether it becomes an event at  *)
(* all, and where the event is placed with which confidence, in percent    *)
(* (normalize_raw and the payload functions in app/ingestion/sources/ and  *)
(* app/ingestion/ticketmaster.py, on lookup_venue_coordinates of           *)
(* app/ingestion/venue_cache.py).                                          *)
(*                                                                         *)
(* Simplifications.  A listing is reduced to whether it has a title and a  *)
(* URL, which date it gives, and what it says of its place: venue,         *)
(* address, city and published coordinates, "" where it says nothing.      *)
(* The matching of names with the table is exact here, and an address      *)
(* stands for its venue.  Prices, tags and hours are left out.             *)
(***************************************************************************)
EXTENDS Naturals

CONSTANTS
    TableVenues,       \* names in VENUE_COORDINATES
    OtherVenues,       \* names that are not
    Placeholders,      \* _PLACEHOLDER_VENUES
    Cities,            \* names of cities
    TableCities,       \* those in CITY_COORDINATES
    Addresses          \* street addresses

ASSUME NormalizersAssumption == TableVenues # {}

Venues == TableVenues \cup OtherVenues \cup Placeholders

Listings ==
    [titled : BOOLEAN, linked : BOOLEAN,
     date : {"none", "day", "phrase"},
     venue : Venues \cup {""}, address : Addresses \cup {""},
     city : Cities \cup {""}, geo : BOOLEAN]

\* An event keeps the place it was given, its point and the confidence in it;
\* Missing is a payload without location_confidence.
Missing == 1000
NoEvent == [point |-> <<"none", "">>]

Placed(listing, point, confidence) ==
    [venue |-> listing.venue, address |-> listing.address, city |-> listing.city,
     point |-> point, confidence |-> confidence]

\* The centroid of the city; the one that Meetup takes is told apart, because
\* its confidence is that of the venue's name.
Centroid == <<"centroid", "">>
MeetupCentroid == <<"centroid", "meetup">>

\* lookup_venue_coordinates
InTable(venue) == venue \in TableVenues
TablePoint(venue) == <<"table", venue>>

\* A name from the table, another name, or none, at the centroid of the city.
Ladder(listing, inTable, named, unnamed) ==
    IF InTable(listing.venue) THEN Placed(listing, TablePoint(listing.venue), inTable)
    ELSE Placed(listing, Centroid, IF listing.venue # "" THEN named ELSE unnamed)

DayKnown(listing) == listing.date = "day"

DoTheBay(listing) ==
    IF listing.titled /\ listing.linked /\ DayKnown(listing)
    THEN Ladder(listing, 90, 40, 30) ELSE NoEvent

\* Fault: a name that is not in the table counts for half, as it once did.
SfStation_Half(listing) ==
    IF listing.titled /\ listing.linked /\ DayKnown(listing)
    THEN Ladder(listing, 90, 50, 30) ELSE NoEvent

SfStation(listing) ==
    IF listing.titled /\ listing.linked /\ DayKnown(listing)
    THEN Ladder(listing, 90, 40, 30) ELSE NoEvent

\* The location text of Luma is both the venue and the address.
Luma(listing) ==
    IF listing.titled /\ listing.linked /\ DayKnown(listing)
    THEN [Ladder(listing, 90, 40, 30) EXCEPT !.address = listing.venue] ELSE NoEvent

\* The city follows the venue in brackets, San Francisco if it does not; its
\* centroid is better than none.
NineteenHz(listing) ==
    IF ~listing.titled \/ ~DayKnown(listing) THEN NoEvent
    ELSE IF ~InTable(listing.venue) /\ listing.city \in TableCities \cup {""}
         THEN Placed([listing EXCEPT !.address = ""], <<"city", listing.city>>, 40)
         ELSE Ladder([listing EXCEPT !.address = ""], 90, 30, 30)

\* A post is an event if it is anchored by a venue or a time, or the model says
\* so; a post that names no day is placed on its own.
Reddit(listing) ==
    IF listing.titled /\ (listing.venue # "" \/ listing.date # "none")
    THEN Ladder([listing EXCEPT !.address = ""], 85, 45, 30) ELSE NoEvent

\* Venues without a name are the project's own, which is in the table.
MinnesotaStreet(listing) ==
    LET shown == IF listing.venue # "" THEN listing.venue
                 ELSE CHOOSE v \in TableVenues : TRUE IN
    IF listing.titled /\ listing.linked /\ DayKnown(listing)
    THEN [Ladder([listing EXCEPT !.venue = shown], 90, 30, 30) EXCEPT !.address = listing.venue]
    ELSE NoEvent

\* Every concert is in the grove.
SternGrove(listing) ==
    IF listing.titled /\ DayKnown(listing)
    THEN Ladder([listing EXCEPT !.venue = CHOOSE v \in TableVenues : TRUE], 90, 30, 30)
    ELSE NoEvent

\* Prose without a calendar date is no event.
EddiesList(listing) ==
    IF listing.titled /\ listing.linked /\ DayKnown(listing)
    THEN Ladder(listing, 90, 40, 40) ELSE NoEvent

\* An address is made up from the venue when there is none.
FuncheapAddress(listing) ==
    IF listing.address # "" THEN listing.address ELSE listing.venue

FuncheapIndex(listing) ==
    IF listing.titled /\ listing.linked /\ DayKnown(listing)
    THEN [Ladder(listing, 90, 40, 40) EXCEPT !.address = FuncheapAddress(listing)]
    ELSE NoEvent

\* The detail pages also say "today" and "tomorrow".
FuncheapDetail(listing) ==
    IF listing.titled /\ listing.date # "none"
    THEN [Ladder(listing, 90, 40, 40) EXCEPT !.address = FuncheapAddress(listing)]
    ELSE NoEvent

\* Published coordinates, or those of the table, or no event.
Eventbrite(listing) ==
    IF ~listing.titled \/ ~listing.linked \/ ~DayKnown(listing) THEN NoEvent
    ELSE IF listing.geo THEN Placed(listing, <<"given", listing.venue>>, 90)
    ELSE IF InTable(listing.venue) THEN Placed(listing, TablePoint(listing.venue), 90)
    ELSE NoEvent

\* The confidence is that of the name, with or without coordinates.
Meetup(listing) ==
    IF listing.titled /\ DayKnown(listing)
    THEN Placed(listing, IF listing.geo THEN <<"given", listing.venue>> ELSE MeetupCentroid,
                IF listing.venue # "" THEN 85 ELSE 60)
    ELSE NoEvent

\* Events without coordinates are skipped, and the payload has no confidence.
Ticketmaster(listing) ==
    IF listing.geo /\ DayKnown(listing)
    THEN Placed(listing, <<"given", listing.venue>>, Missing) ELSE NoEvent

Connectors ==
    {"dothebay", "sfstation", "luma", "19hz", "reddit", "minnesotastreet", "sterngrove",
     "eddies_list", "funcheap_index", "funcheap_detail", "eventbrite", "meetup",
     "ticketmaster"}

\* What a connector returns for a listing.
Normalized(connector, listing) ==
    CASE connector = "dothebay"        -> DoTheBay(listing)
      [] connector = "sfstation"       -> SfStation(listing)
      [] connector = "luma"            -> Luma(listing)
      [] connector = "19hz"            -> NineteenHz(listing)
      [] connector = "reddit"          -> Reddit(listing)
      [] connector = "minnesotastreet" -> MinnesotaStreet(listing)
      [] connector = "sterngrove"      -> SternGrove(listing)
      [] connector = "eddies_list"     -> EddiesList(listing)
      [] connector = "funcheap_index"  -> FuncheapIndex(listing)
      [] connector = "funcheap_detail" -> FuncheapDetail(listing)
      [] connector = "eventbrite"      -> Eventbrite(listing)
      [] connector = "meetup"          -> Meetup(listing)
      [] connector = "ticketmaster"    -> Ticketmaster(listing)
=============================================================================
