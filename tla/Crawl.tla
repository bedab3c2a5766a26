-------------------------------- MODULE Crawl --------------------------------
(***************************************************************************)
(* The way of a listing into the database, up to the merge: a fetch from   *)
(* the Ticketmaster API, a fetch from listing pages, the limiter their     *)
(* requests pass, and the placing and the tagging of an event that was     *)
(* fetched.  They share no variable, and a fetch hands over a list that    *)
(* the next cycle forgets; a behaviour exercises one part, and the others  *)
(* stay in one of their initial states.                                    *)
(***************************************************************************)
EXTENDS TicketmasterFetch, ListingCrawl, OutboundLimiter, Geocoding, VibeTags

VARIABLE part

CrawlParts == {"api", "pages", "limiter", "places", "tags"}

allVars == <<part, tmVars, craVars, limVars, geoVars, tagVars>>

PartsInit ==
    /\ part \in CrawlParts
    /\ part # "api" => when = [i \in Catalog |-> 0]
    /\ FetchInit
    /\ part # "pages" =>
         /\ site = CHOOSE s \in Sites : TRUE
         /\ length = [u \in 1..Units |-> 0]
         /\ odd = [u \in 1..Units |-> "none"]
    /\ CrawlInit
    /\ LimiterInit
    /\ part # "places" => origin = CHOOSE o \in Origins : TRUE
    /\ GeocodingInit
    /\ part # "tags" => tagCache = [d \in Descriptions |-> NotCached]
    /\ TagsInit

PartsNext ==
    \/ /\ part = "api"
       /\ FetchNext
       /\ UNCHANGED <<part, craVars, limVars, geoVars, tagVars>>
    \/ /\ part = "pages"
       /\ CrawlNext
       /\ UNCHANGED <<part, tmVars, limVars, geoVars, tagVars>>
    \/ /\ part = "limiter"
       /\ LimiterNext
       /\ UNCHANGED <<part, tmVars, craVars, geoVars, tagVars>>
    \/ /\ part = "places"
       /\ GeocodingNext
       /\ UNCHANGED <<part, tmVars, craVars, limVars, tagVars>>
    \/ /\ part = "tags"
       /\ TagsNext
       /\ UNCHANGED <<part, tmVars, craVars, limVars, geoVars>>

\* The worker awaits a fetch to its end, and every request has a timeout.
FetchFairness ==
    /\ WF_allVars(part = "api" /\ FetchStep
                   /\ UNCHANGED <<part, craVars, limVars, geoVars, tagVars>>)
    /\ WF_allVars(part = "pages" /\ CrawlStep
                   /\ UNCHANGED <<part, tmVars, limVars, geoVars, tagVars>>)

PartsSpec == PartsInit /\ [][PartsNext]_allVars /\ FetchFairness

\* A fetch comes to an end, whatever the provider lists, answers or refuses: no
\* page, window or retry is repeated for ever.  fetch_events of each source.
FetchesEnd ==
    /\ <>(part # "api" \/ stage = "ended")
    /\ <>(part # "pages" \/ phase \in {"returned", "raised"})
=============================================================================
