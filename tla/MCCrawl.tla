------------------------------- MODULE MCCrawl -------------------------------
EXTENDS Crawl

\* Venue, address, and whether coordinates are published.
MCPlaces ==
    {<<"v", "a", FALSE>>, <<"t", "a", FALSE>>, <<"tba", "", FALSE>>, <<"v", "a", TRUE>>}

MCListings ==
    {l \in Listings : /\ l.titled /\ l.linked /\ l.date = "day" /\ l.city = "c"
                      /\ <<l.venue, l.address, l.geo>> \in MCPlaces}

\* luma places as minnesotastreet does, and the detail pages of funcheap as its index.
MCOrigins == Connectors \ {"luma", "funcheap_detail"}
=============================================================================
