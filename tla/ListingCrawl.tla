---------------------------- MODULE ListingCrawl ----------------------------
(***************************************************************************)
(* One fetch of a source that reads listing pages: dothebay and sfstation  *)
(* walk the pages of each day, eventbrite those of each slice, funcheap    *)
(* those of each day with detail pages as a fallback, and the rest read    *)
(* one page per section and fail as a whole: "truncated" stands for        *)
(* minnesotastreet and luma, which keep the first candidates of a page,    *)
(* "single" for sterngrove and 19hz, which keep them all.  What was found  *)
(* is then extracted one candidate at a time                               *)
(* (app/ingestion/input_agent.py).                                         *)
(*                                                                         *)
(* Simplifications.  A page lists one event of its own, and the first page *)
(* of every day or slice an event that is on everywhere.  The category     *)
(* calendars of sfstation are one, and list events of the day's calendar.  *)
(* The retries of a request are inside it.  Extraction is a choice between *)
(* an event, None and an exception; what an event says is in Normalizers.  *)
(***************************************************************************)
EXTENDS Naturals, FiniteSets, Sequences, SequencesExt

CONSTANTS
    Sites,         \* the sources to explore, some of AllSites
    Units,         \* number of days, slices or sections
    MaxPages,      \* bound: pages a unit may have
    UnitCap,       \* max_pages_per_day, max_pages_per_slice
    CategoryCap,   \* max_category_pages_per_day
    SectionCap,    \* the 40 of minnesotastreet, the 50 of luma
    RequestCap,    \* max_requests
    CandidateCap,  \* max_candidates, max_events
    DetailCap      \* max_detail_pages

AllSites == {"dothebay", "sfstation", "eventbrite", "funcheap", "truncated", "single"}
OnePage == {"truncated", "single"}

ASSUME CrawlAssumption ==
    /\ Sites \subseteq AllSites
    /\ Units \in Nat \ {0}
    /\ {UnitCap, CategoryCap, SectionCap, RequestCap, CandidateCap} \subseteq Nat \ {0}
    /\ {MaxPages, DetailCap} \subseteq Nat

VARIABLES
    site,          \* the source whose fetch runs
    length,        \* the world: pages with events, by unit
    odd,           \* the world: what is unusual about a unit's pages
    unit,          \* the day or slice being read; Units + 1 when all are
    calendar,      \* sfstation: the day's own calendar or its category's
    page,          \* the page of it to read next
    sliceSeen,     \* slice_urls
    merged,        \* merged, payloads: the candidates in the order found
    links,         \* fallback_links still to visit
    sent,          \* requests_made
    details,       \* detail pages visited
    phase,         \* "crawl", "details", "extract", then "returned" or "raised"
    problem,       \* last_fetch_error
    kept,          \* events to return
    rejected,      \* candidates without a usable date, title or place
    failures,      \* failure_types: candidates whose extraction raised
    swallowed      \* history: detail pages that failed and were skipped

craVars == <<site, length, odd, unit, calendar, page, sliceSeen, merged, links,
             sent, details, phase, problem, kept, rejected, failures, swallowed>>
worldVars == <<site, length, odd>>
foundVars == <<kept, rejected, failures, swallowed>>

Oddities ==
    [s \in AllSites |-> CASE s = "eventbrite" -> {"none", "uncounted", "repeats"}
                          [] s = "funcheap"   -> {"none", "bare"}
                          [] OTHER            -> {"none"}]

CrawlInit ==
    /\ site \in Sites
    /\ length \in [1..Units -> 0..(IF site \in OnePage THEN 1 ELSE MaxPages)]
    /\ odd \in [1..Units -> Oddities[site]]
    /\ unit = 1
    /\ calendar = "day"
    /\ page = 1
    /\ sliceSeen = {}
    /\ merged = <<>>
    /\ links = <<>>
    /\ sent = 0
    /\ details = 0
    /\ phase = "crawl"
    /\ problem = FALSE
    /\ kept = {}
    /\ rejected = {}
    /\ failures = {}
    /\ swallowed = {}

\* The event that is on in every unit, and the events of a page.
Ongoing == <<0, 0>>

Listing(u, p) ==
    IF p \notin 1..length[u] THEN <<>>
    ELSE IF p = 1 THEN << <<u, 1>>, Ongoing>> ELSE << <<u, p>> >>

Listed == UNION {ToSet(Listing(u, p)) : u \in 1..Units, p \in 1..MaxPages}

\* merged.setdefault for each candidate of a page, which has two at most.
SetDefault(found, x) == IF x \in ToSet(found) THEN found ELSE Append(found, x)

Absorb(found, shown) ==
    CASE Len(shown) = 0 -> found
      [] Len(shown) = 1 -> SetDefault(found, shown[1])
      [] OTHER          -> SetDefault(SetDefault(found, shown[1]), shown[2])

\* The slice [:n] of a list.
FirstOf(found, n) == IF Len(found) > n THEN SubSeq(found, 1, n) ELSE found

Crawling(s) == phase = "crawl" /\ site = s /\ unit \in 1..Units

\* The unit has been read, or given up: go to what is crawled next.
FinishUnit(wrong) ==
    /\ problem' = (problem \/ wrong)
    /\ page' = 1
    /\ sliceSeen' = {}
    /\ IF site = "sfstation" /\ calendar = "day"
       THEN calendar' = "category" /\ UNCHANGED unit
       ELSE calendar' = "day" /\ unit' = unit + 1
    /\ UNCHANGED phase

NextPage ==
    /\ page' = page + 1
    /\ UNCHANGED <<problem, sliceSeen, calendar, unit, phase>>

\* The crawl is over, with an error that is reported.
CutShort ==
    /\ problem' = TRUE
    /\ unit' = Units + 1
    /\ UNCHANGED <<page, sliceSeen, calendar, phase>>

Raise == phase' = "raised" /\ UNCHANGED <<problem, page, sliceSeen, calendar, unit>>

PageCap == IF calendar = "day" THEN UnitCap ELSE CategoryCap

\* Fault: reaching the last page allowed is taken for the end of the day.
ReadCalendarPage_CapIsEnd ==
    /\ Crawling("dothebay") \/ Crawling("sfstation")
    /\ sent < RequestCap
    /\ sent' = sent + 1
    /\ merged' = Absorb(merged, Listing(unit, page))
    /\ \E next \in BOOLEAN :
          /\ next => page < length[unit]
          /\ calendar = "day" /\ page < length[unit] => next
          /\ IF next /\ page < PageCap THEN NextPage ELSE FinishUnit(FALSE)
    /\ UNCHANGED <<worldVars, links, details, foundVars>>

\* A page of a day, with its link to the next one.  All pages of the day's own
\* calendar are linked; a category's may be fewer.
ReadCalendarPage ==
    /\ Crawling("dothebay") \/ Crawling("sfstation")
    /\ sent < RequestCap
    /\ sent' = sent + 1
    /\ merged' = Absorb(merged, Listing(unit, page))
    /\ \E next \in BOOLEAN :
          /\ next => page < length[unit]
          /\ calendar = "day" /\ page < length[unit] => next
          /\ IF next /\ page < PageCap THEN NextPage ELSE FinishUnit(next)
    /\ UNCHANGED <<worldVars, links, details, foundVars>>

\* The cap on requests ends the day, and every later one, with an error.
RequestCapReached ==
    /\ Crawling("dothebay") \/ Crawling("sfstation")
    /\ sent >= RequestCap
    /\ FinishUnit(TRUE)
    /\ UNCHANGED <<worldVars, merged, links, sent, details, foundVars>>

\* An error after the first candidates is reported with what was read; before,
\* it is raised: dothebay, sfstation, eventbrite.
RequestFails ==
    /\ \E s \in {"dothebay", "sfstation", "eventbrite"} : Crawling(s)
    /\ sent < RequestCap
    /\ site = "eventbrite" => page <= UnitCap
    /\ sent' = sent + 1
    /\ IF merged = <<>> THEN Raise ELSE CutShort
    /\ UNCHANGED <<worldVars, merged, links, details, foundVars>>

-----------------------------------------------------------------------------
\* What a slice answers: one that repeats shows its first page for every number.
SlicePage == Listing(unit, IF odd[unit] = "repeats" THEN 1 ELSE page)

\* Whether there is more is asked of the page itself, in this order: no count is
\* an error, the last page is the end, a page that adds nothing is an error.
ReadSlicePage ==
    /\ Crawling("eventbrite")
    /\ page <= UnitCap /\ sent < RequestCap
    /\ sent' = sent + 1
    /\ merged' = Absorb(merged, SlicePage)
    /\ IF odd[unit] = "uncounted" THEN FinishUnit(TRUE)
       ELSE IF page >= length[unit] THEN FinishUnit(FALSE)
       ELSE IF ToSet(SlicePage) \subseteq sliceSeen THEN FinishUnit(TRUE)
       ELSE /\ sliceSeen' = sliceSeen \cup ToSet(SlicePage)
            /\ page' = page + 1
            /\ UNCHANGED <<problem, calendar, unit, phase>>
    /\ UNCHANGED <<worldVars, links, details, foundVars>>

\* The else of the while: a page or request cap.
SliceCapReached ==
    /\ Crawling("eventbrite")
    /\ page > UnitCap \/ sent >= RequestCap
    /\ FinishUnit(TRUE)
    /\ UNCHANGED <<worldVars, merged, links, sent, details, foundVars>>

-----------------------------------------------------------------------------
\* A day index: its embedded events, or on a first page that has none and no
\* notice that the day is empty, its links.  The last page may link a next one,
\* which is then empty.
ReadIndexPage ==
    /\ Crawling("funcheap")
    /\ sent' = sent + 1
    /\ LET shown == IF odd[unit] = "bare" THEN <<>> ELSE Listing(unit, page) IN
       /\ merged' = Absorb(merged, shown)
       /\ IF shown = <<>>
          THEN /\ links' = IF page = 1 THEN Absorb(links, Listing(unit, 1)) ELSE links
               /\ FinishUnit(FALSE)
          ELSE /\ UNCHANGED links
               /\ \E next \in BOOLEAN :
                     /\ page < length[unit] => next
                     /\ IF next /\ page < UnitCap THEN NextPage ELSE FinishUnit(next)
    /\ UNCHANGED <<worldVars, details, foundVars>>

\* A page that timed out ends its day only; any other error is raised.
IndexPageFails ==
    /\ Crawling("funcheap")
    /\ sent' = sent + 1
    /\ FinishUnit(TRUE) \/ Raise
    /\ UNCHANGED <<worldVars, merged, links, details, foundVars>>

EndIndexes ==
    /\ phase = "crawl" /\ site = "funcheap" /\ unit = Units + 1
    /\ phase' = IF merged = <<>> /\ links = <<>> THEN "returned" ELSE "details"
    /\ UNCHANGED <<worldVars, unit, calendar, page, sliceSeen, merged, links, sent, details,
                   problem, foundVars>>

Known == links # <<>> /\ Head(links) \in ToSet(merged)

\* A link to an event that is there already costs nothing.
SkipDetail ==
    /\ phase = "details"
    /\ Known
    /\ links' = Tail(links)
    /\ UNCHANGED <<worldVars, unit, calendar, page, sliceSeen, merged, sent, details,
                   phase, problem, foundVars>>

\* A detail page: an event, nothing usable, or an exception that is skipped.
VisitDetail ==
    /\ phase = "details"
    /\ ~Known
    /\ links # <<>> /\ Len(merged) < CandidateCap /\ details < DetailCap
    /\ details' = details + 1
    /\ links' = Tail(links)
    /\ \/ merged' = Append(merged, Head(links)) /\ UNCHANGED <<rejected, swallowed>>
       \/ rejected' = rejected \cup {Head(links)} /\ UNCHANGED <<merged, swallowed>>
       \/ swallowed' = swallowed \cup {Head(links)} /\ UNCHANGED <<merged, rejected>>
    /\ UNCHANGED <<worldVars, unit, calendar, page, sliceSeen, sent, phase, problem,
                   kept, failures>>

EndDetails ==
    /\ phase = "details"
    /\ ~Known
    /\ links = <<>> \/ Len(merged) >= CandidateCap \/ details >= DetailCap
    /\ phase' = "returned"
    /\ problem' = (problem \/ links # <<>> \/ Len(merged) > CandidateCap)
    /\ kept' = ToSet(FirstOf(merged, CandidateCap))
    /\ UNCHANGED <<worldVars, unit, calendar, page, sliceSeen, merged, links, sent,
                   details, rejected, failures, swallowed>>

-----------------------------------------------------------------------------
\* What a page yields: candidates[:40] or structured[:50], and nothing is said of
\* the others.
SectionPage ==
    IF site = "truncated" THEN FirstOf(Listing(unit, 1), SectionCap) ELSE Listing(unit, 1)

\* Every section is one page, and the candidates are not merged; an error is raised.
ReadSection ==
    /\ Crawling("truncated") \/ Crawling("single")
    /\ sent' = sent + 1
    /\ \/ merged' = merged \o SectionPage /\ FinishUnit(FALSE)
       \/ UNCHANGED merged /\ Raise
    /\ UNCHANGED <<worldVars, links, details, foundVars>>

\* Fault: the candidates over the cap are dropped without a word.
EndCrawl_SilentCap ==
    /\ phase = "crawl" /\ site # "funcheap" /\ unit = Units + 1
    /\ phase' = "extract"
    /\ merged' = IF site \in {"dothebay", "sfstation"}
                 THEN FirstOf(merged, CandidateCap) ELSE merged
    /\ UNCHANGED <<worldVars, problem, unit, calendar, page, sliceSeen, links, sent,
                   details, foundVars>>

\* The candidates a run may return.
EndCrawl ==
    /\ phase = "crawl" /\ site # "funcheap" /\ unit = Units + 1
    /\ phase' = "extract"
    /\ IF site \in {"dothebay", "sfstation"} /\ Len(merged) > CandidateCap
       THEN problem' = TRUE /\ merged' = FirstOf(merged, CandidateCap)
       ELSE UNCHANGED <<problem, merged>>
    /\ UNCHANGED <<worldVars, unit, calendar, page, sliceSeen, links, sent, details,
                   foundVars>>

\* fetch_events of InputAgentSource, one candidate after the other.
ExtractCandidate ==
    /\ phase = "extract"
    /\ merged # <<>>
    /\ merged' = Tail(merged)
    /\ \/ kept' = kept \cup {Head(merged)} /\ UNCHANGED <<rejected, failures>>
       \/ rejected' = rejected \cup {Head(merged)} /\ UNCHANGED <<kept, failures>>
       \/ failures' = failures \cup {Head(merged)} /\ UNCHANGED <<kept, rejected>>
    /\ UNCHANGED <<worldVars, unit, calendar, page, sliceSeen, links, sent, details,
                   phase, problem, swallowed>>

EndExtraction ==
    /\ phase = "extract"
    /\ merged = <<>>
    /\ phase' = "returned"
    /\ problem' = (problem \/ failures # {})
    /\ UNCHANGED <<worldVars, unit, calendar, page, sliceSeen, merged, links, sent,
                   details, foundVars>>

CrawlStep ==
    \/ ReadCalendarPage \/ RequestCapReached \/ RequestFails
    \/ ReadSlicePage \/ SliceCapReached
    \/ ReadIndexPage \/ IndexPageFails \/ EndIndexes \/ SkipDetail \/ VisitDetail \/ EndDetails
    \/ ReadSection \/ EndCrawl \/ ExtractCandidate \/ EndExtraction

CrawlEnded == phase \in {"returned", "raised"} /\ UNCHANGED craVars

CrawlNext == CrawlStep \/ CrawlEnded

CrawlSpec == CrawlInit /\ [][CrawlNext]_craVars /\ WF_craVars(CrawlStep)

-----------------------------------------------------------------------------
\* What a crawl may miss and not say: a slice of two pages that shows the first
\* one twice, the later pages of a day index without embedded events, and the
\* detail pages that failed.
Unannounced ==
    {e \in Listed : /\ e # Ongoing
                    /\ \/ odd[e[1]] = "repeats" /\ length[e[1]] = 2
                       \/ odd[e[1]] = "bare" /\ e[2] > 1}
    \cup swallowed

\* The listings of minnesotastreet and luma that are on no page before its cut.
CutOff ==
    {e \in Listed : /\ site = "truncated"
                    /\ \A u \in 1..Units : e \notin ToSet(FirstOf(Listing(u, 1), SectionCap))}

\* A fetch that returns without an error has seen every event of its listings,
\* whatever the page, request, candidate and detail caps, the failures and the
\* pages of the site are: each event is returned or was rejected as unusable.
\* The cut of minnesotastreet and luma is the cap that is not reported: see
\* CappedIsIncomplete.  _crawl_day_pages, _crawl_day_calendars,
\* _crawl_listing_slices, _crawl_day_indexes, fetch_events.
NothingSilentlyMissed ==
    phase = "returned" /\ ~problem =>
        Listed \ (Unannounced \cup CutOff) \subseteq kept \cup rejected

\* docs/reliability-fixes-2026-09-29.md:13: "Capped/failed/rejected fetches remain
\* incomplete.": a fetch that returns without an error has lost nothing to a cap.
\* _extract_candidates of minnesotastreet, _extract_candidates_from_html of luma.
CappedIsIncomplete ==
    phase = "returned" /\ ~problem => Listed \ Unannounced \subseteq kept \cup rejected
=============================================================================
