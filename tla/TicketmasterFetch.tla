-------------------------- MODULE TicketmasterFetch --------------------------
(***************************************************************************)
(* One fetch of TicketmasterSource (app/ingestion/ticketmaster.py) from a  *)
(* search that serves only the first events of a result.  A window of      *)
(* dates with more is split in two until each part can be read or is too   *)
(* narrow; then come the events without a date, in two more passes.  The   *)
(* fetch ends early at the first failed request and at its budget.         *)
(*                                                                         *)
(* Simplifications.  Dates are hours from the start of the horizon.  The   *)
(* retries of a request are inside it: a page is answered or fails.  A     *)
(* listing without an id, or one that _map_ticketmaster_event drops, is    *)
(* not counted as a listing.  The filters of a caller are left out, as the *)
(* worker passes none.                                                     *)
(***************************************************************************)
EXTENDS Naturals, FiniteSets, Sequences, SequencesExt

CONSTANTS
    Horizon,       \* length of the horizon, in hours
    MinWindow,     \* _MIN_WINDOW
    Reachable,     \* _DEEP_PAGING_LIMIT: events of one result that can be read
    PerPage,       \* page size
    Budget,        \* _MAX_REQUESTS_PER_RUN
    Catalog,       \* numbers of the listings
    MaxShifts      \* bound: listings that change during the fetch

ASSUME FetchAssumption ==
    /\ Horizon \in Nat \ {0}
    /\ MinWindow \in Nat \ {0}
    /\ Reachable \in Nat \ {0}
    /\ PerPage \in 1..Reachable
    /\ Budget \in Nat
    /\ Catalog \subseteq Nat /\ IsFiniteSet(Catalog)
    /\ MaxShifts \in Nat

VARIABLES
    when,          \* the provider's listings: their hour, or Tba, Tbd, Gone
    windows,       \* pending: a stack of <<first hour, last hour>>
    stage,         \* what is being read: "windows", then "tba", "tbd", "ended"
    window,        \* the window being read; <<>> between windows
    current,       \* current_page
    got,           \* seen_event_ids
    requests,      \* requests_made
    fetchError,    \* last_fetch_error
    pending,       \* _pending_sync_timestamp is set
    shifts         \* history: the result being read changed between two pages

tmVars == <<when, windows, stage, window, current, got, requests, fetchError, pending, shifts>>

Hours == 0..Horizon
Tba   == Horizon + 1
Tbd   == Horizon + 2
Gone  == Horizon + 3
Undated == [tba |-> Tba, tbd |-> Tbd]

FetchInit ==
    /\ when \in [Catalog -> Hours \cup {Tba, Tbd}]
    /\ windows = << <<0, Horizon>> >>
    /\ stage = "windows"
    /\ window = <<>>
    /\ current = 0
    /\ got = {}
    /\ requests = 0
    /\ fetchError = FALSE
    /\ pending = FALSE
    /\ shifts = 0

\* The result of the query being read, and its order.
Hits ==
    IF stage = "windows" THEN {i \in Catalog : when[i] \in window[1]..window[2]}
    ELSE {i \in Catalog : when[i] = Undated[stage]}

ListedBefore(a, b) == when[a] < when[b] \/ (when[a] = when[b] /\ a < b)

CeilDiv(n, d) == (n + d - 1) \div d

PageLimit     == CeilDiv(Reachable, PerPage)
TotalElements == Cardinality(Hits)
TotalPages    == CeilDiv(TotalElements, PerPage)

\* append_events: the hits that as many others precede as the pages before hold.
PageItems ==
    {i \in Hits : Cardinality({j \in Hits : ListedBefore(j, i)})
                      \in current * PerPage..((current + 1) * PerPage - 1)}

Reading ==
    \/ stage \in DOMAIN Undated
    \/ stage = "windows" /\ window # <<>>

\* pending.pop()
PopWindow ==
    /\ stage = "windows"
    /\ window = <<>>
    /\ windows # <<>>
    /\ ~fetchError
    /\ window' = Last(windows)
    /\ windows' = Front(windows)
    /\ current' = 0
    /\ UNCHANGED <<when, stage, got, requests, fetchError, pending, shifts>>

\* What is read after the windows; a timestamp to acknowledge only when nothing
\* went wrong.
Advance(wrong) ==
    /\ fetchError' = wrong
    /\ window' = <<>>
    /\ current' = 0
    /\ stage' = IF wrong THEN "ended"
               ELSE CASE stage = "windows" -> IF windows = <<>> THEN "tba" ELSE "windows"
                      [] stage = "tba"     -> "tbd"
                      [] OTHER            -> "ended"
    /\ pending' = (stage = "tbd" /\ ~wrong)

\* Fault: a request that failed is sent again until the budget is spent, and is
\* still wanted then.
ReadFails_Retry ==
    /\ Reading
    /\ requests' = Budget
    /\ UNCHANGED <<when, windows, stage, window, current, got, fetchError, pending, shifts>>

\* read_page: the budget is spent or the request failed.
ReadFails ==
    /\ Reading
    /\ Advance(TRUE)
    /\ requests' = IF requests < Budget THEN requests + 1 ELSE requests
    /\ UNCHANGED <<when, windows, got, shifts>>

TooDense ==
    /\ current = 0
    /\ TotalElements > Reachable \/ TotalPages > PageLimit

Splits ==
    /\ stage = "windows"
    /\ TooDense
    /\ window[2] - window[1] > MinWindow

\* Fault: the halves do not share their boundary.
SplitWindow_Exclusive ==
    LET middle == window[1] + (window[2] - window[1]) \div 2 IN
    /\ Reading /\ requests < Budget
    /\ Splits
    /\ windows' = windows \o << <<middle + 1, window[2]>>, <<window[1], middle - 1>> >>
    /\ window' = <<>>
    /\ requests' = requests + 1
    /\ UNCHANGED <<when, stage, current, got, fetchError, pending, shifts>>

\* A dense window is read in two, the earlier half first; what is on the
\* boundary is in both and is known by its id.
SplitWindow ==
    LET middle == window[1] + (window[2] - window[1]) \div 2 IN
    /\ Reading /\ requests < Budget
    /\ Splits
    /\ windows' = windows \o << <<middle, window[2]>>, <<window[1], middle>> >>
    /\ window' = <<>>
    /\ requests' = requests + 1
    /\ UNCHANGED <<when, stage, current, got, fetchError, pending, shifts>>

\* Fault: a window that cannot be split is taken to be read.
ReadPage_TrustsCap ==
    /\ Reading /\ requests < Budget
    /\ ~Splits
    /\ requests' = requests + 1
    /\ got' = got \cup PageItems
    /\ IF current + 1 < TotalPages /\ current + 1 < PageLimit
       THEN /\ current' = current + 1
            /\ UNCHANGED <<stage, window, fetchError, pending>>
       ELSE Advance(FALSE)
    /\ UNCHANGED <<when, windows, shifts>>

\* A page, and after the last one reachable the question whether there was more.
ReadPage ==
    /\ Reading /\ requests < Budget
    /\ ~Splits
    /\ requests' = requests + 1
    /\ got' = got \cup PageItems
    /\ IF current + 1 < TotalPages /\ current + 1 < PageLimit
       THEN /\ current' = current + 1
            /\ UNCHANGED <<stage, window, fetchError, pending>>
       ELSE Advance(current + 1 < TotalPages \/ TotalElements > Reachable)
    /\ UNCHANGED <<when, windows, shifts>>

\* The provider moves a listing, or takes it off, while the fetch is running.
Shift ==
    /\ stage # "ended"
    /\ shifts < MaxShifts
    /\ \E i \in Catalog, to \in Hours \cup {Gone} :
          when[i] # to /\ when' = [when EXCEPT ![i] = to]
    /\ shifts' = shifts + 1
    /\ UNCHANGED <<windows, stage, window, current, got, requests, fetchError, pending>>

FetchEnded == stage = "ended" /\ UNCHANGED tmVars

FetchStep == PopWindow \/ ReadFails \/ SplitWindow \/ ReadPage

FetchNext == FetchStep \/ Shift \/ FetchEnded

FetchSpec == FetchInit /\ [][FetchNext]_tmVars /\ WF_tmVars(FetchStep)

-----------------------------------------------------------------------------
\* A fetch with a timestamp to acknowledge, or that reports no error, has read
\* every listing of the horizon and every undated one, however dense the days
\* are, provided the provider's results held still; a search that is too dense,
\* too long for the budget or interrupted is reported: fetch_events.
CompleteOrReported ==
    /\ pending => stage = "ended" /\ ~fetchError
    /\ stage = "ended" /\ ~fetchError /\ shifts = 0 => got = Catalog
=============================================================================
