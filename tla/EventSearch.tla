----------------------------- MODULE EventSearch -----------------------------
(***************************************************************************)
(* Browsing the events page by page: the hook useEventSearch of the web    *)
(* application, which asks for pages and puts them together, and           *)
(* search_events of app/api/discovery.py, which answers by offset from a   *)
(* table that ingestion keeps changing.                                    *)
(*                                                                         *)
(* An answer is two statements, the count for X-Total-Count and the page,  *)
(* each with a snapshot of its own.  Requests may be answered in any order *)
(* and may fail; the hook aborts the one it no longer wants, which may     *)
(* have been answered already.                                             *)
(*                                                                         *)
(* Simplifications.  The filters of a query are the set of events that     *)
(* pass them; an event leaves the answers of all queries when it ends, is  *)
(* cancelled or is merged away, and its start may be revised.  The order   *)
(* by distance has the same two keys behind it and is left out.            *)
(***************************************************************************)
EXTENDS Naturals, FiniteSets, Sequences, SequencesExt, FiniteSetsExt

CONSTANTS
    Ids,           \* numbers of events
    Queries,       \* what a user may search for
    Passing,       \* the events that pass the filters of each query
    Starts,        \* start_at
    PageSize,      \* PAGE_SIZE
    MaxFetches,    \* bound: requests
    MaxChanges     \* bound: changes of the table

ASSUME SearchAssumption ==
    /\ Ids \subseteq Nat /\ IsFiniteSet(Ids)
    /\ Passing \in [Queries -> SUBSET Ids]
    /\ Starts \subseteq Nat \ {0}
    /\ PageSize \in Nat \ {0}
    /\ MaxFetches \in Nat
    /\ MaxChanges \in Nat

VARIABLES
    start,        \* start_at of the events in the answers; 0 for the others
    changes,
    key,          \* the query on the screen
    shown,        \* state.events
    nextOffset,
    hasMore,
    loading,
    fetches,      \* the requests, in the order they were made
    steady,       \* history: events as they were since the first page
    departed,     \* history: since then an event left or moved
    squeezed      \* history: and one arrived between a count and its page

screen  == <<key, shown, nextOffset, hasMore, loading>>
seaHistory == <<steady, departed, squeezed>>
seaVars == <<start, changes, screen, fetches, seaHistory>>

Fetch(q, offset) == [key |-> q, offset |-> offset, at |-> "sent", total |-> 0,
                     page |-> <<>>, aborted |-> FALSE]

Closed == [Fetch("", 0) EXCEPT !.at = "done"]

Shown == {i \in Ids : start[i] # 0}

\* search_events, the WHERE: the events of a query
Matching(q) == Passing[q] \cap Shown

\* ORDER BY start_at, id
Earlier(a, b) == start[a] < start[b] \/ (start[a] = start[b] /\ a < b)

\* Fault: the order has no second key, so the database breaks ties as it likes.
Orders_NoTieBreak(S) ==
    {p \in [1..Cardinality(S) -> S] :
        /\ \A i, j \in DOMAIN p : i # j => p[i] # p[j]
        /\ \A i, j \in DOMAIN p : i < j => start[p[i]] <= start[p[j]]}

\* The rows of a set in that order: the one order there is
Orders(S) ==
    {p \in [1..Cardinality(S) -> S] : \A i, j \in DOMAIN p : i < j => Earlier(p[i], p[j])}

SearchInit ==
    /\ start \in [Ids -> Starts \cup {0}]
    /\ changes = 0
    /\ key \in Queries
    /\ shown = <<>>
    /\ nextOffset = 0
    /\ hasMore = FALSE
    /\ loading = TRUE
    /\ fetches = <<Fetch(key, 0)>>
    /\ steady = Shown
    /\ departed = FALSE
    /\ squeezed = FALSE

-----------------------------------------------------------------------------
(* The hook. *)

\* fetchPage: the request before is aborted.
FetchPage(q, offset) ==
    fetches' = Append([n \in DOMAIN fetches |->
                         IF fetches[n] = Closed THEN Closed
                         ELSE [fetches[n] EXCEPT !.aborted = TRUE]],
                      Fetch(q, offset))

\* Another query: its first page is fetched and nothing is shown meanwhile.
ChangeQuery ==
    /\ Len(fetches) < MaxFetches
    /\ \E q \in Queries \ {key} :
          /\ key' = q
          /\ FetchPage(q, 0)
    /\ shown' = <<>>
    /\ nextOffset' = 0
    /\ hasMore' = FALSE
    /\ loading' = TRUE
    /\ steady' = Shown
    /\ departed' = FALSE
    /\ squeezed' = FALSE
    /\ UNCHANGED <<start, changes>>

\* loadMore
LoadMore ==
    /\ Len(fetches) < MaxFetches
    /\ ~loading
    /\ FetchPage(key, nextOffset)
    /\ loading' = TRUE
    /\ UNCHANGED <<start, changes, key, shown, nextOffset, hasMore, seaHistory>>

\* Fault: an answer is not asked whether it is still wanted.
Receive_Unwanted(n) ==
    LET f    == fetches[n]
        next == f.offset + Len(f.page)
    IN  /\ f.at = "answered"
        /\ fetches' = [fetches EXCEPT ![n] = Closed]
        /\ shown' = IF f.offset = 0 THEN f.page ELSE shown \o f.page
        /\ nextOffset' = next
        /\ hasMore' = (next < f.total)
        /\ loading' = FALSE
        /\ UNCHANGED <<start, changes, key, seaHistory>>

\* The answer to the request that is still wanted.
Receive(n) ==
    LET f    == fetches[n]
        next == f.offset + Len(f.page)
    IN  /\ f.at = "answered" /\ ~f.aborted
        /\ fetches' = [fetches EXCEPT ![n] = Closed]
        /\ shown' = IF f.offset = 0 THEN f.page ELSE shown \o f.page
        /\ nextOffset' = next
        /\ hasMore' = (next < f.total)
        /\ loading' = FALSE
        /\ UNCHANGED <<start, changes, key, seaHistory>>

\* An answer nobody wants any more, or the failure of a request: loadMore asks for
\* the same page again.
Discard(n) ==
    /\ fetches[n].at # "done"
    /\ fetches' = [fetches EXCEPT ![n] = Closed]
    /\ loading' = IF fetches[n].aborted THEN loading ELSE FALSE
    /\ UNCHANGED <<start, changes, key, shown, nextOffset, hasMore, seaHistory>>

-----------------------------------------------------------------------------
(* The server. *)

\* The count
Count(n) ==
    /\ fetches[n].at = "sent"
    /\ fetches' = [fetches EXCEPT ![n].at = "counted",
                                  ![n].total = Cardinality(Matching(fetches[n].key))]
    /\ UNCHANGED <<start, changes, screen, seaHistory>>

\* OFFSET and LIMIT
Page(n) ==
    LET f == fetches[n] IN
    /\ f.at = "counted"
    /\ \E all \in Orders(Matching(f.key)) :
          fetches' = [fetches EXCEPT ![n].at = "answered",
              ![n].page = SubSeq(all, f.offset + 1,
                                 Min({f.offset + PageSize, Len(all)}))]
    /\ UNCHANGED <<start, changes, screen, seaHistory>>

\* Ingestion: an event appears, leaves, or is moved to another time.
Change(i, when) ==
    /\ changes < MaxChanges
    /\ start[i] # when
    /\ start' = [start EXCEPT ![i] = when]
    /\ changes' = changes + 1
    /\ steady' = steady \ {i}
    /\ departed' = (departed \/ start[i] # 0)
    /\ squeezed' = (squeezed \/ \E n \in DOMAIN fetches :
                        fetches[n].at = "counted" /\ ~fetches[n].aborted)
    /\ UNCHANGED <<screen, fetches>>

SearchRest ==
    /\ \A n \in DOMAIN fetches : fetches[n].at = "done"
    /\ UNCHANGED seaVars

SearchNext ==
    \/ ChangeQuery
    \/ LoadMore
    \/ \E n \in DOMAIN fetches : Receive(n) \/ Discard(n) \/ Count(n) \/ Page(n)
    \/ \E i \in Ids, when \in Starts \cup {0} : Change(i, when)
    \/ SearchRest

SearchSpec == SearchInit /\ [][SearchNext]_seaVars

-----------------------------------------------------------------------------
\* The screen shows events of its own query only, whatever order the answers of
\* an earlier query come in.
ShownOfQuery == \A n \in DOMAIN shown : shown[n] \in Passing[key]

\* A list that says it is complete has every event that was there all along,
\* unless while it was read another event left or moved (the later pages slide
\* forward over one event), or one arrived between the count and the page of one
\* answer.  And nothing is on the list twice unless the table changed: equal
\* starts are told apart by id, and a page that failed is asked for again.
GapsExplained ==
    /\ ~loading /\ ~hasMore /\ nextOffset > 0 /\ ~departed /\ ~squeezed
       => steady \cap Passing[key] \subseteq Range(shown)
    /\ (\A i \in Shown : i \in steady) /\ ~departed
       => \A m, n \in DOMAIN shown : shown[m] = shown[n] => m = n
=============================================================================
