--------------------------- MODULE Recommendations ---------------------------
(***************************************************************************)
(* The ranking of the recommendations, which the code has twice: as SQL    *)
(* over the whole table in get_recommendations of app/api/discovery.py,    *)
(* from which a page is cut, and as RecommenderService.score_events in     *)
(* app/services/recommender.py, a loop over a list.                        *)
(*                                                                         *)
(* Simplifications.  The weighted sum of vibe, popularity and freshness,   *)
(* before the penalty, is a number given with each event; so is whether    *)
(* any of its tags carries a weight.  The table does not change while the  *)
(* pages are read.                                                         *)
(***************************************************************************)
EXTENDS Integers, FiniteSets, Sequences, SequencesExt, FiniteSetsExt

CONSTANTS
    Candidates,    \* ids of upcoming scheduled events
    RawScores,     \* scores before the penalty
    Categories,    \* first categories; "" for an event without any
    Penalty,       \* DIVERSITY_PENALTY
    Limits         \* limit of a page

ASSUME RecommendationsAssumption ==
    /\ Candidates \subseteq Nat /\ IsFiniteSet(Candidates)
    /\ RawScores \subseteq Nat
    /\ Penalty \in Nat
    /\ Limits \subseteq Nat \ {0}

VARIABLES
    corpus,        \* what is known of each candidate
    limit,
    pages          \* the recommendations answered so far, [id, score]

recVars == <<corpus, limit, pages>>

RecommendationsInit ==
    /\ corpus \in [Candidates -> [score : RawScores, category : Categories,
                                  start : {1, 2}, matched : BOOLEAN]]
    /\ limit \in Limits
    /\ pages = <<>>

\* Candidates that match, or all when none does.
Recommendable ==
    LET matching == {i \in Candidates : corpus[i].matched}
    IN  IF matching = {} THEN Candidates ELSE matching

Better(a, b, score) ==
    \/ score[a] > score[b]
    \/ score[a] = score[b] /\ corpus[a].start < corpus[b].start

Tied(a, b, score) == score[a] = score[b] /\ corpus[a].start = corpus[b].start

\* The order by a score, then start_at, then id.
Ahead(a, b, score) == Better(a, b, score) \/ (Tied(a, b, score) /\ a < b)

Raw == [i \in Candidates |-> corpus[i].score]

\* The list of S that an order of its pairs gives: as many stand before the n-th
\* as it says.
Arranged(S, order) ==
    [n \in 1..Cardinality(S) |->
        CHOOSE i \in S : Cardinality({j \in S : <<j, i>> \in order}) = n - 1]

Ranked(S, score) == Arranged(S, {p \in S \X S : Ahead(p[1], p[2], score)})

\* lag(category) OVER (ORDER BY score, start_at, id), and the penalty for an event
\* of the category of the one before it.
Penalised(S) ==
    [i \in S |->
        LET before == {j \in S : Ahead(j, i, Raw)}
            last   == CHOOSE j \in before : \A k \in before \ {j} : Ahead(k, j, Raw)
        IN  IF /\ before # {}
               /\ corpus[i].category # ""
               /\ corpus[last].category = corpus[i].category
            THEN Raw[i] - Penalty ELSE Raw[i]]

Cut(seq, offset) == SubSeq(seq, offset + 1, Min({offset + limit, Len(seq)}))

\* Fault: the page is cut first and the penalty applied within it.
PageAt_Local(offset) ==
    LET cut   == Cut(Ranked(Recommendable, Raw), offset)
        score == Penalised(ToSet(cut))
    IN  [n \in DOMAIN cut |->
            LET order == Ranked(ToSet(cut), score)
            IN  [id |-> order[n], score |-> score[order[n]]]]

\* One page: the order of the whole ranking, cut by OFFSET and LIMIT.
PageAt(offset) ==
    LET score == Penalised(Recommendable)
        cut   == Cut(Ranked(Recommendable, score), offset)
    IN  [n \in DOMAIN cut |-> [id |-> cut[n], score |-> score[cut[n]]]]

NextPage ==
    /\ PageAt(Len(pages)) # <<>>
    /\ pages' = pages \o PageAt(Len(pages))
    /\ UNCHANGED <<corpus, limit>>

LastPage == PageAt(Len(pages)) = <<>> /\ UNCHANGED recVars

RecommendationsNext == NextPage \/ LastPage

RecommendationsSpec == RecommendationsInit /\ [][RecommendationsNext]_recVars

-----------------------------------------------------------------------------
\* _apply_diversity_penalty: the list is walked with the category of the item
\* before, which is none at first.
Walked(S) ==
    LET list == Ranked(S, Raw)
        prev == [n \in DOMAIN list |-> IF n = 1 THEN "" ELSE corpus[list[n - 1]].category]
    IN  [i \in S |->
            LET n == CHOOSE n \in DOMAIN list : list[n] = i
            IN  IF corpus[i].category # "" /\ corpus[i].category = prev[n]
                THEN Raw[i] - Penalty ELSE Raw[i]]

\* The second sort has no id to decide: the tied stay as the first left them.
StaysAhead(a, b, score) ==
    Better(a, b, score) \/ (Tied(a, b, score) /\ Ahead(a, b, Raw))

\* score_events of a list that comes in the order of the ids: sort, walk, sort.
ScoreEvents(S) ==
    LET score == Walked(S)
        list  == Arranged(S, {p \in S \X S : StaysAhead(p[1], p[2], score)})
    IN  [n \in DOMAIN list |-> [id |-> list[n], score |-> score[list[n]]]]

\* However the ranking is cut into pages, the pages put together show what the
\* service computes for the whole list, but for the order of events with the
\* same score and start: no event twice, each with the score it has there, and
\* none sooner or later than there; so the penalty of the first event of a page
\* is by the last of the page before.  get_recommendations, score_events.
PagesAreTheRanking ==
    LET whole == ScoreEvents(Recommendable) IN
    /\ \A n, k \in DOMAIN pages : pages[n].id = pages[k].id => n = k
    /\ \A n \in DOMAIN pages :
          /\ \E k \in DOMAIN whole : whole[k] = pages[n]
          /\ n \in DOMAIN whole
          /\ whole[n].score = pages[n].score
          /\ corpus[whole[n].id].start = corpus[pages[n].id].start
=============================================================================
