--------------------------- MODULE Discovery_proofs ---------------------------
(***************************************************************************)
(* Theorems about what a visitor is shown, for any table of events and any *)
(* number of requests: the list on the search screen, the pages of the     *)
(* recommendations, the concierge's plans, and the history of an API key.  *)
(***************************************************************************)
EXTENDS EventSearch, KeySnapshots, Concierge, Recommendations, FiniteSetTheorems,
        FunctionTheorems, SequenceTheorems, WellFoundedInduction, TLAPS

-----------------------------------------------------------------------------
(***************************************************************************)
(* Event search: the list is of the query on the screen, and an event that *)
(* was there all along and is not in it is explained.                      *)
(***************************************************************************)

StartsKnown == start \in [Ids -> Nat]

\* The events of a set up to one of them, and how many these are.
UpTo(S, i) == {j \in S : ~Earlier(i, j)}
RankIn(S, i) == Cardinality(UpTo(S, i))

\* What is known of a request, of one the screen waits for, and of its page.
Requests == [key : Queries \cup {""}, offset : Nat,
             at : {"sent", "counted", "answered", "done"}, total : Nat,
             page : Seq(Ids), aborted : BOOLEAN]

Wanted(f) == f.at # "done" /\ ~f.aborted

\* Nothing but arrivals since the first page; and not even these.
OnlyArrivals == ~departed
Unchanged    == ~departed /\ Shown \subseteq steady

Steady == steady \cap Passing[key]
Rank(i) == RankIn(Matching(key), i)

\* A list that reaches down to a place of the ranking has what was there all along.
Reaches(list, place) ==
    OnlyArrivals => \A i \in Steady : Rank(i) <= place => i \in Range(list)

\* And if nothing changed, each event stands at its rank, from some place on.
Exact(list, place) ==
    Unchanged => \A m \in DOMAIN list : list[m] \in Matching(key)
                                          /\ Rank(list[m]) = place + m

Complete(list) == OnlyArrivals /\ ~squeezed => Steady \subseteq Range(list)

Waited(f, n) ==
    /\ n = Len(fetches) /\ loading
    /\ f.key = key /\ f.offset = nextOffset
    /\ f.at = "counted" /\ ~squeezed => f.total = Cardinality(Matching(key))
    /\ f.at = "answered" =>
          /\ Reaches(shown \o f.page, nextOffset + Len(f.page))
          /\ Exact(f.page, nextOffset)
          /\ nextOffset + Len(f.page) >= f.total => Complete(shown \o f.page)

SeaTypes ==
    /\ start \in [Ids -> Starts \cup {0}]
    /\ key \in Queries
    /\ shown \in Seq(Passing[key])
    /\ nextOffset = Len(shown)
    /\ fetches \in Seq(Requests)
    /\ steady \subseteq Shown

RequestOk(f, n) ==
    /\ f.at # "done" => f.key \in Queries
    /\ f.at = "answered" => f.page \in Seq(Passing[f.key])
    /\ Wanted(f) => Waited(f, n)

FetchesOk == \A n \in DOMAIN fetches : RequestOk(fetches[n], n)

SeaInv ==
    /\ SeaTypes
    /\ FetchesOk
    /\ Reaches(shown, nextOffset)
    /\ Exact(shown, 0)
    /\ ~hasMore /\ nextOffset > 0 => Complete(shown)

-----------------------------------------------------------------------------
\* The order is total and strict.
LEMMA EarlierIsTotal ==
    ASSUME StartsKnown
    PROVE  /\ \A a, b \in Ids : Earlier(a, b) => ~Earlier(b, a)
           /\ \A a, b \in Ids : a # b => Earlier(a, b) \/ Earlier(b, a)
<1>1. \A a \in Ids : a \in Nat /\ start[a] \in Nat
  BY SearchAssumption DEF StartsKnown
<1> QED BY <1>1 DEF Earlier

\* In the answer to a query every event stands at its rank.
LEMMA AtItsRank ==
    ASSUME StartsKnown, NEW S \in SUBSET Ids, NEW p \in Orders(S)
    PROVE  /\ Cardinality(S) \in Nat
           /\ p \in [1..Cardinality(S) -> S]
           /\ \A i \in S : \E k \in 1..Cardinality(S) : p[k] = i
           /\ \A k \in 1..Cardinality(S) : RankIn(S, p[k]) = k
<1> DEFINE n == Cardinality(S)
<1>1. IsFiniteSet(S) /\ n \in Nat
  BY SearchAssumption, FS_Subset, FS_CardinalityType
<1>2. /\ p \in [1..n -> S]
      /\ \A i, j \in 1..n : i < j => Earlier(p[i], p[j])
  BY DEF Orders
<1> HIDE DEF n
<1>3. ASSUME NEW i \in 1..n, NEW j \in 1..n, p[i] = p[j] PROVE i = j
  <2>1. p[i] \in Ids /\ ~Earlier(p[i], p[i])
    BY <1>2, EarlierIsTotal
  <2>2. ~(i < j) /\ ~(j < i)
    BY <1>2, <1>3, <2>1
  <2> QED BY <1>1, <2>2
<1>4. IsFiniteSet(1..n) /\ Cardinality(1..n) = n
  BY <1>1, FS_Interval
<1>5. p \in Surjection(1..n, S)
  <2>1. p \in Injection(1..n, S)
    BY <1>2, <1>3 DEF Injection, IsInjective
  <2> QED BY <1>1, <1>4, <2>1, FS_Injection DEF n
<1>6. \A i \in S : \E k \in 1..n : p[k] = i
  BY <1>5 DEF Surjection
<1>7. ASSUME NEW k \in 1..n PROVE RankIn(S, p[k]) = k
  <2> DEFINE q == [m \in 1..k |-> p[m]]
             U == UpTo(S, p[k])
  <2>0. k \in Nat /\ 1..k \subseteq 1..n
    BY <1>1
  <2>1. \A m \in 1..k : p[m] \in U
    <3> SUFFICES ASSUME NEW m \in 1..k PROVE ~Earlier(p[k], p[m]) /\ p[m] \in S
      BY DEF UpTo
    <3>1. m \in 1..n /\ p[m] \in S /\ p[k] \in S
      BY <1>2, <2>0
    <3>2. CASE m = k
      BY <3>1, <3>2, EarlierIsTotal
    <3>3. CASE m < k
      <4>1. Earlier(p[m], p[k])
        BY <1>2, <3>1, <3>3
      <4> QED BY <3>1, <4>1, EarlierIsTotal
    <3> QED BY <1>1, <3>1, <3>2, <3>3
  <2>2. \A i \in U : \E m \in 1..k : p[m] = i
    <3> SUFFICES ASSUME NEW i \in U PROVE \E m \in 1..k : p[m] = i
      OBVIOUS
    <3>1. PICK m \in 1..n : p[m] = i
      BY <1>6 DEF UpTo
    <3>2. ~Earlier(p[k], p[m])
      BY <3>1 DEF UpTo
    <3>3. ~(k < m)
      BY <1>2, <3>2
    <3> QED BY <1>1, <3>1, <3>3
  <2>3. q \in Bijection(1..k, U)
    <3>1. q \in [1..k -> U]
      BY <2>1
    <3>2. \A i, j \in 1..k : q[i] = q[j] => i = j
      BY <1>3, <2>0
    <3>3. \A i \in U : \E m \in 1..k : q[m] = i
      BY <2>2
    <3> QED BY <3>1, <3>2, <3>3 DEF Bijection, Injection, Surjection, IsInjective
  <2>4. IsFiniteSet(1..k) /\ Cardinality(1..k) = k
    BY <2>0, FS_Interval
  <2> QED BY <2>3, <2>4, FS_Bijection DEF ExistsBijection, RankIn
<1> QED BY <1>1, <1>2, <1>6, <1>7 DEF n

LEMMA StartIsKnown == SeaTypes => StartsKnown
<1>1. Starts \cup {0} \subseteq Nat
  BY SearchAssumption
<1> QED BY <1>1 DEF SeaTypes, StartsKnown

\* Another's arrival moves an event down the ranking, never up.
LEMMA ArrivalsMoveDown ==
    ASSUME SeaTypes, NEW x \in Ids, NEW t \in Starts \cup {0}, Change(x, t), start[x] = 0,
           NEW q \in Queries, NEW i \in Matching(q)
    PROVE  /\ i \in Matching(q)'
           /\ RankIn(Matching(q), i) \in Nat /\ RankIn(Matching(q), i)' \in Nat
           /\ RankIn(Matching(q), i) <= RankIn(Matching(q), i)'
<1> DEFINE S == Matching(q)
           T == Passing[q] \cap Shown'
<1>1. /\ start' = [start EXCEPT ![x] = t] /\ t # 0
      /\ x \notin Shown /\ Shown' = Shown \cup {x}
  BY DEF Change, SeaTypes, Shown
<1>2. S \subseteq T /\ x \notin S /\ T \subseteq Ids
  BY <1>1, SearchAssumption DEF Matching
<1>3. UpTo(S, i) \subseteq {j \in T : ~Earlier(i, j)'}
  <2> SUFFICES ASSUME NEW j \in S, ~Earlier(i, j) PROVE ~Earlier(i, j)'
    BY <1>2 DEF UpTo
  <2>1. start'[i] = start[i] /\ start'[j] = start[j]
    BY <1>1, <1>2 DEF SeaTypes
  <2> QED BY <2>1 DEF Earlier
<1>4. IsFiniteSet({j \in T : ~Earlier(i, j)'})
  BY <1>2, SearchAssumption, FS_Subset
<1>5. /\ Cardinality(UpTo(S, i)) <= Cardinality({j \in T : ~Earlier(i, j)'})
      /\ Cardinality(UpTo(S, i)) \in Nat
      /\ Cardinality({j \in T : ~Earlier(i, j)'}) \in Nat
  BY <1>3, <1>4, FS_Subset, FS_CardinalityType
<1>6. Matching(q)' = T /\ UpTo(Matching(q), i)' = {j \in T : ~Earlier(i, j)'}
  BY DEF Matching, UpTo
<1> QED BY <1>2, <1>5, <1>6 DEF RankIn

LEMMA FetchIsRequest ==
    ASSUME NEW q \in Queries, NEW o \in Nat
    PROVE  Fetch(q, o) \in Requests /\ Closed \in Requests
<1>1. <<>> \in Seq(Ids)
  OBVIOUS
<1> QED BY <1>1 DEF Fetch, Closed, Requests

LEMMA SeaInitInv == SearchInit => SeaInv
<1> SUFFICES ASSUME SearchInit PROVE SeaInv
  OBVIOUS
<1>1. /\ key \in Queries /\ shown = <<>> /\ nextOffset = 0 /\ hasMore = FALSE /\ loading = TRUE
      /\ fetches = <<Fetch(key, 0)>> /\ steady = Shown /\ departed = FALSE /\ squeezed = FALSE
      /\ start \in [Ids -> Starts \cup {0}]
  BY DEF SearchInit
<1>2. Fetch(key, 0) \in Requests
  BY <1>1, FetchIsRequest
<1>3. SeaTypes
  <2>1. shown \in Seq(Passing[key]) /\ Len(shown) = 0 /\ fetches \in Seq(Requests)
    BY <1>1, <1>2
  <2>2. steady \subseteq Shown
    BY <1>1
  <2> QED BY <1>1, <2>1, <2>2 DEF SeaTypes
<1>4. FetchesOk
  BY <1>1 DEF FetchesOk, RequestOk, Wanted, Waited, Fetch
<1>5. ASSUME NEW i \in Steady PROVE ~(Rank(i) <= 0)
  <2>1. Matching(key) \subseteq Ids /\ i \in Matching(key)
    BY <1>1, SearchAssumption DEF Matching, Steady
  <2>2. i \in UpTo(Matching(key), i)
    BY <1>3, <2>1, StartIsKnown, EarlierIsTotal DEF UpTo
  <2>3. IsFiniteSet(UpTo(Matching(key), i))
    BY <2>1, SearchAssumption, FS_Subset DEF UpTo
  <2> QED BY <2>2, <2>3, FS_EmptySet, FS_CardinalityType DEF Rank, RankIn
<1> QED BY <1>1, <1>3, <1>4, <1>5 DEF SeaInv, Reaches, Exact

-----------------------------------------------------------------------------
(* The steps. *)

\* The ranking is a matter of the table, the query and what has left it.
LEMMA SameTable ==
    ASSUME UNCHANGED <<start, key, steady, departed>>, NEW list, NEW place
    PROVE  /\ Reaches(list, place)' = Reaches(list, place)
           /\ Exact(list, place)' = Exact(list, place)
           /\ squeezed' = squeezed => Complete(list)' = Complete(list)
           /\ Shown' = Shown
           /\ \A q : Matching(q)' = Matching(q)
BY DEF Reaches, Exact, Complete, Shown, Steady, Matching, RankIn, UpTo, Earlier, Rank,
       OnlyArrivals, Unchanged

LEMMA SameRequest ==
    ASSUME UNCHANGED <<start, key, shown, nextOffset, loading, seaHistory>>,
           Len(fetches') = Len(fetches), NEW f, NEW n, RequestOk(f, n)
    PROVE  RequestOk(f, n)'
<1>1. CASE ~Wanted(f)
  BY <1>1 DEF RequestOk, Wanted
<1>2. CASE Wanted(f)
  <2>1. Waited(f, n)
    BY <1>2 DEF RequestOk
  <2> DEFINE L == shown \o f.page
             o == nextOffset + Len(f.page)
  <2>2. PICK l, k, h : l = L /\ k = o /\ h = nextOffset
    OBVIOUS
  <2>3. /\ Reaches(l, k)' = Reaches(l, k) /\ Complete(l)' = Complete(l)
        /\ Exact(f.page, h)' = Exact(f.page, h)
        /\ Matching(key)' = Matching(key)
    BY SameTable DEF seaHistory, Matching, Shown
  <2>4. L' = L /\ o' = o
    OBVIOUS
  <2>5. Waited(f, n)'
    BY <2>1, <2>2, <2>3, <2>4 DEF Waited, seaHistory
  <2> QED BY <2>5 DEF RequestOk, Wanted
<1> QED BY <1>1, <1>2

\* A step of one request on the server.
LEMMA ServerStep ==
    ASSUME SeaInv, UNCHANGED <<start, changes, screen, seaHistory>>,
           NEW n \in DOMAIN fetches, NEW g \in Requests, RequestOk(g, n),
           fetches' = [fetches EXCEPT ![n] = g]
    PROVE  SeaInv'
<1>1. fetches' \in Seq(Requests) /\ DOMAIN fetches' = DOMAIN fetches
      /\ Len(fetches') = Len(fetches)
      /\ \A m \in DOMAIN fetches : fetches'[m] = IF m = n THEN g ELSE fetches[m]
  BY DEF SeaInv, SeaTypes
<1>2. UNCHANGED <<start, key, shown, nextOffset, hasMore, loading, steady, departed, squeezed>>
  BY DEF screen, seaHistory
<1>3. SeaTypes'
  BY <1>1, <1>2 DEF SeaInv, SeaTypes, Shown
<1>4. FetchesOk'
  <2> SUFFICES ASSUME NEW m \in DOMAIN fetches PROVE RequestOk(fetches[m], m)'
    BY <1>1 DEF FetchesOk
  <2>1. PICK f : f = fetches'[m]
    OBVIOUS
  <2>2. RequestOk(f, m)
    BY <1>1, <2>1 DEF SeaInv, FetchesOk
  <2>3. RequestOk(f, m)'
    BY <1>1, <1>2, <2>2, SameRequest DEF seaHistory
  <2> QED BY <1>1, <2>1, <2>3 DEF RequestOk, Wanted, Waited
<1>5. PICK l, k : l = shown /\ k = nextOffset
  OBVIOUS
<1>6. Reaches(l, k)' /\ Exact(l, 0)' /\ (Complete(l)' <=> Complete(l))
  BY <1>2, <1>5, SameTable DEF SeaInv
<1> QED BY <1>2, <1>3, <1>4, <1>5, <1>6 DEF SeaInv

LEMMA CountInv ==
    ASSUME SeaInv, NEW n \in DOMAIN fetches, Count(n)
    PROVE  SeaInv'
<1> DEFINE f == fetches[n]
           c == Cardinality(Matching(f.key))
           g == [f EXCEPT !.at = "counted", !.total = c]
<1>1. /\ f.at = "sent" /\ fetches' = [fetches EXCEPT ![n] = g]
      /\ UNCHANGED <<start, changes, screen, seaHistory>>
  BY DEF Count
<1>2. f \in Requests /\ RequestOk(f, n)
  BY DEF SeaInv, SeaTypes, FetchesOk
<1>3. f.key \in Queries /\ c \in Nat
  <2>1. f.key \in Queries
    BY <1>1, <1>2 DEF RequestOk
  <2>2. Matching(f.key) \in SUBSET Ids
    BY <2>1, SearchAssumption DEF Matching
  <2> QED BY <2>1, <2>2, SearchAssumption, FS_Subset, FS_CardinalityType
<1>4. /\ g \in Requests /\ g.at = "counted" /\ g.key = f.key /\ g.offset = f.offset
      /\ g.total = c /\ g.page = f.page /\ g.aborted = f.aborted
  BY <1>2, <1>3 DEF Requests
<1>5. RequestOk(g, n)
  BY <1>1, <1>2, <1>3, <1>4 DEF RequestOk, Wanted, Waited
<1> QED BY <1>1, <1>4, <1>5, ServerStep

PageOf(all, o) == SubSeq(all, o + 1, Min({o + PageSize, Len(all)}))

ShowsPlaces(cut, all, o, S) ==
    /\ cut \in Seq(S)
    /\ \A m \in DOMAIN cut : o + m \in 1..Cardinality(S) /\ cut[m] = all[o + m]
    /\ \A k \in 1..Cardinality(S) : o < k /\ k <= o + Len(cut) =>
          \E m \in DOMAIN cut : cut[m] = all[k]

LEMMA PlaceInPage ==
    \A o, k, n \in Nat : o < k /\ k <= o + n => k - o \in 1..n /\ o + (k - o) = k
OBVIOUS

\* The page that is asked for: where its events stand in the order.
LEMMA PageOfOrder ==
    ASSUME NEW S \in SUBSET Ids, NEW all \in [1..Cardinality(S) -> S],
           Cardinality(S) \in Nat, NEW o \in Nat, NEW cut, cut = PageOf(all, o)
    PROVE  ShowsPlaces(cut, all, o, S)
<1> DEFINE c == Cardinality(S)
           z == Min({o + PageSize, Len(all)})
<1>1. all \in Seq(S) /\ Len(all) = c /\ DOMAIN all = 1..c
  OBVIOUS
<1>2. z = IF o + PageSize <= c THEN o + PageSize ELSE c
  <2>1. PICK a, b : a = o + PageSize /\ b = Len(all)
    OBVIOUS
  <2>2. a \in Nat /\ b \in Nat
    BY <1>1, <2>1, SearchAssumption
  <2>3. Min({a, b}) = IF a <= b THEN a ELSE b
    BY <2>2 DEF Min
  <2> QED BY <1>1, <2>1, <2>3
<1> HIDE DEF z
<1>3. PageSize \in Nat /\ PageSize > 0 /\ z \in Nat /\ z <= c
  BY <1>2, SearchAssumption
<1>4. PICK a \in Int, b \in Int : a = o + 1 /\ b = z
  BY <1>3
<1>5. \A i \in a..b : all[i] \in S
  BY <1>3, <1>4
<1>6. /\ SubSeq(all, a, b) \in Seq(S)
      /\ Len(SubSeq(all, a, b)) = IF a <= b THEN b - a + 1 ELSE 0
      /\ \A i \in 1..b - a + 1 : SubSeq(all, a, b)[i] = all[a + i - 1]
  BY <1>5, SubSeqProperties
<1>7. cut = SubSeq(all, a, b)
  BY <1>4 DEF z, PageOf
<1>8. cut \in Seq(S) /\ DOMAIN cut = 1..Len(cut) /\ Len(cut) \in Nat
  <2>1. cut \in Seq(S)
    BY <1>6, <1>7
  <2> QED BY <2>1, LenProperties
<1>9. ASSUME NEW m \in DOMAIN cut
      PROVE  o + m \in 1..c /\ cut[m] = all[o + m]
  <2>0. PICK n : n = Len(cut)
    OBVIOUS
  <2>1. /\ m \in 1..b - a + 1 /\ m \in Nat /\ m >= 1
        /\ a + m - 1 = o + m /\ o + m <= z
    <3>1. m \in 1..n /\ n \in Nat /\ n = IF a <= b THEN b - a + 1 ELSE 0
      BY <1>6, <1>7, <1>8, <2>0
    <3> QED BY <1>3, <1>4, <3>1
  <2>2. cut[m] = all[a + m - 1]
    BY <1>6, <1>7, <2>1
  <2>3. o + m \in 1..c
    BY <1>3, <2>1
  <2> QED BY <2>1, <2>2, <2>3
<1>10. ASSUME NEW k \in 1..c, o < k, k <= o + Len(cut)
       PROVE  \E m \in DOMAIN cut : cut[m] = all[k]
  <2>1. PICK m, n : m = k - o /\ n = Len(cut)
    OBVIOUS
  <2>2. m \in 1..Len(cut) /\ o + m = k
    <3>1. k \in Nat /\ n \in Nat /\ o < k /\ k <= o + n
      BY <1>8, <1>10, <2>1
    <3>2. m \in 1..n /\ o + m = k
      BY <2>1, <3>1, PlaceInPage
    <3> QED BY <2>1, <3>2
  <2> QED BY <1>8, <1>9, <2>2
<1> QED BY <1>8, <1>9, <1>10 DEF ShowsPlaces

LEMMA InConcatenation ==
    ASSUME NEW T, NEW s \in Seq(T), NEW t \in Seq(T)
    PROVE  Range(s \o t) = Range(s) \cup Range(t)
<1>1. s \o t \in Seq(T) /\ Len(s \o t) = Len(s) + Len(t)
      /\ \A i \in 1..Len(s) + Len(t) : (s \o t)[i] = IF i <= Len(s) THEN s[i] ELSE t[i - Len(s)]
  BY ConcatProperties
<1>2. PICK u, m, n : u = s \o t /\ m = Len(s) /\ n = Len(t)
  OBVIOUS
<1>3. /\ m \in Nat /\ n \in Nat /\ DOMAIN u = 1..m + n /\ DOMAIN s = 1..m /\ DOMAIN t = 1..n
      /\ \A i \in 1..m + n : u[i] = IF i <= m THEN s[i] ELSE t[i - m]
  BY <1>1, <1>2, LenProperties
<1>4. \A i \in 1..m : i \in 1..m + n /\ i <= m
  BY <1>3
<1>5. \A i \in 1..n : m + i \in 1..m + n /\ ~(m + i <= m) /\ (m + i) - m = i
  BY <1>3
<1>6. \A i \in 1..m + n : i \in 1..m \/ (~(i <= m) /\ i - m \in 1..n)
  BY <1>3
<1>7. \A i \in 1..m : u[i] = s[i]
  BY <1>3, <1>4
<1>8. \A i \in 1..n : u[m + i] = t[i]
  BY <1>3, <1>5
<1>9. \A i \in 1..m + n : ~(i \in 1..m) => i - m \in 1..n /\ u[i] = t[i - m]
  BY <1>3, <1>6
<1>10. \A x : (\E i \in 1..m + n : u[i] = x) <=>
               (\E i \in 1..m : s[i] = x) \/ (\E i \in 1..n : t[i] = x)
  BY SMTT(30), <1>4, <1>5, <1>7, <1>8, <1>9
<1>11. \A x : x \in Range(u) <=> x \in Range(s) \/ x \in Range(t)
  BY <1>3, <1>10 DEF Range
<1> QED BY <1>2, <1>11

LEMMA PageInv ==
    ASSUME SeaInv, NEW n \in DOMAIN fetches, Page(n)
    PROVE  SeaInv'
<1>1. PICK f, S : f = fetches[n] /\ S = Matching(f.key)
  OBVIOUS
<1>2. PICK all \in Orders(S) :
        fetches' = [fetches EXCEPT ![n].at = "answered",
              ![n].page = SubSeq(all, f.offset + 1, Min({f.offset + PageSize, Len(all)}))]
  BY <1>1 DEF Page
<1>3. PICK cut : cut = SubSeq(all, f.offset + 1, Min({f.offset + PageSize, Len(all)}))
  OBVIOUS
<1>4. PICK g : g = [f EXCEPT !.at = "answered", !.page = cut]
  OBVIOUS
<1>5. /\ f.at = "counted" /\ fetches' = [fetches EXCEPT ![n] = g]
      /\ UNCHANGED <<start, changes, screen, seaHistory>>
  BY <1>1, <1>2, <1>3, <1>4 DEF Page, SeaInv, SeaTypes
<1>6. f \in Requests /\ RequestOk(f, n) /\ f.key \in Queries /\ f.offset \in Nat
  <2>1. f \in Requests /\ RequestOk(f, n)
    BY <1>1 DEF SeaInv, SeaTypes, FetchesOk
  <2> QED BY <1>5, <2>1 DEF RequestOk, Requests
<1>7. S \in SUBSET Ids /\ S \subseteq Passing[f.key] /\ StartsKnown
  BY <1>1, <1>6, StartIsKnown, SearchAssumption DEF Matching, SeaInv
<1>8. /\ Cardinality(S) \in Nat /\ all \in [1..Cardinality(S) -> S]
      /\ \A i \in S : \E k \in 1..Cardinality(S) : all[k] = i
      /\ \A k \in 1..Cardinality(S) : RankIn(S, all[k]) = k
  BY <1>7, AtItsRank
<1>9. /\ cut \in Seq(S)
      /\ \A m \in DOMAIN cut : f.offset + m \in 1..Cardinality(S) /\ cut[m] = all[f.offset + m]
      /\ \A k \in 1..Cardinality(S) : f.offset < k /\ k <= f.offset + Len(cut) =>
            \E m \in DOMAIN cut : cut[m] = all[k]
  <2>1. PICK o \in Nat : o = f.offset
    BY <1>6
  <2>2. cut = PageOf(all, o)
    BY <1>3, <2>1 DEF PageOf
  <2>3. all \in [1..Cardinality(S) -> S] /\ Cardinality(S) \in Nat /\ S \in SUBSET Ids
    BY <1>7, <1>8
  <2>4. ShowsPlaces(cut, all, o, S)
    BY <2>1, <2>2, <2>3, PageOfOrder
  <2> QED BY <2>1, <2>4 DEF ShowsPlaces
<1>10. /\ g \in Requests /\ g.at = "answered" /\ g.key = f.key /\ g.offset = f.offset
       /\ g.total = f.total /\ g.page = cut /\ g.aborted = f.aborted
  <2>1. cut \in Seq(Ids)
    BY <1>7, <1>9
  <2> QED BY <1>4, <1>6, <2>1 DEF Requests
<1>11. RequestOk(g, n)
  <2>1. cut \in Seq(Passing[f.key])
    BY <1>7, <1>9
  <2>2. ASSUME Wanted(g) PROVE Waited(g, n)
    <3>1. Waited(f, n)
      BY <1>5, <1>6, <1>10, <2>2 DEF RequestOk, Wanted
    <3>2. S = Matching(key) /\ f.offset = nextOffset /\ f.key = key
      BY <1>1, <1>5, <3>1 DEF Waited
    <3>25. n = Len(fetches) /\ loading
      BY <3>1 DEF Waited
    <3>3. ASSUME NEW i \in Steady, OnlyArrivals, Rank(i) <= nextOffset + Len(cut)
          PROVE  i \in Range(shown) \cup Range(cut)
      <4>1. CASE Rank(i) <= nextOffset
        BY <3>3, <4>1 DEF SeaInv, Reaches
      <4>2. CASE ~(Rank(i) <= nextOffset)
        <5>1. i \in S
          BY <3>2 DEF SeaInv, SeaTypes, Steady, Matching
        <5>2. PICK k \in 1..Cardinality(S) : all[k] = i /\ k = Rank(i)
          BY <1>8, <3>2, <5>1 DEF Rank
        <5>3. nextOffset < k /\ k <= nextOffset + Len(cut)
          BY <3>3, <4>2, <5>2, <1>8 DEF SeaInv, SeaTypes
        <5>4. PICK m \in DOMAIN cut : cut[m] = all[k]
          BY <1>9, <3>2, <5>3
        <5> QED BY <5>2, <5>4 DEF Range
      <4> QED BY <4>1, <4>2
    <3>35. Range(shown \o cut) = Range(shown) \cup Range(cut)
      BY <2>1, <3>2, InConcatenation DEF SeaInv, SeaTypes
    <3>4. Reaches(shown \o cut, nextOffset + Len(cut))
      BY <3>3, <3>35 DEF Reaches
    <3>5. Exact(cut, nextOffset)
      <4> SUFFICES ASSUME NEW m \in DOMAIN cut
                   PROVE  cut[m] \in Matching(key) /\ Rank(cut[m]) = nextOffset + m
        BY Zenon DEF Exact
      <4>1. f.offset + m \in 1..Cardinality(S) /\ cut[m] = all[f.offset + m]
        BY <1>9
      <4>2. RankIn(S, cut[m]) = f.offset + m /\ cut[m] \in S
        BY <1>8, <4>1
      <4> QED BY <3>2, <4>2 DEF Rank
    <3>6. ASSUME nextOffset + Len(cut) >= f.total
          PROVE  Complete(shown \o cut)
      <4> SUFFICES ASSUME OnlyArrivals, ~squeezed, NEW i \in Steady
                   PROVE  i \in Range(shown \o cut)
        BY DEF Complete
      <4>1. i \in S
        BY <3>2 DEF SeaInv, SeaTypes, Steady, Matching
      <4>2. PICK k \in 1..Cardinality(S) : all[k] = i /\ k = Rank(i)
        BY <1>8, <3>2, <4>1 DEF Rank
      <4>3. Rank(i) <= nextOffset + Len(cut)
        <5>0. f.total = Cardinality(S)
          BY <1>1, <1>5, <3>1 DEF Waited
        <5>1. k <= f.total /\ f.total \in Nat
          BY <1>8, <5>0
        <5>2. nextOffset + Len(cut) \in Nat
          BY <1>9 DEF SeaInv, SeaTypes
        <5> QED BY <3>6, <4>2, <5>1, <5>2, <1>8
      <4> QED BY <3>3, <3>35, <4>3
    <3> QED BY <1>10, <3>2, <3>25, <3>4, <3>5, <3>6 DEF Waited
  <2> QED BY <1>6, <1>10, <2>1, <2>2 DEF RequestOk
<1> QED BY <1>1, <1>5, <1>10, <1>11, ServerStep

\* A request that is closed is not waited for.
LEMMA ClosedIsOk == \A n : RequestOk(Closed, n) /\ RequestOk(Closed, n)'
BY DEF RequestOk, Closed, Fetch, Wanted

LEMMA ReceiveInv ==
    ASSUME SeaInv, NEW n \in DOMAIN fetches, Receive(n)
    PROVE  SeaInv'
<1>1. PICK f : f = fetches[n]
  OBVIOUS
<1>2. PICK list, next, cut : /\ cut = f.page /\ list = shown \o cut
                             /\ next = nextOffset + Len(cut)
  OBVIOUS
<1>3. f \in Requests /\ RequestOk(f, n) /\ f.at = "answered" /\ Wanted(f) /\ Waited(f, n)
  <2>1. f \in Requests /\ RequestOk(f, n) /\ f.at = "answered" /\ Wanted(f)
    BY <1>1 DEF SeaInv, SeaTypes, FetchesOk, Receive, Wanted
  <2> QED BY <2>1 DEF RequestOk
<1>4. f.key = key /\ f.offset = nextOffset /\ n = Len(fetches)
  BY <1>3 DEF Waited
<1>5. cut \in Seq(Passing[key]) /\ shown \in Seq(Passing[key]) /\ nextOffset = Len(shown)
      /\ key \in Queries
  BY <1>2, <1>3, <1>4 DEF RequestOk, SeaInv, SeaTypes
<1>6. list \in Seq(Passing[key]) /\ Len(list) = next /\ next \in Nat
  <2>1. /\ shown \o cut \in Seq(Passing[key]) /\ Len(shown \o cut) = Len(shown) + Len(cut)
        /\ Len(shown) \in Nat /\ Len(cut) \in Nat
    BY <1>5
  <2> QED BY <1>2, <1>5, <2>1
<1>7. /\ fetches' = [fetches EXCEPT ![n] = Closed]
      /\ shown' = list /\ nextOffset' = next
      /\ hasMore' = (next < f.total) /\ loading' = FALSE
      /\ UNCHANGED <<start, changes, key, seaHistory>>
  <2>1. shown = <<>> => list = cut
    BY <1>2, <1>5
  <2>2. f.offset = 0 => shown = <<>>
    BY <1>4, <1>5
  <2>3. /\ fetches' = [fetches EXCEPT ![n] = Closed]
        /\ shown' = IF f.offset = 0 THEN cut ELSE list
        /\ nextOffset' = next /\ hasMore' = (next < f.total) /\ loading' = FALSE
        /\ UNCHANGED <<start, changes, key, seaHistory>>
    BY <1>1, <1>2, <1>4 DEF Receive
  <2> QED BY <2>1, <2>2, <2>3
<1>8. SeaTypes'
  <2>1. fetches' \in Seq(Requests)
    BY <1>5, <1>7, FetchIsRequest DEF SeaInv, SeaTypes
  <2>3. Shown' = Shown
    BY <1>7 DEF Shown
  <2> QED BY <1>6, <1>7, <2>1, <2>3 DEF SeaInv, SeaTypes, seaHistory
<1>9. FetchesOk'
  <2>1. \A m \in DOMAIN fetches : DOMAIN fetches' = DOMAIN fetches
           /\ fetches'[m] = IF m = n THEN Closed ELSE fetches[m]
    BY <1>7 DEF SeaInv, SeaTypes
  <2>2. ASSUME NEW m \in DOMAIN fetches, m # n PROVE RequestOk(fetches[m], m)'
    <3>1. PICK g : g = fetches[m]
      OBVIOUS
    <3>2. RequestOk(g, m) /\ ~Wanted(g)
      BY <1>4, <2>2, <3>1 DEF SeaInv, FetchesOk, RequestOk, Waited
    <3>3. RequestOk(g, m)'
      BY <3>2 DEF RequestOk, Wanted
    <3> QED BY <2>1, <2>2, <3>1, <3>3 DEF RequestOk, Wanted, Waited
  <2>3. RequestOk(fetches[n], n)'
    BY <2>1, ClosedIsOk DEF RequestOk, Wanted, Waited
  <2> QED BY <2>1, <2>2, <2>3 DEF FetchesOk
<1>10. /\ Reaches(list, next)' = Reaches(list, next) /\ Exact(list, 0)' = Exact(list, 0)
       /\ Complete(list)' = Complete(list)
  BY <1>7, SameTable DEF seaHistory
<1>11. Reaches(list, next) /\ (next >= f.total => Complete(list))
  BY <1>2, <1>3 DEF Waited
<1>12. Exact(list, 0)
  <2> SUFFICES ASSUME Unchanged, NEW m \in DOMAIN list
               PROVE  list[m] \in Matching(key) /\ Rank(list[m]) = 0 + m
    BY DEF Exact
  <2>1. Exact(shown, 0) /\ Exact(cut, nextOffset)
    BY <1>2, <1>3 DEF SeaInv, Waited
  <2>2. m \in Nat /\ m \in 1..Len(shown) + Len(cut)
        /\ list[m] = IF m <= Len(shown) THEN shown[m] ELSE cut[m - Len(shown)]
    BY <1>2, <1>5
  <2>3. CASE m <= Len(shown)
    <3>1. m \in DOMAIN shown
      BY <1>5, <2>2, <2>3
    <3> QED BY <2>1, <2>2, <2>3, <3>1 DEF Exact
  <2>4. CASE ~(m <= Len(shown))
    <3>1. m - nextOffset \in DOMAIN cut /\ nextOffset + (m - nextOffset) = m
      BY <1>5, <2>2, <2>4
    <3> QED BY <1>5, <2>1, <2>2, <2>4, <3>1 DEF Exact
  <2> QED BY <2>3, <2>4
<1>13. ~hasMore' => next >= f.total
  <2>1. hasMore' <=> next < f.total
    BY <1>7
  <2>2. next \in Nat /\ f.total \in Nat
    BY <1>3, <1>6 DEF Requests
  <2> QED BY <2>1, <2>2
<1> QED BY <1>7, <1>8, <1>9, <1>10, <1>11, <1>12, <1>13 DEF SeaInv

LEMMA DiscardInv ==
    ASSUME SeaInv, NEW n \in DOMAIN fetches, Discard(n)
    PROVE  SeaInv'
<1>1. /\ fetches' = [fetches EXCEPT ![n] = Closed]
      /\ UNCHANGED <<start, changes, key, shown, nextOffset, hasMore, seaHistory>>
      /\ fetches[n].at # "done"
  BY DEF Discard
<1>2. /\ fetches' \in Seq(Requests) /\ DOMAIN fetches' = DOMAIN fetches
      /\ Len(fetches') = Len(fetches)
      /\ \A m \in DOMAIN fetches : fetches'[m] = IF m = n THEN Closed ELSE fetches[m]
  BY <1>1, FetchIsRequest DEF SeaInv, SeaTypes
<1>3. UNCHANGED <<start, key, shown, nextOffset, hasMore, steady, departed, squeezed>>
  BY <1>1 DEF seaHistory
<1>4. SeaTypes'
  BY <1>2, <1>3 DEF SeaInv, SeaTypes, Shown
<1>5. FetchesOk'
  <2>1. RequestOk(fetches[n], n)'
    BY <1>2, ClosedIsOk DEF RequestOk, Wanted, Waited
  <2>2. ASSUME NEW m \in DOMAIN fetches, m # n PROVE RequestOk(fetches[m], m)'
    <3>1. PICK g : g = fetches[m]
      OBVIOUS
    <3>2. RequestOk(g, m)
      BY <3>1 DEF SeaInv, FetchesOk
    <3>3. CASE fetches[n].aborted
      <4>1. loading' = loading
        BY <3>3 DEF Discard
      <4>2. RequestOk(g, m)'
        BY <1>1, <1>2, <3>2, <4>1, SameRequest
      <4> QED BY <1>2, <2>2, <3>1, <4>2 DEF RequestOk, Wanted, Waited
    <3>4. CASE ~fetches[n].aborted
      <4>1. Wanted(fetches[n]) /\ RequestOk(fetches[n], n)
        BY <1>1, <3>4 DEF SeaInv, FetchesOk, Wanted
      <4>2. n = Len(fetches)
        BY <4>1 DEF RequestOk, Waited
      <4>3. ~Wanted(g)
        BY <2>2, <3>2, <4>2 DEF RequestOk, Waited
      <4>4. RequestOk(g, m)'
        BY <3>2, <4>3 DEF RequestOk, Wanted
      <4> QED BY <1>2, <2>2, <3>1, <4>4 DEF RequestOk, Wanted, Waited
    <3> QED BY <3>3, <3>4
  <2> QED BY <1>2, <2>1, <2>2 DEF FetchesOk
<1>6. PICK l, k : l = shown /\ k = nextOffset
  OBVIOUS
<1>7. Reaches(l, k)' /\ Exact(l, 0)' /\ (Complete(l)' <=> Complete(l))
  BY <1>3, <1>6, SameTable DEF SeaInv
<1> QED BY <1>3, <1>4, <1>5, <1>6, <1>7 DEF SeaInv

\* The requests after another has been made: none of the others is waited for.
LEMMA FetchPageOk ==
    ASSUME SeaInv, NEW q \in Queries, NEW o \in Nat, FetchPage(q, o)
    PROVE  /\ fetches' \in Seq(Requests)
           /\ \A n \in DOMAIN fetches' :
                 LET f == fetches'[n] IN
                 \/ n = Len(fetches') /\ f = Fetch(q, o)
                 \/ /\ ~Wanted(f)
                    /\ f.at # "done" => f.key \in Queries
                    /\ f.at = "answered" => f.page \in Seq(Passing[f.key])
<1> DEFINE aborted(f) == IF f = Closed THEN Closed ELSE [f EXCEPT !.aborted = TRUE]
           rest == [n \in DOMAIN fetches |-> aborted(fetches[n])]
<1>1. fetches' = Append(rest, Fetch(q, o))
  BY DEF FetchPage
<1>2. fetches \in Seq(Requests) /\ DOMAIN fetches = 1..Len(fetches) /\ Len(fetches) \in Nat
  BY DEF SeaInv, SeaTypes
<1>3. ASSUME NEW n \in DOMAIN fetches
      PROVE  /\ aborted(fetches[n]) \in Requests
             /\ ~Wanted(aborted(fetches[n]))
             /\ aborted(fetches[n]).at # "done" => aborted(fetches[n]).key \in Queries
             /\ aborted(fetches[n]).at = "answered" =>
                   aborted(fetches[n]).page \in Seq(Passing[aborted(fetches[n]).key])
  <2>1. PICK f : f = fetches[n]
    OBVIOUS
  <2>2. f \in Requests /\ RequestOk(f, n)
    BY <1>2, <2>1 DEF SeaInv, FetchesOk
  <2>3. CASE f = Closed
    BY <2>1, <2>3, FetchIsRequest DEF Wanted, Closed, Fetch
  <2>4. CASE f # Closed
    <3>1. PICK g : g = [f EXCEPT !.aborted = TRUE]
      OBVIOUS
    <3>2. g \in Requests /\ g.aborted = TRUE /\ g.at = f.at /\ g.key = f.key /\ g.page = f.page
      BY <2>2, <3>1 DEF Requests
    <3>3. aborted(fetches[n]) = g
      BY <2>1, <2>4, <3>1
    <3> QED BY <2>2, <3>2, <3>3 DEF RequestOk, Wanted
  <2> QED BY <2>3, <2>4
<1> HIDE DEF aborted
<1>4. rest \in Seq(Requests) /\ Len(rest) = Len(fetches) /\ DOMAIN rest = DOMAIN fetches
  BY <1>2, <1>3
<1>5. Fetch(q, o) \in Requests
  BY FetchIsRequest
<1> HIDE DEF rest
<1>6. /\ fetches' \in Seq(Requests) /\ Len(fetches') = Len(fetches) + 1
      /\ \A n \in DOMAIN fetches' :
            fetches'[n] = IF n = Len(fetches') THEN Fetch(q, o) ELSE rest[n]
      /\ \A n \in DOMAIN fetches' : n # Len(fetches') => n \in DOMAIN fetches
  BY <1>1, <1>2, <1>4, <1>5, AppendProperties
<1>7. \A n \in DOMAIN fetches : rest[n] = aborted(fetches[n])
  BY DEF rest
<1> QED BY <1>3, <1>6, <1>7

LEMMA ChangeQueryInv ==
    ASSUME SeaInv, ChangeQuery
    PROVE  SeaInv'
<1>1. PICK q \in Queries : key' = q /\ FetchPage(q, 0)
  BY DEF ChangeQuery
<1>2. /\ shown' = <<>> /\ nextOffset' = 0 /\ hasMore' = FALSE /\ loading' = TRUE
      /\ steady' = Shown /\ departed' = FALSE /\ squeezed' = FALSE
      /\ start' = start
  BY DEF ChangeQuery
<1>3. /\ fetches' \in Seq(Requests)
      /\ \A n \in DOMAIN fetches' :
            LET f == fetches'[n] IN
            \/ n = Len(fetches') /\ f = Fetch(q, 0)
            \/ /\ ~Wanted(f)
               /\ f.at # "done" => f.key \in Queries
               /\ f.at = "answered" => f.page \in Seq(Passing[f.key])
  BY <1>1, FetchPageOk
<1>4. SeaTypes'
  <2>1. <<>> \in Seq(Passing[q]) /\ Len(<<>>) = 0
    OBVIOUS
  <2> QED BY <1>1, <1>2, <1>3, <2>1 DEF SeaInv, SeaTypes, Shown
<1>5. FetchesOk'
  <2> SUFFICES ASSUME NEW n \in DOMAIN fetches' PROVE RequestOk(fetches[n], n)'
    BY DEF FetchesOk
  <2>1. CASE n = Len(fetches') /\ fetches'[n] = Fetch(q, 0)
    BY <1>1, <1>2, <2>1 DEF RequestOk, Wanted, Waited, Fetch
  <2>2. CASE ~(n = Len(fetches') /\ fetches'[n] = Fetch(q, 0))
    BY <1>3, <2>2 DEF RequestOk, Wanted
  <2> QED BY <2>1, <2>2
<1>6. ASSUME NEW i \in Steady' PROVE ~(Rank(i)' <= 0)
  <2>1. PICK S : S = Matching(key)'
    OBVIOUS
  <2>2. S \in SUBSET Ids /\ i \in S
    BY <1>1, <1>2, <1>4, <2>1, SearchAssumption DEF Steady, Matching, SeaTypes, Shown
  <2>3. ~Earlier(i, i)'
    <3>1. ~Earlier(i, i)
      BY <2>2, StartIsKnown, EarlierIsTotal DEF SeaInv
    <3> QED BY <1>2, <3>1 DEF Earlier
  <2>4. PICK U : U = {j \in S : ~Earlier(i, j)'}
    OBVIOUS
  <2>5. i \in U /\ IsFiniteSet(U)
    BY <2>2, <2>3, <2>4, SearchAssumption, FS_Subset
  <2>6. Rank(i)' = Cardinality(U)
    BY <2>1, <2>4 DEF Rank, RankIn, UpTo
  <2> QED BY <2>5, <2>6, FS_EmptySet, FS_CardinalityType
<1>7. Reaches(shown, nextOffset)' /\ Exact(shown, 0)'
  BY <1>2, <1>6 DEF Reaches, Exact
<1> QED BY <1>2, <1>4, <1>5, <1>7 DEF SeaInv

LEMMA LoadMoreInv ==
    ASSUME SeaInv, LoadMore
    PROVE  SeaInv'
<1>1. /\ FetchPage(key, nextOffset) /\ loading' = TRUE
      /\ UNCHANGED <<start, key, shown, nextOffset, hasMore, steady, departed, squeezed>>
  BY DEF LoadMore, seaHistory
<1>2. PICK q \in Queries, o \in Nat : q = key /\ o = nextOffset
  BY DEF SeaInv, SeaTypes
<1>3. /\ fetches' \in Seq(Requests)
      /\ \A n \in DOMAIN fetches' :
            LET f == fetches'[n] IN
            \/ n = Len(fetches') /\ f = Fetch(q, o)
            \/ /\ ~Wanted(f)
               /\ f.at # "done" => f.key \in Queries
               /\ f.at = "answered" => f.page \in Seq(Passing[f.key])
  BY <1>1, <1>2, FetchPageOk
<1>4. SeaTypes'
  BY <1>1, <1>3 DEF SeaInv, SeaTypes, Shown
<1>5. FetchesOk'
  <2> SUFFICES ASSUME NEW n \in DOMAIN fetches' PROVE RequestOk(fetches[n], n)'
    BY DEF FetchesOk
  <2>1. CASE n = Len(fetches') /\ fetches'[n] = Fetch(q, o)
    BY <1>1, <1>2, <2>1 DEF RequestOk, Wanted, Waited, Fetch
  <2>2. CASE ~(n = Len(fetches') /\ fetches'[n] = Fetch(q, o))
    BY <1>3, <2>2 DEF RequestOk, Wanted
  <2> QED BY <2>1, <2>2
<1>6. PICK l, k : l = shown /\ k = nextOffset
  OBVIOUS
<1>7. Reaches(l, k)' /\ Exact(l, 0)' /\ (Complete(l)' <=> Complete(l))
  BY <1>1, <1>6, SameTable DEF SeaInv
<1> QED BY <1>1, <1>4, <1>5, <1>6, <1>7 DEF SeaInv

LEMMA ChangeInv ==
    ASSUME SeaInv, NEW x \in Ids, NEW t \in Starts \cup {0}, Change(x, t)
    PROVE  SeaInv'
<1>1. /\ start' = [start EXCEPT ![x] = t] /\ start[x] # t
      /\ steady' = steady \ {x}
      /\ departed' = (departed \/ start[x] # 0)
      /\ UNCHANGED <<key, shown, nextOffset, hasMore, loading, fetches>>
  BY DEF Change, screen
<1>2. squeezed' = (squeezed \/ \E n \in DOMAIN fetches :
                     fetches[n].at = "counted" /\ ~fetches[n].aborted)
  BY DEF Change
<1>3. SeaTypes'
  BY <1>1 DEF SeaInv, SeaTypes, Shown
<1>4. ASSUME ~departed' PROVE ~departed /\ start[x] = 0
  BY <1>1, <1>4
<1>5. ~Unchanged'
  <2> SUFFICES ASSUME ~departed' PROVE x \in Shown' /\ x \notin steady'
    BY DEF Unchanged
  <2>1. start'[x] # 0
    BY <1>1, <1>4 DEF SeaInv, SeaTypes
  <2> QED BY <1>1, <2>1 DEF Shown
<1>6. Steady' \subseteq Steady
  BY <1>1 DEF Steady
<1>7. ASSUME NEW list, NEW place, place \in Int, Reaches(list, place)
      PROVE  Reaches(list, place)'
  <2> SUFFICES ASSUME ~departed', NEW i \in Steady', Rank(i)' <= place
               PROVE  i \in Range(list)
    BY DEF Reaches, OnlyArrivals
  <2>1. ~departed /\ start[x] = 0
    BY <1>4
  <2>2. i \in Matching(key) /\ key \in Queries
    BY <1>6 DEF SeaInv, SeaTypes, Steady, Matching
  <2>3. i \in Matching(key)' /\ Rank(i) \in Nat /\ Rank(i) <= Rank(i)' /\ Rank(i)' \in Nat
    <3>1. PICK q : q = key
      OBVIOUS
    <3>2. /\ i \in Matching(q)'
          /\ RankIn(Matching(q), i) \in Nat /\ RankIn(Matching(q), i)' \in Nat
          /\ RankIn(Matching(q), i) <= RankIn(Matching(q), i)'
      BY <2>1, <2>2, <3>1, ArrivalsMoveDown DEF SeaInv
    <3>3. /\ Rank(i) = RankIn(Matching(q), i) /\ Rank(i)' = RankIn(Matching(q), i)'
          /\ Matching(key)' = Matching(q)'
      BY <1>1, <3>1 DEF Rank, RankIn, UpTo, Matching
    <3> QED BY <3>2, <3>3
  <2>4. Rank(i) <= place
    BY <1>7, <2>3
  <2> QED BY <1>6, <1>7, <2>1, <2>4 DEF Reaches, OnlyArrivals
<1>8. ASSUME NEW list, Complete(list) PROVE Complete(list)'
  BY <1>2, <1>4, <1>6, <1>8 DEF Complete, OnlyArrivals
<1>9. \A list, place : Exact(list, place)'
  BY <1>5 DEF Exact
<1>10. FetchesOk'
  <2> SUFFICES ASSUME NEW n \in DOMAIN fetches PROVE RequestOk(fetches[n], n)'
    BY <1>1 DEF FetchesOk
  <2>1. PICK f : f = fetches[n]
    OBVIOUS
  <2>2. RequestOk(f, n) /\ f \in Requests
    BY <2>1 DEF SeaInv, SeaTypes, FetchesOk
  <2>3. PICK list, next, o : /\ list = shown \o f.page /\ next = nextOffset + Len(f.page)
                             /\ o = nextOffset
    OBVIOUS
  <2>4. ASSUME Wanted(f) PROVE Waited(f, n)'
    <3>1. Waited(f, n)
      BY <2>2, <2>4 DEF RequestOk
    <3>2. f.at = "counted" => squeezed'
      BY <1>2, <2>1, <2>4 DEF Wanted
    <3>3. ASSUME f.at = "answered"
          PROVE  /\ Reaches(list, next)' /\ Exact(f.page, o)'
                 /\ next >= f.total => Complete(list)'
      <4>1. next \in Int
        <5>1. f.page \in Seq(Ids) /\ shown \in Seq(Passing[key]) /\ nextOffset = Len(shown)
          BY <2>2 DEF SeaInv, SeaTypes, Requests
        <5>2. Len(f.page) \in Nat /\ Len(shown) \in Nat
          BY <5>1, LenProperties
        <5> QED BY <2>3, <5>1, <5>2
      <4>2. Reaches(list, next) /\ (next >= f.total => Complete(list))
        BY <2>3, <3>1, <3>3 DEF Waited
      <4> QED BY <1>7, <1>8, <1>9, <4>1, <4>2
    <3>4. list = (shown \o f.page)' /\ next = (nextOffset + Len(f.page))' /\ o = nextOffset'
      BY <1>1, <2>3
    <3> QED BY <1>1, <3>1, <3>2, <3>3, <3>4 DEF Waited
  <2>5. RequestOk(f, n)'
    BY <2>2, <2>4 DEF RequestOk, Wanted
  <2> QED BY <1>1, <2>1, <2>5 DEF RequestOk, Wanted, Waited
<1>11. PICK l, k : l = shown /\ k = nextOffset
  OBVIOUS
<1>12. Reaches(l, k)' /\ Exact(l, 0)' /\ (Complete(l) => Complete(l)')
  <2>1. k \in Int
    BY <1>11 DEF SeaInv, SeaTypes
  <2> QED BY <1>7, <1>8, <1>9, <1>11, <2>1 DEF SeaInv
<1> QED BY <1>1, <1>3, <1>10, <1>11, <1>12 DEF SeaInv

LEMMA SeaStepInv == SeaInv /\ [SearchNext]_seaVars => SeaInv'
<1> SUFFICES ASSUME SeaInv, [SearchNext]_seaVars PROVE SeaInv'
  OBVIOUS
<1>1. CASE ChangeQuery
  BY <1>1, ChangeQueryInv
<1>2. CASE LoadMore
  BY <1>2, LoadMoreInv
<1>3. ASSUME NEW n \in DOMAIN fetches, Receive(n) \/ Discard(n) \/ Count(n) \/ Page(n)
      PROVE  SeaInv'
  BY <1>3, ReceiveInv, DiscardInv, CountInv, PageInv
<1>4. ASSUME NEW i \in Ids, NEW t \in Starts \cup {0}, Change(i, t) PROVE SeaInv'
  BY <1>4, ChangeInv
<1>5. CASE UNCHANGED seaVars
  <2>1. UNCHANGED <<start, key, shown, nextOffset, hasMore, loading, fetches, steady,
                    departed, squeezed>>
    BY <1>5 DEF seaVars, screen, seaHistory
  <2>2. SeaTypes'
    BY <2>1 DEF SeaInv, SeaTypes, Shown
  <2>3. FetchesOk'
    <3> SUFFICES ASSUME NEW n \in DOMAIN fetches PROVE RequestOk(fetches[n], n)'
      BY <2>1 DEF FetchesOk
    <3>1. PICK f : f = fetches[n]
      OBVIOUS
    <3>2. RequestOk(f, n)'
      BY <2>1, <3>1, SameRequest DEF SeaInv, FetchesOk, seaHistory
    <3> QED BY <2>1, <3>1, <3>2 DEF RequestOk, Wanted, Waited
  <2>4. PICK l, k : l = shown /\ k = nextOffset
    OBVIOUS
  <2>5. Reaches(l, k)' /\ Exact(l, 0)' /\ (Complete(l)' <=> Complete(l))
    BY <2>1, <2>4, SameTable DEF SeaInv
  <2> QED BY <2>1, <2>2, <2>3, <2>4, <2>5 DEF SeaInv
<1> QED BY <1>1, <1>2, <1>3, <1>4, <1>5 DEF SearchNext, SearchRest

\* The screen shows events of its own query, in whatever order the answers come:
\* the aborted requests of useEventSearch.
THEOREM ScreenIsOfQuery == SearchSpec => []ShownOfQuery
<1>1. SeaInv => ShownOfQuery
  BY DEF SeaInv, SeaTypes, ShownOfQuery
<1> QED BY <1>1, SeaInitInv, SeaStepInv, PTL DEF SearchSpec

\* A list that says it is complete is, and repeats nothing, but for what the table
\* did meanwhile: OFFSET over ORDER BY start_at, id of search_events.
THEOREM ListIsExplained == SearchSpec => []GapsExplained
<1>1. SeaInv => GapsExplained
  <2> SUFFICES ASSUME SeaInv PROVE GapsExplained
    OBVIOUS
  <2>1. ASSUME ~hasMore, nextOffset > 0, ~departed, ~squeezed
        PROVE  steady \cap Passing[key] \subseteq Range(shown)
    BY <2>1 DEF SeaInv, Complete, OnlyArrivals, Steady
  <2>2. ASSUME \A i \in Shown : i \in steady, ~departed,
               NEW m \in DOMAIN shown, NEW n \in DOMAIN shown, shown[m] = shown[n]
        PROVE  m = n
    <3>1. Rank(shown[m]) = 0 + m /\ Rank(shown[n]) = 0 + n
      BY <2>2 DEF SeaInv, Exact, Unchanged
    <3>2. m \in Nat /\ n \in Nat
      BY DEF SeaInv, SeaTypes
    <3> QED BY <2>2, <3>1, <3>2
  <2> QED BY <2>1, <2>2 DEF GapsExplained
<1> QED BY <1>1, SeaInitInv, SeaStepInv, PTL DEF SearchSpec

-----------------------------------------------------------------------------
(***************************************************************************)
(* Key snapshots: the history is thinned.                                  *)
(***************************************************************************)

\* What a sampler under the lock has found, and is about to add to the history.
UnderLock(s) == sampler[s].at \in {"compare", "insert"}

IsSampling(r) ==
    r = [at |-> r.at, status |-> r.status, now |-> r.now] /\ r.now \in Nat

SnaTypes ==
    /\ minute \in Nat
    /\ sampler = [s \in Samplers |-> sampler[s]]
    /\ IsFiniteSet(samples)
    /\ \A p \in samples : p.id \in Nat /\ p.at \in Nat

SnaInv ==
    /\ SnaTypes
    /\ \A s \in Samplers :
          /\ sampler[s].at \in {"lock", "compare", "insert"} => IsSampling(sampler[s])
          /\ UnderLock(s) => samplerLock = s
          /\ sampler[s].at = "insert" => ~Redundant(sampler[s].status, sampler[s].now)
    /\ SamplesThinned

-----------------------------------------------------------------------------
\* A finite set of numbers has a largest.
LEMMA LargestExists ==
    ASSUME NEW F \in SUBSET Nat, IsFiniteSet(F), F # {}
    PROVE  Max(F) \in F /\ \A y \in F : y <= Max(F)
<1> DEFINE Above(x) == {z \in F : x < z}
           T == {Cardinality(Above(x)) : x \in F}
<1>1. \A x \in F : IsFiniteSet(Above(x)) /\ Cardinality(Above(x)) \in Nat
  BY FS_Subset, FS_CardinalityType
<1>2. T \subseteq Nat /\ T # {}
  BY <1>1
<1>3. PICK c \in T : \A d \in T : ~(<<d, c>> \in OpToRel(<, Nat))
  BY <1>2, NatLessThanWellFounded, WFMin
<1>4. \A d \in T : ~(d < c)
  <2>1. \A d \in T : <<d, c>> \in Nat \X Nat
    BY <1>2
  <2>2. \A d \in T : <<d, c>> \in Nat \X Nat => ~(d < c)
    BY <1>3, Zenon DEF OpToRel
  <2> QED BY <2>1, <2>2
<1>5. PICK x \in F : c = Cardinality(Above(x))
  BY <1>3
<1>6. ASSUME NEW y \in F PROVE y <= x
  <2> SUFFICES ASSUME x < y PROVE FALSE
    OBVIOUS
  <2>0. \A z \in F : z \in Nat
    OBVIOUS
  <2>1. Above(y) \subseteq Above(x) /\ y \in Above(x) /\ y \notin Above(y)
    <3>1. x \in Nat /\ y \in Nat
      BY <2>0
    <3>2. ASSUME NEW z \in Above(y) PROVE z \in Above(x)
      <4>1. z \in F /\ z \in Nat /\ y < z
        BY <2>0
      <4> QED BY <3>1, <4>1
    <3>3. y \in Above(x)
      OBVIOUS
    <3>4. y \notin Above(y)
      BY <3>1
    <3> HIDE DEF Above
    <3> QED BY <3>2, <3>3, <3>4
  <2>2. Cardinality(Above(y)) < Cardinality(Above(x))
    <3>1. Cardinality(Above(y)) <= Cardinality(Above(x))
          /\ (Cardinality(Above(x)) = Cardinality(Above(y)) => Above(x) = Above(y))
      BY <1>1, <2>1, FS_Subset
    <3> QED BY <1>1, <2>1, <3>1
  <2> QED BY <1>4, <1>5, <2>2
<1>7. Max(F) = CHOOSE z \in F : \A y \in F : y <= z
  BY DEF Max
<1> QED BY <1>6, <1>7

\* The order of the history is total and strict.
LEMMA LaterIsStrict ==
    ASSUME NEW a, NEW b, NEW c, a.id \in Nat, a.at \in Nat, b.id \in Nat, b.at \in Nat,
           c.id \in Nat, c.at \in Nat
    PROVE  /\ LaterSample(a, b) => ~LaterSample(b, a)
           /\ LaterSample(a, b) /\ LaterSample(b, c) => LaterSample(a, c)
BY DEF LaterSample

\* Pruning takes from the old end: what is later than a sample that stays, stays.
LEMMA PruningFromTheEnd ==
    ASSUME NEW S, IsFiniteSet(S), \A p \in S : p.id \in Nat /\ p.at \in Nat, NEW t \in Nat
    PROVE  /\ Keeping(S, t) \subseteq S
           /\ \A p \in Keeping(S, t), q \in S : LaterSample(q, p) => q \in Keeping(S, t)
<1> DEFINE young == {p \in S : p.at + Retention >= t}
           Later(p) == {q \in young : LaterSample(q, p)}
<1>1. Keeping(S, t) = {p \in young : Cardinality(Later(p)) < MaxSamples}
  BY DEF Keeping
<1>2. IsFiniteSet(young) /\ \A p \in young : IsFiniteSet(Later(p)) /\ Cardinality(Later(p)) \in Nat
  BY FS_Subset, FS_CardinalityType
<1>3. ASSUME NEW p \in Keeping(S, t), NEW q \in S, LaterSample(q, p)
      PROVE  q \in Keeping(S, t)
  <2>1. p \in young /\ Cardinality(Later(p)) < MaxSamples
    BY <1>1
  <2>2. q \in young
    <3>1. p.at <= q.at /\ p.at \in Nat /\ q.at \in Nat
      BY <1>3, <2>1 DEF LaterSample
    <3> QED BY <2>1, <3>1, SnapshotsAssumption
  <2>3. Later(q) \subseteq Later(p)
    BY <1>3, <2>1, <2>2, LaterIsStrict
  <2>4. Cardinality(Later(q)) <= Cardinality(Later(p))
    BY <1>2, <2>1, <2>3, FS_Subset
  <2>5. /\ Cardinality(Later(q)) \in Nat /\ Cardinality(Later(p)) \in Nat
        /\ MaxSamples \in Nat
    BY <1>2, <2>1, <2>2, SnapshotsAssumption
  <2>6. Cardinality(Later(q)) < MaxSamples
    BY <2>1, <2>4, <2>5
  <2> QED BY <1>1, <2>2, <2>6
<1> QED BY <1>1, <1>3

\* A sampler that goes on to its next step keeps what it has read.
LEMMA SamplerMoves ==
    ASSUME NEW r, IsSampling(r), NEW a, NEW t, t = [r EXCEPT !.at = a]
    PROVE  IsSampling(t) /\ t.at = a /\ t.status = r.status /\ t.now = r.now
BY DEF IsSampling

LEMMA SnaInitInv == SnapshotsInit => SnaInv
<1> SUFFICES ASSUME SnapshotsInit PROVE SnaInv
  OBVIOUS
<1>1. \A s \in Samplers : sampler[s].at = "waiting"
  BY DEF SnapshotsInit, Waiting
<1> QED BY <1>1, FS_EmptySet DEF SnapshotsInit, SnaInv, SnaTypes, UnderLock, SamplesThinned

LEMMA InsertSampleInv ==
    ASSUME SnaInv, NEW s \in Samplers, InsertSample(s)
    PROVE  SnaInv'
<1>1. PICK r, new : /\ r = sampler[s]
                    /\ new = [id |-> Max({p.id : p \in samples} \cup {0}) + 1,
                              status |-> r.status, at |-> r.now]
  OBVIOUS
<1>2. /\ r.at = "insert"
      /\ samples' = Keeping(samples \cup {new}, r.now)
      /\ outOfOrder' = (outOfOrder \/ \E p \in samples : p.at > r.now)
      /\ sampler' = [sampler EXCEPT ![s] = Waiting]
      /\ samplerLock' = Unlocked
      /\ minute' = minute
  BY <1>1 DEF InsertSample
<1>3. /\ r.now \in Nat /\ ~Redundant(r.status, r.now)
      /\ \A t \in Samplers \ {s} : ~UnderLock(t)
  BY <1>1, <1>2 DEF SnaInv, UnderLock, IsSampling
<1> DEFINE F == {p.id : p \in samples} \cup {0}
           S == samples \cup {new}
<1>4. /\ new.id \in Nat /\ new.at = r.now /\ new.status = r.status
      /\ \A p \in samples : p.id < new.id
  <2>1. F \in SUBSET Nat /\ F # {} /\ IsFiniteSet(F)
    <3>1. [p \in samples |-> p.id] \in Surjection(samples, {p.id : p \in samples})
      BY DEF Surjection
    <3>2. IsFiniteSet({p.id : p \in samples})
      BY <3>1, FS_Surjection DEF SnaInv, SnaTypes
    <3>3. IsFiniteSet(F)
      BY <3>2, FS_AddElement
    <3> QED BY <3>3 DEF SnaInv, SnaTypes
  <2>2. Max(F) \in Nat /\ \A y \in F : y <= Max(F)
    BY <2>1, LargestExists
  <2>3. new.id = Max(F) + 1 /\ new.at = r.now /\ new.status = r.status
    BY <1>1
  <2>4. \A p \in samples : p.id \in F /\ p.id \in Nat
    BY DEF SnaInv, SnaTypes
  <2> HIDE DEF F
  <2>5. \A p \in samples : p.id < new.id
    BY <2>2, <2>3, <2>4
  <2> QED BY <2>2, <2>3, <2>5
<1> HIDE DEF F
<1>5. IsFiniteSet(S) /\ \A p \in S : p.id \in Nat /\ p.at \in Nat
  BY <1>3, <1>4, FS_AddElement DEF SnaInv, SnaTypes
<1>6. samples' = Keeping(S, r.now)
  BY <1>2
<1> HIDE DEF S
<1>7. samples' \subseteq S /\ \A p \in samples', q \in S : LaterSample(q, p) => q \in samples'
  BY <1>3, <1>5, <1>6, PruningFromTheEnd
<1>8. SnaTypes'
  <2>1. IsFiniteSet(samples')
    BY <1>5, <1>7, FS_Subset
  <2> QED BY <1>2, <1>5, <1>7, <2>1 DEF SnaInv, SnaTypes
<1>9. ASSUME NEW t \in Samplers
      PROVE  /\ sampler'[t].at \in {"lock", "compare", "insert"} => IsSampling(sampler'[t])
             /\ sampler'[t].at \notin {"compare", "insert"}
  <2>1. CASE t = s
    BY <1>2, <2>1 DEF Waiting, SnaInv, SnaTypes
  <2>2. CASE t # s
    BY <1>2, <1>3, <2>2 DEF SnaInv, SnaTypes, UnderLock
  <2> QED BY <2>1, <2>2
<1>10. SamplesThinned'
  <2> SUFFICES ASSUME ~outOfOrder', NEW p \in samples', NEW q \in samples',
                      IsPrevious(p, q, samples')
               PROVE  p.status # q.status \/ p.at + Interval <= q.at
    BY DEF SamplesThinned
  <2>1. ~outOfOrder /\ \A o \in samples : o.at <= r.now
    <3>1. ~outOfOrder /\ ~ \E o \in samples : o.at > r.now
      BY <1>2
    <3>2. \A o \in samples : o.at \in Nat
      BY DEF SnaInv, SnaTypes
    <3> QED BY <1>3, <3>1, <3>2
  <2>2. p \in S /\ q \in S /\ LaterSample(q, p)
        /\ \A o \in samples' : ~(LaterSample(q, o) /\ LaterSample(o, p))
    BY <1>7 DEF IsPrevious
  <2>3. \A o \in S : ~(LaterSample(q, o) /\ LaterSample(o, p))
    BY <1>7, <2>2
  <2>4. \A o \in samples : LaterSample(new, o)
    BY <1>3, <1>4, <2>1 DEF LaterSample, SnaInv, SnaTypes
  <2>5. p # new
    <3> SUFFICES ASSUME p = new PROVE FALSE
      OBVIOUS
    <3>1. ~LaterSample(q, new)
      <4>1. CASE q = new
        BY <1>4, <1>3, <4>1 DEF LaterSample
      <4>2. CASE q \in samples
        BY <1>5, <2>2, <2>4, <4>2, LaterIsStrict DEF S
      <4> QED BY <2>2, <4>1, <4>2 DEF S
    <3> QED BY <2>2, <3>1
  <2>6. p \in samples
    BY <2>2, <2>5 DEF S
  <2>7. CASE q = new
    <3>1. \A o \in samples : ~LaterSample(o, p)
      BY <2>3, <2>4, <2>7 DEF S
    <3>2. p.status # r.status \/ ~(r.now < p.at + Interval)
      BY <1>3, <2>6, <3>1 DEF Redundant
    <3>3. p.at \in Nat /\ r.now \in Nat /\ Interval \in Nat
      BY <1>3, <2>6, SnapshotsAssumption DEF SnaInv, SnaTypes
    <3> QED BY <1>4, <2>7, <3>2, <3>3
  <2>8. CASE q # new
    <3>1. q \in samples /\ IsPrevious(p, q, samples)
      BY <2>2, <2>3, <2>8 DEF S, IsPrevious
    <3> QED BY <2>1, <2>6, <3>1 DEF SnaInv, SamplesThinned
  <2> QED BY <2>7, <2>8
<1> QED BY <1>8, <1>9, <1>10 DEF SnaInv, UnderLock

\* Every other step leaves the history as it is.
LEMMA SnaStepInv == SnaInv /\ [SnapshotsNext]_snaVars => SnaInv'
<1> SUFFICES ASSUME SnaInv, [SnapshotsNext]_snaVars PROVE SnaInv'
  OBVIOUS
<1> USE SnapshotsAssumption
<1>1. CASE UNCHANGED snaVars
  BY <1>1 DEF snaVars, SnaInv, SnaTypes, UnderLock, Redundant, SamplesThinned
<1>2. ASSUME NEW s \in Samplers, InsertSample(s) PROVE SnaInv'
  BY <1>2, InsertSampleInv
<1>3. ASSUME NEW s \in Samplers,
             ReportUsage(s) \/ ReadHealth(s) \/ TryLock(s) \/ Compare(s) \/ SamplingFails(s)
      PROVE  SnaInv'
  <2>1. samples' = samples /\ outOfOrder' = outOfOrder
    BY <1>3 DEF ReportUsage, ReadHealth, TryLock, Compare, SamplingFails
  <2>2. SamplesThinned' /\ (\A a, b : Redundant(a, b)' = Redundant(a, b))
    BY <2>1 DEF SnaInv, SamplesThinned, Redundant
  <2>3. SnaTypes' /\ \A t \in Samplers \ {s} : sampler'[t] = sampler[t]
    BY <1>3, <2>1 DEF ReportUsage, ReadHealth, TryLock, Compare, SamplingFails, SnaInv, SnaTypes
  <2>4. ASSUME NEW t \in Samplers
        PROVE  /\ sampler'[t].at \in {"lock", "compare", "insert"} => IsSampling(sampler'[t])
               /\ UnderLock(t)' => samplerLock' = t
               /\ sampler'[t].at = "insert" => ~Redundant(sampler'[t].status, sampler'[t].now)
    <3>1. CASE t # s
      <4>1. sampler'[t] = sampler[t]
        BY <2>3, <3>1
      <4>2. UnderLock(t) => samplerLock' = t
        BY <1>3, <3>1
           DEF ReportUsage, ReadHealth, TryLock, Compare, SamplingFails, SnaInv, SnaTypes, UnderLock
      <4> QED BY <4>1, <4>2 DEF SnaInv, UnderLock
    <3>2. CASE t = s /\ ReportUsage(s)
      BY <3>2 DEF ReportUsage, SnaInv, SnaTypes, UnderLock
    <3>3. CASE t = s /\ ReadHealth(s)
      BY <3>3 DEF ReadHealth, SnaInv, SnaTypes, UnderLock, IsSampling
    <3>4. CASE t = s /\ TryLock(s)
      <4> DEFINE r == sampler[s]
      <4>1. CASE samplerLock = Unlocked
        <5>1. sampler'[s] = [r EXCEPT !.at = "compare"] /\ samplerLock' = s /\ r.at = "lock"
          BY <3>4, <4>1 DEF TryLock, SnaInv, SnaTypes
        <5>2. IsSampling(r)
          BY <5>1 DEF SnaInv
        <5>3. IsSampling(sampler'[s]) /\ sampler'[s].at = "compare"
          BY <5>1, <5>2, SamplerMoves
        <5> QED BY <3>4, <5>1, <5>3
      <4>2. CASE samplerLock # Unlocked
        BY <3>4, <4>2 DEF TryLock, SnaInv, SnaTypes, UnderLock, Waiting
      <4> QED BY <4>1, <4>2
    <3>5. CASE t = s /\ Compare(s)
      <4> DEFINE r == sampler[s]
      <4>1. CASE Redundant(r.status, r.now)
        BY <3>5, <4>1 DEF Compare, SnaInv, SnaTypes, UnderLock, Waiting
      <4>2. CASE ~Redundant(r.status, r.now)
        <5>1. sampler'[s] = [r EXCEPT !.at = "insert"] /\ samplerLock' = samplerLock
              /\ r.at = "compare" /\ samplerLock = s
          BY <3>5, <4>2 DEF Compare, SnaInv, SnaTypes, UnderLock
        <5>2. IsSampling(r)
          BY <5>1 DEF SnaInv
        <5>3. /\ IsSampling(sampler'[s]) /\ sampler'[s].status = r.status
              /\ sampler'[s].now = r.now
          BY <5>1, <5>2, SamplerMoves
        <5> QED BY <2>2, <3>5, <4>2, <5>1, <5>3 DEF UnderLock
      <4> QED BY <4>1, <4>2
    <3>6. CASE t = s /\ SamplingFails(s)
      BY <3>6 DEF SamplingFails, SnaInv, SnaTypes, UnderLock, Waiting
    <3> QED BY <1>3, <3>1, <3>2, <3>3, <3>4, <3>5, <3>6
  <2> QED BY <2>2, <2>3, <2>4 DEF SnaInv
<1>4. CASE KeyRecovers \/ MinutePasses \/ SnapshotsRest
  <2>1. UNCHANGED <<sampler, samplerLock, samples, outOfOrder>> /\ minute' \in Nat
    BY <1>4 DEF KeyRecovers, MinutePasses, SnapshotsRest, snaVars, SnaInv, SnaTypes
  <2> QED BY <2>1 DEF SnaInv, SnaTypes, UnderLock, Redundant, SamplesThinned
<1> QED BY <1>1, <1>2, <1>3, <1>4 DEF SnapshotsNext

\* The usage history is complete and thin as SamplesThinned says, for any number
\* of samplers, of samples kept and any intervals: snapshot_key_health.
THEOREM HistoryIsThinned == SnapshotsSpec => []SamplesThinned
<1>1. SnapshotsSpec => []SnaInv
  BY SnaInitInv, SnaStepInv, PTL DEF SnapshotsSpec
<1>2. SnaInv => SamplesThinned
  BY DEF SnaInv
<1> QED BY <1>1, <1>2, PTL

-----------------------------------------------------------------------------
(***************************************************************************)
(* Concierge: a plan can be kept, stop after stop.                         *)
(***************************************************************************)

IsNight(e) ==
    /\ e = [start |-> e.start, end |-> e.end, guessed |-> e.guessed, tier |-> e.tier,
            spot |-> e.spot, trust |-> e.trust]
    /\ e.start \in Nat /\ (e.end = NoEnd \/ e.end \in Nat)
    /\ e.spot \in DOMAIN Miles

\* The stops a plan is made from.
StopsOf(events, own) ==
    {[of |-> "event", at |-> EventStop(e)] : e \in events}
    \cup {[of |-> "planner", at |-> u] : u \in own}

ConInv ==
    /\ listed \subseteq Corpus /\ mine \subseteq UserStops
    /\ itinerary = <<>> \/
       \E events, order :
          /\ events \subseteq Corpus /\ order \in InOrder(events, mine)
          /\ itinerary = PortableStops([n \in DOMAIN order |-> order[n].at])
          /\ events = {} \/ \E anchor \in Corpus : events \in Nights(anchor)

-----------------------------------------------------------------------------
LEMMA CorpusIsNight == \A e \in Corpus \cup UserStops : IsNight(e)
BY ConciergeAssumption DEF Night, IsNight

LEMMA MinutesAreSome ==
    ASSUME NEW a, NEW b, IsNight(a), IsNight(b)
    PROVE  Minutes(a, b) \in Nat /\ Minutes(a, b) >= 1
BY ConciergeAssumption DEF Minutes, IsNight

\* What a stop of an event keeps of the event.
LEMMA StopOfEvent ==
    ASSUME NEW e, IsNight(e)
    PROVE  LET s == EventStop(e) IN
           /\ IsNight(s) /\ s.start = e.start /\ s.spot = e.spot /\ s.trust = e.trust
           /\ s.guessed = e.guessed
           /\ e.end # NoEnd /\ e.end >= e.start => s = e
<1>1. PICK s : s = EventStop(e)
  OBVIOUS
<1>2. CASE e.end < e.start
  <2>1. s = [e EXCEPT !.end = NoEnd]
    BY <1>1, <1>2 DEF EventStop
  <2>2. /\ IsNight(s) /\ s.start = e.start /\ s.spot = e.spot /\ s.trust = e.trust
        /\ s.guessed = e.guessed
    BY <2>1 DEF IsNight
  <2>3. ~(e.end # NoEnd /\ e.end >= e.start)
    BY <1>2 DEF IsNight
  <2> QED BY <1>1, <2>2, <2>3
<1>3. CASE ~(e.end < e.start)
  <2>1. s = e
    BY <1>1, <1>3 DEF EventStop
  <2> QED BY <1>1, <2>1
<1> QED BY <1>2, <1>3

\* The legs of a plan.
LEMMA Legs ==
    ASSUME NEW stops, NEW N \in Nat, DOMAIN stops = 1..N, NEW n \in 1..N
    PROVE  LET leg == PortableStops(stops)[n] IN
           /\ leg.stop = stops[n]
           /\ n > 1 => leg.minutes = Minutes(stops[n - 1], stops[n])
           /\ leg.warning <=>
                /\ n > 1 /\ ~stops[n].guessed
                /\ Boundary(stops[n - 1]) # NoEnd
                /\ Boundary(stops[n - 1]) > stops[n].start - Minutes(stops[n - 1], stops[n])
BY DEF PortableStops

LEMMA StopsAreFinite ==
    ASSUME NEW events, events \subseteq Corpus, NEW own, own \subseteq UserStops
    PROVE  IsFiniteSet(StopsOf(events, own)) /\ Cardinality(StopsOf(events, own)) \in Nat
<1> DEFINE E == {[of |-> "event", at |-> EventStop(e)] : e \in events}
           U == {[of |-> "planner", at |-> u] : u \in own}
<1>1. IsFiniteSet(events) /\ IsFiniteSet(own)
  BY ConciergeAssumption, FS_Subset
<1>2. [e \in events |-> [of |-> "event", at |-> EventStop(e)]] \in Surjection(events, E)
  BY DEF Surjection
<1>3. [u \in own |-> [of |-> "planner", at |-> u]] \in Surjection(own, U)
  BY DEF Surjection
<1>4. IsFiniteSet(E) /\ IsFiniteSet(U)
  BY <1>1, <1>2, <1>3, FS_Surjection
<1> HIDE DEF E, U
<1>5. IsFiniteSet(E \cup U)
  BY <1>4, FS_Union
<1>6. StopsOf(events, own) = E \cup U
  BY DEF StopsOf, E, U
<1> QED BY <1>5, <1>6, FS_CardinalityType

\* An enumeration of the stops by their start.
Planned(order, S) ==
    /\ DOMAIN order = 1..Cardinality(S)
    /\ Cardinality(S) \in Nat
    /\ \A n \in DOMAIN order : IsNight(order[n].at)
    /\ \A m, n \in DOMAIN order : m < n => order[m].at.start <= order[n].at.start
    /\ \A m, n \in DOMAIN order : m # n => order[m] # order[n]
    /\ \A n \in DOMAIN order : order[n] \in S
    /\ \A x \in S : \E n \in DOMAIN order : order[n] = x

\* A plan in order: every stop begins no later than those after it.
LEMMA SortedByStart ==
    ASSUME NEW events, events \subseteq Corpus, NEW own, own \subseteq UserStops,
           NEW order \in InOrder(events, own)
    PROVE  Planned(order, StopsOf(events, own))
<1>1. PICK S : S = StopsOf(events, own)
  OBVIOUS
<1>2. /\ order \in Bijection(1..Cardinality(S), S)
      /\ \A m, n \in DOMAIN order : m < n => ~StandsBefore(order[n], order[m])
  BY <1>1 DEF InOrder, StopsOf
<1>3. /\ order \in [1..Cardinality(S) -> S]
      /\ \A m, n \in 1..Cardinality(S) : m # n => order[m] # order[n]
      /\ \A x \in S : \E n \in 1..Cardinality(S) : order[n] = x
  BY <1>2 DEF Bijection, Injection, Surjection, IsInjective
<1>4. DOMAIN order = 1..Cardinality(S)
  BY <1>3
<1>5. \A x \in S : IsNight(x.at)
  BY <1>1, CorpusIsNight, StopOfEvent DEF StopsOf
<1>6. \A n \in DOMAIN order : IsNight(order[n].at)
  BY <1>3, <1>4, <1>5
<1>7. \A m, n \in DOMAIN order : m < n => order[m].at.start <= order[n].at.start
  <2> SUFFICES ASSUME NEW m \in DOMAIN order, NEW n \in DOMAIN order, m < n
               PROVE  order[m].at.start <= order[n].at.start
    OBVIOUS
  <2>1. PICK x, y : x = order[m].at.start /\ y = order[n].at.start
    OBVIOUS
  <2>2. ~(y < x)
    BY <1>2, <2>1 DEF StandsBefore
  <2>3. x \in Nat /\ y \in Nat
    BY <1>6, <2>1 DEF IsNight
  <2> QED BY <2>1, <2>2, <2>3
<1>8. Cardinality(S) \in Nat
  BY <1>1, StopsAreFinite
<1>9. Planned(order, S)
  BY <1>3, <1>4, <1>6, <1>7, <1>8 DEF Planned
<1> QED BY <1>1, <1>9

EndsAt(stop) == IF stop.end # NoEnd THEN stop.end ELSE stop.start

\* Without a warning or a guess every stop is over before those after it.
LEMMA PlanOfStops ==
    ASSUME NEW stops, NEW N \in Nat, DOMAIN stops = 1..N,
           \A n \in 1..N : IsNight(stops[n]) /\ ~stops[n].guessed,
           \A m, n \in 1..N : m < n => stops[m].start <= stops[n].start,
           \A n \in 1..N : ~PortableStops(stops)[n].warning,
           NEW m \in 1..N, NEW n \in 1..N, m < n
    PROVE  /\ EndsAt(stops[m]) <= stops[n].start
           /\ n = m + 1 => EndsAt(stops[m]) + PortableStops(stops)[n].minutes <= stops[n].start
<1>1. PICK k : k = m + 1
  OBVIOUS
<1>2. k \in 1..N /\ k > 1 /\ k - 1 = m /\ k <= n
  BY <1>1
<1>3. PICK a, b, t : a = stops[m] /\ b = stops[k] /\ t = Minutes(a, b)
  OBVIOUS
<1>4. IsNight(a) /\ IsNight(b) /\ ~a.guessed /\ ~b.guessed
  BY <1>2, <1>3
<1>5. t \in Nat
  BY <1>3, <1>4, MinutesAreSome
<1>6. ~(Boundary(a) # NoEnd /\ Boundary(a) > b.start - t)
  BY <1>2, <1>3, <1>4, Legs
<1>7. Boundary(a) = EndsAt(a)
  BY <1>4 DEF Boundary, EndsAt
<1>8. EndsAt(a) \in Nat /\ NoEnd \notin Nat
  BY <1>4 DEF EndsAt, IsNight, NoEnd
<1>9. EndsAt(a) + t <= b.start
  BY <1>4, <1>5, <1>6, <1>7, <1>8 DEF IsNight
<1>10. EndsAt(a) <= b.start
  BY <1>4, <1>5, <1>8, <1>9 DEF IsNight
<1>11. PICK c : c = stops[n]
  OBVIOUS
<1>12. b.start <= c.start /\ c.start \in Nat
  <2>1. CASE n = k
    BY <1>3, <1>4, <1>11, <2>1 DEF IsNight
  <2>2. CASE n # k
    BY <1>2, <1>3, <1>11, <2>2 DEF IsNight
  <2> QED BY <2>1, <2>2
<1>13. EndsAt(a) <= c.start
  BY <1>4, <1>8, <1>10, <1>12 DEF IsNight
<1>14. n = k => PortableStops(stops)[n].minutes = t
  BY <1>2, <1>3, Legs
<1> QED BY <1>1, <1>3, <1>9, <1>11, <1>13, <1>14

LEMMA CanFollowIsLater ==
    ASSUME NEW a, NEW b, IsNight(a), IsNight(b), CanFollow(a, b)
    PROVE  a.start < b.start
<1>1. PICK t : t = Minutes(a, b)
  OBVIOUS
<1>2. t \in Nat /\ t >= 1
  BY <1>1, MinutesAreSome
<1>3. a.end # NoEnd /\ a.end >= a.start /\ a.end + t <= b.start
  BY <1>1 DEF CanFollow
<1> QED BY <1>2, <1>3 DEF IsNight

\* A night is its anchor, with at most one event before and one after it.
LEMMA NightHasThree ==
    ASSUME NEW anchor, NEW night \in Nights(anchor)
    PROVE  /\ anchor \in night
           /\ \/ night = {anchor}
              \/ /\ \A e \in night : e = anchor \/ CanFollow(e, anchor) \/ CanFollow(anchor, e)
                 /\ \A e, f \in night : CanFollow(e, anchor) /\ CanFollow(f, anchor)
                                        /\ ~CanFollow(anchor, e) /\ ~CanFollow(anchor, f)
                                        /\ e # anchor /\ f # anchor => e = f
                 /\ \A e, f \in night : CanFollow(anchor, e) /\ CanFollow(anchor, f)
                                        /\ ~CanFollow(e, anchor) /\ ~CanFollow(f, anchor)
                                        /\ e # anchor /\ f # anchor => e = f
<1>1. CASE anchor.guessed
  BY <1>1 DEF Nights
<1>2. CASE ~anchor.guessed
  <2>1. PICK before \in OneOf(BeforeAnchor(anchor)), after \in OneOf(AfterAnchor(anchor)) :
           night = before \cup {anchor} \cup after
    BY <1>2 DEF Nights
  <2>2. before = {} \/ \E b : before = {b} /\ CanFollow(b, anchor)
    BY <2>1 DEF OneOf, BeforeAnchor
  <2>3. after = {} \/ \E a : after = {a} /\ CanFollow(anchor, a)
    BY <2>1 DEF OneOf, AfterAnchor
  <2> QED BY <2>1, <2>2, <2>3
<1> QED BY <1>1, <1>2

\* The time that sequence_itinerary leaves is the time that the legs ask for.
LEMMA FollowingIsInTime ==
    ASSUME NEW e, NEW f, IsNight(e), IsNight(f), CanFollow(e, f)
    PROVE  ~(/\ Boundary(EventStop(e)) # NoEnd
             /\ Boundary(EventStop(e)) > EventStop(f).start - Minutes(EventStop(e), EventStop(f)))
<1>1. PICK a, b, t : a = EventStop(e) /\ b = EventStop(f) /\ t = Minutes(e, f)
  OBVIOUS
<1>2. e.end # NoEnd /\ e.end >= e.start /\ e.end + t <= f.start
  BY <1>1 DEF CanFollow
<1>3. a = e
  BY <1>1, <1>2, StopOfEvent
<1>4. b.start = f.start /\ b.spot = f.spot /\ b.trust = f.trust
  BY <1>1, StopOfEvent
<1>5. Minutes(a, b) = t
  BY <1>1, <1>3, <1>4 DEF Minutes
<1>6. Boundary(a) = e.end
  BY <1>2, <1>3 DEF Boundary
<1>7. t \in Nat
  BY <1>1, MinutesAreSome
<1>8. ~(e.end > f.start - t)
  BY <1>2, <1>7 DEF IsNight
<1> QED BY <1>1, <1>4, <1>5, <1>6, <1>8

LEMMA PlanOfEvents ==
    ASSUME NEW anchor \in Corpus, NEW night \in Nights(anchor), night \subseteq Corpus,
           NEW order \in InOrder(night, {}), NEW stops,
           stops = [n \in DOMAIN order |-> order[n].at], NEW n \in DOMAIN order
    PROVE  ~PortableStops(stops)[n].warning
<1>1. PICK N, S : S = StopsOf(night, {}) /\ N = Cardinality(S)
  OBVIOUS
<1>2. /\ DOMAIN order = 1..N /\ N \in Nat
      /\ \A i \in 1..N : IsNight(order[i].at)
      /\ \A i, j \in 1..N : i < j => order[i].at.start <= order[j].at.start
      /\ \A i, j \in 1..N : i # j => order[i] # order[j]
      /\ \A i \in 1..N : order[i] \in S
      /\ \A x \in S : \E i \in 1..N : order[i] = x
  <2>1. PICK own : own = {}
    OBVIOUS
  <2>2. own \subseteq UserStops /\ order \in InOrder(night, own) /\ night \subseteq Corpus
    BY <2>1
  <2>3. Planned(order, StopsOf(night, own))
    BY <2>2, SortedByStart
  <2>4. Planned(order, S) /\ N = Cardinality(S)
    BY <1>1, <2>1, <2>3
  <2> QED BY <2>4 DEF Planned
<1>3. S = {[of |-> "event", at |-> EventStop(e)] : e \in night}
  BY <1>1 DEF StopsOf
<1>4. SUFFICES ASSUME n > 1
               PROVE  ~(/\ Boundary(stops[n - 1]) # NoEnd
                        /\ Boundary(stops[n - 1]) > stops[n].start - Minutes(stops[n - 1], stops[n]))
  <2>1. DOMAIN stops = 1..N /\ n \in 1..N /\ N \in Nat
    BY <1>2
  <2>2. PortableStops(stops)[n].warning =>
           /\ n > 1
           /\ Boundary(stops[n - 1]) # NoEnd
           /\ Boundary(stops[n - 1]) > stops[n].start - Minutes(stops[n - 1], stops[n])
    BY <2>1, Legs
  <2> QED BY <2>2
<1>5. PICK p : p = n - 1
  OBVIOUS
<1>6. p \in 1..N /\ n \in 1..N /\ p < n /\ ~(\E k \in 1..N : p < k /\ k < n)
  BY <1>2, <1>4, <1>5
<1>7. PICK e \in night : order[p] = [of |-> "event", at |-> EventStop(e)]
  BY <1>2, <1>3, <1>6
<1>8. PICK f \in night : order[n] = [of |-> "event", at |-> EventStop(f)]
  BY <1>2, <1>3, <1>6
<1>9. e # f /\ IsNight(e) /\ IsNight(f) /\ IsNight(anchor)
  BY <1>2, <1>6, <1>7, <1>8, CorpusIsNight
<1>10. PICK k \in 1..N : order[k] = [of |-> "event", at |-> EventStop(anchor)]
  BY <1>2, <1>3, NightHasThree
<1>11. /\ order[p].at.start = e.start /\ order[n].at.start = f.start
       /\ order[k].at.start = anchor.start
  BY <1>7, <1>8, <1>9, <1>10, StopOfEvent
<1>12. e.start <= f.start
  BY <1>2, <1>6, <1>11
<1>13. CASE night = {anchor}
  BY <1>7, <1>8, <1>9, <1>13
<1>14. CASE night # {anchor}
  <2>1. /\ \A g \in night : g = anchor \/ CanFollow(g, anchor) \/ CanFollow(anchor, g)
        /\ \A g \in night : CanFollow(g, anchor) => g.start < anchor.start
        /\ \A g \in night : CanFollow(anchor, g) => anchor.start < g.start
    BY <1>9, <1>14, NightHasThree, CanFollowIsLater, CorpusIsNight
  <2>2. \A g \in night : /\ CanFollow(g, anchor) => ~CanFollow(anchor, g) /\ g # anchor
                         /\ CanFollow(anchor, g) => ~CanFollow(g, anchor) /\ g # anchor
    BY <1>9, <2>1, CorpusIsNight DEF IsNight
  <2>3. \A g, h \in night : /\ CanFollow(g, anchor) /\ CanFollow(h, anchor) => g = h
                            /\ CanFollow(anchor, g) /\ CanFollow(anchor, h) => g = h
    BY <1>14, <2>2, NightHasThree
  <2>4. CanFollow(e, f)
    <3>1. CASE f = anchor
      BY <1>9, <1>12, <2>1, <3>1 DEF IsNight
    <3>2. CASE CanFollow(f, anchor)
      <4>1. ~CanFollow(e, anchor)
        BY <1>9, <2>3, <3>2
      <4>2. anchor.start <= e.start /\ f.start < anchor.start
        BY <1>9, <2>1, <3>2, <4>1 DEF IsNight
      <4> QED BY <1>9, <1>12, <4>2 DEF IsNight
    <3>3. CASE CanFollow(anchor, f)
      <4>1. CASE e = anchor
        BY <3>3, <4>1
      <4>2. CASE CanFollow(anchor, e)
        BY <1>9, <2>3, <3>3, <4>2
      <4>3. CASE CanFollow(e, anchor)
        <5>1. e.start < anchor.start /\ anchor.start < f.start
          BY <2>1, <3>3, <4>3
        <5>2. ~(k <= p)
          BY <1>2, <1>6, <1>9, <1>11, <5>1 DEF IsNight
        <5>3. ~(n <= k)
          BY <1>2, <1>6, <1>9, <1>11, <5>1 DEF IsNight
        <5>4. p < k /\ k < n
          BY <1>2, <1>6, <5>2, <5>3
        <5> QED BY <1>6, <5>4
      <4> QED BY <2>1, <4>1, <4>2, <4>3
    <3> QED BY <2>1, <3>1, <3>2, <3>3
  <2>5. stops[p] = EventStop(e) /\ stops[n] = EventStop(f)
    BY <1>2, <1>6, <1>7, <1>8
  <2> QED BY <1>5, <1>9, <2>4, <2>5, FollowingIsInTime
<1> QED BY <1>13, <1>14

-----------------------------------------------------------------------------
LEMMA ConInitInv == ConciergeInit => ConInv
BY DEF ConciergeInit, ConInv, SmallSubsets

LEMMA BuildInv ==
    ASSUME ConInv, BuildItinerary
    PROVE  ConInv'
<1>1. listed' = listed /\ mine' = mine
  BY DEF BuildItinerary
<1>2. ASSUME NEW events, AnswerWith(events), events \subseteq Corpus,
             events = {} \/ \E anchor \in Corpus : events \in Nights(anchor)
      PROVE  ConInv'
  <2>1. PICK order \in InOrder(events, mine) :
           itinerary' = PortableStops([n \in DOMAIN order |-> order[n].at])
    BY <1>2 DEF AnswerWith
  <2>2. \A a : Nights(a)' = Nights(a)
    BY <1>1 DEF Nights, BeforeAnchor, AfterAnchor, SameNight, Support, Near
  <2>3. events = {} \/ \E anchor \in Corpus : events \in Nights(anchor)'
    BY <1>2, <2>2
  <2> QED BY <1>1, <1>2, <2>1, <2>3 DEF ConInv
<1>3. CASE Anchors = {}
  BY <1>2, <1>3 DEF BuildItinerary
<1>4. ASSUME NEW anchor \in Anchors, NEW night \in Nights(anchor), AnswerWith(night)
      PROVE  ConInv'
  <2>1. anchor \in Corpus
    BY DEF ConInv, Anchors
  <2>2. night \subseteq {anchor} \cup listed
    <3>1. SameNight(anchor) \subseteq listed
      BY DEF SameNight, Support, Near
    <3>2. BeforeAnchor(anchor) \subseteq listed /\ AfterAnchor(anchor) \subseteq listed
      BY <3>1 DEF BeforeAnchor, AfterAnchor
    <3>3. PICK B, A : B = BeforeAnchor(anchor) /\ A = AfterAnchor(anchor)
      OBVIOUS
    <3>4. night = {anchor} \/ \E before \in OneOf(B), after \in OneOf(A) :
                                night = before \cup {anchor} \cup after
      BY <3>3 DEF Nights
    <3>5. \A S : \A x \in OneOf(S) : x \subseteq S
      BY DEF OneOf
    <3> QED BY <3>2, <3>3, <3>4, <3>5
  <2>3. night \subseteq Corpus
    BY <2>1, <2>2 DEF ConInv
  <2> QED BY <1>2, <1>4, <2>1, <2>3
<1> QED BY <1>3, <1>4 DEF BuildItinerary

LEMMA PlanOfInv == ConInv => PlanKeepsTime
<1> SUFFICES ASSUME ConInv PROVE PlanKeepsTime
  OBVIOUS
<1>1. CASE itinerary = <<>>
  BY <1>1 DEF PlanKeepsTime
<1>2. CASE itinerary # <<>>
  <2>1. PICK events, order :
          /\ events \subseteq Corpus /\ order \in InOrder(events, mine)
          /\ itinerary = PortableStops([n \in DOMAIN order |-> order[n].at])
          /\ events = {} \/ \E anchor \in Corpus : events \in Nights(anchor)
    BY <1>2 DEF ConInv
  <2>2. PICK stops, N : stops = [n \in DOMAIN order |-> order[n].at]
                        /\ N = Cardinality(StopsOf(events, mine))
    OBVIOUS
  <2>3. /\ DOMAIN order = 1..N /\ N \in Nat
        /\ \A n \in 1..N : IsNight(stops[n])
        /\ \A m, n \in 1..N : m < n => stops[m].start <= stops[n].start
        /\ DOMAIN stops = 1..N
    <3>1. mine \subseteq UserStops
      BY DEF ConInv
    <3>2. Planned(order, StopsOf(events, mine))
      BY <2>1, <3>1, SortedByStart
    <3>3. DOMAIN order = 1..N /\ N \in Nat /\ DOMAIN stops = DOMAIN order
      BY <2>2, <3>2 DEF Planned
    <3>4. \A n \in DOMAIN order : stops[n] = order[n].at
      BY <2>2
    <3> QED BY <3>2, <3>3, <3>4 DEF Planned
  <2>4. itinerary = PortableStops(stops) /\ DOMAIN itinerary = 1..N
    BY <2>1, <2>2, <2>3 DEF PortableStops
  <2>5. \A n \in 1..N : itinerary[n].stop = stops[n]
    BY <2>3, <2>4, Legs
  <2>6. ASSUME \A n \in 1..N : ~itinerary[n].warning /\ ~stops[n].guessed,
               NEW m \in 1..N, NEW n \in 1..N, m < n
        PROVE  /\ EndsAt(stops[m]) <= stops[n].start
               /\ n = m + 1 => EndsAt(stops[m]) + itinerary[n].minutes <= stops[n].start
    BY <2>3, <2>4, <2>6, PlanOfStops
  <2>7. ASSUME mine = {}, NEW n \in 1..N
        PROVE  ~itinerary[n].warning
    <3>1. n \in DOMAIN order /\ order \in InOrder(events, {})
      BY <2>1, <2>3, <2>7
    <3>2. CASE events = {}
      <4>1. Planned(order, StopsOf(events, mine))
        BY <2>1, <3>1, <2>7, SortedByStart DEF ConInv
      <4>2. order[n] \in StopsOf({}, {})
        BY <2>7, <3>1, <3>2, <4>1 DEF Planned
      <4> QED BY <4>2 DEF StopsOf
    <3>3. CASE events # {}
      <4>1. PICK anchor \in Corpus : events \in Nights(anchor)
        BY <2>1, <3>3
      <4> QED BY <2>1, <2>2, <2>4, <3>1, <4>1, PlanOfEvents
    <3> QED BY <3>2, <3>3
  <2> QED BY <2>4, <2>5, <2>6, <2>7 DEF PlanKeepsTime, EndsAt
<1> QED BY <1>1, <1>2

\* A plan without a warning can be kept, and a plan of events alone needs none, for
\* any events, stops and distances: sequence_itinerary, _portable_stops.
THEOREM PlansCanBeKept == ConciergeSpec => []PlanKeepsTime
<1>1. ConInv /\ [ConciergeNext]_conVars => ConInv'
  <2> SUFFICES ASSUME ConInv, [ConciergeNext]_conVars PROVE ConInv'
    OBVIOUS
  <2>1. CASE BuildItinerary
    BY <2>1, BuildInv
  <2>2. CASE UNCHANGED conVars
    <3>1. listed' = listed /\ mine' = mine /\ itinerary' = itinerary
      BY <2>2 DEF conVars
    <3>2. \A a : Nights(a)' = Nights(a)
      BY <3>1 DEF Nights, BeforeAnchor, AfterAnchor, SameNight, Support, Near
    <3> QED BY <3>1, <3>2 DEF ConInv
  <2> QED BY <2>1, <2>2 DEF ConciergeNext, ConciergeAnswered
<1> QED BY <1>1, ConInitInv, PlanOfInv, PTL DEF ConciergeSpec

-----------------------------------------------------------------------------
(***************************************************************************)
(* Recommendations: the pages in a row are the ranking, up to ties.        *)
(***************************************************************************)

\* The pairs of a strict total order.
StrictTotal(R, S) ==
    /\ \A a \in S : <<a, a>> \notin R
    /\ \A a, b \in S : a # b => <<a, b>> \in R \/ <<b, a>> \in R
    /\ \A a, b, c \in S : <<a, b>> \in R /\ <<b, c>> \in R => <<a, c>> \in R

\* How many stand before an element.
Preceding(i, S, R) == {j \in S : <<j, i>> \in R}

Place(i, S, R) == Cardinality(Preceding(i, S, R))

IsListOf(o, S, R) ==
    /\ o \in [1..Cardinality(S) -> S]
    /\ \A n \in 1..Cardinality(S) : o[n] \in S /\ Place(o[n], S, R) = n - 1
    /\ \A i \in S : Place(i, S, R) + 1 \in 1..Cardinality(S) /\ o[Place(i, S, R) + 1] = i

AheadPairs(S, score) == {p \in S \X S : Ahead(p[1], p[2], score)}

StaysPairs(S, score) == {p \in S \X S : StaysAhead(p[1], p[2], score)}

-----------------------------------------------------------------------------
(* Counting what stands before. *)

LEMMA PlaceBounded ==
    ASSUME NEW S, IsFiniteSet(S), NEW R, StrictTotal(R, S), NEW i \in S
    PROVE  /\ Place(i, S, R) \in Nat /\ Cardinality(S) \in Nat
           /\ Place(i, S, R) < Cardinality(S) /\ IsFiniteSet(Preceding(i, S, R))
<1>1. PICK B : B = Preceding(i, S, R)
  OBVIOUS
<1>2. B \subseteq S \ {i}
  BY <1>1 DEF Preceding, StrictTotal
<1>3. IsFiniteSet(S \ {i}) /\ Cardinality(S \ {i}) = Cardinality(S) - 1
  BY FS_RemoveElement
<1>4. Cardinality(S) \in Nat /\ Cardinality(S \ {i}) \in Nat
  BY <1>3, FS_CardinalityType
<1>5. IsFiniteSet(B) /\ Cardinality(B) <= Cardinality(S \ {i})
  BY <1>2, <1>3, FS_Subset
<1>6. Cardinality(B) \in Nat
  BY <1>5, FS_CardinalityType
<1> QED BY <1>1, <1>3, <1>4, <1>5, <1>6 DEF Place

\* A set with an element that another set, which holds it, is without.
LEMMA FewerThan ==
    ASSUME NEW B, IsFiniteSet(B), NEW A, A \subseteq B, NEW x \in B, x \notin A
    PROVE  /\ Cardinality(A) \in Nat /\ Cardinality(B) \in Nat
           /\ Cardinality(A) < Cardinality(B)
<1>1. IsFiniteSet(B \ {x}) /\ Cardinality(B \ {x}) = Cardinality(B) - 1
  BY FS_RemoveElement
<1>2. A \subseteq B \ {x}
  OBVIOUS
<1>3. IsFiniteSet(A) /\ Cardinality(A) <= Cardinality(B \ {x})
  BY <1>1, <1>2, FS_Subset
<1>4. Cardinality(A) \in Nat /\ Cardinality(B) \in Nat
  BY <1>3, FS_CardinalityType
<1> QED BY <1>1, <1>3, <1>4

LEMMA PlaceGrows ==
    ASSUME NEW S, IsFiniteSet(S), NEW R, StrictTotal(R, S), NEW a \in S, NEW b \in S,
           <<a, b>> \in R
    PROVE  Place(a, S, R) < Place(b, S, R)
<1>1. PICK A, B : A = Preceding(a, S, R) /\ B = Preceding(b, S, R)
  OBVIOUS
<1>2. IsFiniteSet(B)
  BY <1>1, PlaceBounded
<1>3. A \subseteq B /\ a \in B /\ a \notin A
  BY <1>1 DEF Preceding, StrictTotal
<1> QED BY <1>1, <1>2, <1>3, FewerThan DEF Place

\* The places tell the elements apart, and in which order they stand.
LEMMA PlacesDecide ==
    ASSUME NEW S, IsFiniteSet(S), NEW R, StrictTotal(R, S), NEW a \in S, NEW b \in S
    PROVE  /\ Place(a, S, R) = Place(b, S, R) => a = b
           /\ Place(a, S, R) < Place(b, S, R) => <<a, b>> \in R
<1>1. PICK m \in Nat, n \in Nat : m = Place(a, S, R) /\ n = Place(b, S, R)
  BY PlaceBounded
<1>2. <<a, b>> \in R => m < n
  BY <1>1, PlaceGrows
<1>3. <<b, a>> \in R => n < m
  BY <1>1, PlaceGrows
<1>4. a = b \/ <<a, b>> \in R \/ <<b, a>> \in R
  BY DEF StrictTotal
<1>5. a = b => m = n
  BY <1>1
<1> QED BY <1>1, <1>2, <1>3, <1>4, <1>5

LEMMA EveryPlaceTaken ==
    ASSUME NEW S, IsFiniteSet(S), NEW R, StrictTotal(R, S), NEW n \in 1..Cardinality(S)
    PROVE  \E i \in S : Place(i, S, R) = n - 1
<1>1. PICK c \in Nat : c = Cardinality(S)
  BY FS_CardinalityType
<1>2. PICK T : T = 0..(c - 1)
  OBVIOUS
<1>3. PICK f : f = [i \in S |-> Place(i, S, R)]
  OBVIOUS
<1>4. \A i \in S : f[i] \in T
  BY <1>1, <1>2, <1>3, PlaceBounded
<1>5. \A i, k \in S : f[i] = f[k] => i = k
  BY <1>3, PlacesDecide
<1>6. f \in Injection(S, T)
  BY <1>3, <1>4, <1>5 DEF Injection, IsInjective
<1>7. IsFiniteSet(T) /\ Cardinality(T) = c
  <2>1. 0 \in Int /\ c - 1 \in Int
    BY <1>1
  <2>2. /\ IsFiniteSet(0..(c - 1))
        /\ Cardinality(0..(c - 1)) = IF 0 > c - 1 THEN 0 ELSE (c - 1) - 0 + 1
    BY <2>1, FS_Interval
  <2> QED BY <1>1, <1>2, <2>2
<1>8. f \in Surjection(S, T)
  BY <1>1, <1>6, <1>7, FS_Injection
<1>9. n - 1 \in T
  BY <1>1, <1>2
<1> QED BY <1>3, <1>8, <1>9 DEF Surjection

LEMMA ArrangedIsList ==
    ASSUME NEW S, IsFiniteSet(S), NEW R, StrictTotal(R, S)
    PROVE  IsListOf(Arranged(S, R), S, R)
<1>1. PICK c, o : c \in Nat /\ c = Cardinality(S) /\ o = Arranged(S, R)
  BY FS_CardinalityType
<1>2. o = [n \in 1..c |-> CHOOSE i \in S : Cardinality({j \in S : <<j, i>> \in R}) = n - 1]
  BY <1>1 DEF Arranged
<1>3. o = [n \in 1..c |-> CHOOSE i \in S : Place(i, S, R) = n - 1]
  BY <1>2 DEF Place, Preceding
<1>4. ASSUME NEW n \in 1..c PROVE o[n] \in S /\ Place(o[n], S, R) = n - 1
  <2>1. \E i \in S : Place(i, S, R) = n - 1
    BY <1>1, EveryPlaceTaken
  <2>2. o[n] = CHOOSE i \in S : Place(i, S, R) = n - 1
    BY <1>3
  <2> QED BY <2>1, <2>2
<1>5. ASSUME NEW i \in S PROVE Place(i, S, R) + 1 \in 1..c /\ o[Place(i, S, R) + 1] = i
  <2>1. PICK m \in Nat : m = Place(i, S, R) /\ m < c
    BY <1>1, PlaceBounded
  <2>2. m + 1 \in 1..c /\ (m + 1) - 1 = m
    BY <1>1, <2>1
  <2>3. o[m + 1] \in S /\ Place(o[m + 1], S, R) = m
    BY <1>4, <2>2
  <2>4. o[m + 1] = i
    BY <2>1, <2>3, PlacesDecide
  <2> QED BY <2>1, <2>2, <2>4
<1>6. o \in [1..c -> S]
  BY <1>3, <1>4
<1> QED BY <1>1, <1>4, <1>5, <1>6 DEF IsListOf

LEMMA ListsOnce ==
    ASSUME NEW S, IsFiniteSet(S), NEW R, NEW o, IsListOf(o, S, R),
           NEW n \in 1..Cardinality(S), NEW k \in 1..Cardinality(S), o[n] = o[k]
    PROVE  n = k
<1>1. n - 1 = k - 1
  BY DEF IsListOf
<1>2. n \in Int /\ k \in Int
  OBVIOUS
<1> QED BY <1>1, <1>2

-----------------------------------------------------------------------------
(* The orders of the ranking. *)

\* What the orders compare.
Comparable(S, score) ==
    \A i \in S : i \in Nat /\ score[i] \in Int /\ Raw[i] \in Int /\ corpus[i].start \in Nat

LEMMA AheadIsTotal ==
    ASSUME NEW S, NEW score, Comparable(S, score)
    PROVE  StrictTotal(AheadPairs(S, score), S)
<1>1. \A a, b \in S : <<a, b>> \in AheadPairs(S, score) <=> Ahead(a, b, score)
  BY DEF AheadPairs
<1>2. \A a \in S : ~Ahead(a, a, score)
  BY DEF Ahead, Better, Tied, Comparable
<1>3. \A a, b \in S : a # b => Ahead(a, b, score) \/ Ahead(b, a, score)
  BY DEF Ahead, Better, Tied, Comparable
<1>4. \A a, b, c \in S : Ahead(a, b, score) /\ Ahead(b, c, score) => Ahead(a, c, score)
  BY DEF Ahead, Better, Tied, Comparable
<1> QED BY <1>1, <1>2, <1>3, <1>4 DEF StrictTotal

LEMMA StaysIsTotal ==
    ASSUME NEW S, NEW score, Comparable(S, score)
    PROVE  StrictTotal(StaysPairs(S, score), S)
<1>1. \A a, b \in S : <<a, b>> \in StaysPairs(S, score) <=> StaysAhead(a, b, score)
  BY DEF StaysPairs
<1>2. /\ \A a \in S : ~Ahead(a, a, Raw)
      /\ \A a, b \in S : a # b => Ahead(a, b, Raw) \/ Ahead(b, a, Raw)
      /\ \A a, b, c \in S : Ahead(a, b, Raw) /\ Ahead(b, c, Raw) => Ahead(a, c, Raw)
  <2>1. Comparable(S, Raw)
    BY DEF Comparable
  <2>2. StrictTotal(AheadPairs(S, Raw), S)
    BY <2>1, AheadIsTotal
  <2>3. \A a, b \in S : <<a, b>> \in AheadPairs(S, Raw) <=> Ahead(a, b, Raw)
    BY DEF AheadPairs
  <2> QED BY <2>2, <2>3 DEF StrictTotal
<1>3. \A a \in S : ~StaysAhead(a, a, score)
  BY <1>2 DEF StaysAhead, Better, Tied, Comparable
<1>4. \A a, b \in S : a # b => StaysAhead(a, b, score) \/ StaysAhead(b, a, score)
  BY <1>2 DEF StaysAhead, Better, Tied, Comparable
<1>5. \A a, b, c \in S : StaysAhead(a, b, score) /\ StaysAhead(b, c, score)
                            => StaysAhead(a, c, score)
  BY <1>2 DEF StaysAhead, Better, Tied, Comparable
<1> QED BY <1>1, <1>3, <1>4, <1>5 DEF StrictTotal

\* Of two orders that both put the better first, neither puts a better element
\* where the other has a worse.
LEMMA BetterComesSooner ==
    ASSUME NEW S, IsFiniteSet(S), NEW score, Comparable(S, score),
           NEW R, StrictTotal(R, S), NEW Q, StrictTotal(Q, S),
           \A x, y \in S : Better(x, y, score) => <<x, y>> \in R /\ <<x, y>> \in Q,
           NEW a \in S, NEW b \in S, Better(a, b, score)
    PROVE  Place(a, S, R) < Place(b, S, Q)
<1>1. PICK A, B : A = Preceding(a, S, R) /\ B = Preceding(b, S, Q)
  OBVIOUS
<1>2. IsFiniteSet(B)
  BY <1>1, PlaceBounded
<1>3. \A j \in S : <<j, a>> \in R => ~Better(a, j, score)
  BY DEF StrictTotal
<1>4. ~Better(a, a, score)
  BY DEF Better, Comparable
<1>5. \A j \in S : ~Better(a, j, score) => Better(j, b, score)
  BY DEF Better, Comparable
<1>6. A \subseteq B
  BY <1>1, <1>3, <1>5 DEF Preceding
<1>7. a \in B
  BY <1>1 DEF Preceding
<1>8. a \notin A
  BY <1>1 DEF Preceding, StrictTotal
<1> QED BY <1>1, <1>2, <1>6, <1>7, <1>8, FewerThan DEF Place

LEMMA SamePlaceIsTied ==
    ASSUME NEW S, IsFiniteSet(S), NEW score, Comparable(S, score),
           NEW a \in S, NEW b \in S,
           Place(a, S, AheadPairs(S, score)) = Place(b, S, StaysPairs(S, score))
    PROVE  Tied(a, b, score)
<1>1. PICK R, Q : R = AheadPairs(S, score) /\ Q = StaysPairs(S, score)
  OBVIOUS
<1>2. StrictTotal(R, S) /\ StrictTotal(Q, S)
  BY <1>1, AheadIsTotal, StaysIsTotal
<1>3. \A x, y \in S : Better(x, y, score) => <<x, y>> \in R /\ <<x, y>> \in Q
  BY <1>1 DEF AheadPairs, StaysPairs, Ahead, StaysAhead
<1>4. PICK m \in Nat : m = Place(a, S, R) /\ m = Place(b, S, Q)
  BY <1>1, <1>2, PlaceBounded
<1>5. ~Better(a, b, score)
  <2>1. ASSUME Better(a, b, score) PROVE FALSE
    <3>1. Place(a, S, R) < Place(b, S, Q)
      BY <1>2, <1>3, <2>1, BetterComesSooner
    <3> QED BY <1>4, <3>1
  <2> QED BY <2>1
<1>6. ~Better(b, a, score)
  <2>1. ASSUME Better(b, a, score) PROVE FALSE
    <3>1. Place(b, S, Q) < Place(a, S, R)
      BY <1>2, <1>3, <2>1, BetterComesSooner
    <3> QED BY <1>4, <3>1
  <2> QED BY <2>1
<1> QED BY <1>5, <1>6 DEF Better, Tied, Comparable

-----------------------------------------------------------------------------
(* The window function and the walk give the same scores. *)

LEMMA PenaltiesAgree ==
    ASSUME NEW S, IsFiniteSet(S), Comparable(S, Raw)
    PROVE  Walked(S) = Penalised(S)
<1>1. PICK R, o : R = AheadPairs(S, Raw) /\ o = Arranged(S, R)
  OBVIOUS
<1>2. StrictTotal(R, S) /\ IsListOf(o, S, R)
  BY <1>1, AheadIsTotal, ArrangedIsList
<1>3. PICK c \in Nat : c = Cardinality(S)
  BY FS_CardinalityType
<1>4. o = Ranked(S, Raw) /\ DOMAIN o = 1..c
  BY <1>1, <1>2, <1>3 DEF Ranked, AheadPairs, IsListOf
<1>5. PICK prev : prev = [n \in 1..c |-> IF n = 1 THEN "" ELSE corpus[o[n - 1]].category]
  OBVIOUS
<1>6. ASSUME NEW i \in S
      PROVE  Walked(S)[i] = Penalised(S)[i]
  <2>1. PICK n \in Nat : n = Place(i, S, R) /\ n + 1 \in 1..c /\ o[n + 1] = i
    BY <1>2, <1>3, PlaceBounded DEF IsListOf
  <2>2. ASSUME NEW k \in 1..c, o[k] = i PROVE k = n + 1
    BY <1>2, <1>3, <2>1, <2>2, ListsOnce
  <2>3. (CHOOSE k \in DOMAIN o : o[k] = i) = n + 1
    BY <1>4, <2>1, <2>2
  <2>4. Walked(S)[i] = IF corpus[i].category # "" /\ corpus[i].category = prev[n + 1]
                       THEN Raw[i] - Penalty ELSE Raw[i]
    BY <1>4, <1>5, <2>3 DEF Walked
  <2>5. PICK B : B = {j \in S : Ahead(j, i, Raw)}
    OBVIOUS
  <2>6. \A a, b \in S : <<a, b>> \in R <=> Ahead(a, b, Raw)
    BY <1>1 DEF AheadPairs
  <2>7. B = Preceding(i, S, R)
    BY <2>5, <2>6 DEF Preceding
  <2>8. PICK last : last = CHOOSE j \in B : \A k \in B \ {j} : Ahead(k, j, Raw)
    OBVIOUS
  <2>9. Penalised(S)[i] = IF /\ B # {}
                             /\ corpus[i].category # ""
                             /\ corpus[last].category = corpus[i].category
                          THEN Raw[i] - Penalty ELSE Raw[i]
    BY <2>5, <2>8 DEF Penalised
  <2>10. IsFiniteSet(B) /\ Cardinality(B) = n
    BY <1>2, <2>1, <2>7, PlaceBounded DEF Place
  <2>11. CASE n = 0
    <3>1. B = {}
      BY <2>10, <2>11, FS_EmptySet
    <3>2. prev[n + 1] = ""
      <4>1. n + 1 = 1 /\ 1 \in 1..c
        BY <2>1, <2>11
      <4>2. prev[1] = ""
        BY <1>5, <4>1
      <4> QED BY <4>1, <4>2
    <3> QED BY <2>4, <2>9, <3>1, <3>2
  <2>12. CASE n # 0
    <3>1. n \in 1..c /\ n + 1 # 1 /\ (n + 1) - 1 = n
      BY <2>1, <2>12
    <3>2. PICK q : q = o[n]
      OBVIOUS
    <3>3. prev[n + 1] = corpus[q].category
      BY <1>5, <2>1, <3>1, <3>2
    <3>4. q \in S /\ Place(q, S, R) = n - 1
      BY <1>2, <1>3, <3>1, <3>2 DEF IsListOf
    <3>5. q \in B
      <4>1. Place(q, S, R) < Place(i, S, R)
        BY <2>1, <3>4
      <4>2. <<q, i>> \in R
        BY <1>2, <3>4, <4>1, PlacesDecide
      <4> QED BY <2>7, <3>4, <4>2 DEF Preceding
    <3>6. ASSUME NEW k \in B \ {q} PROVE Ahead(k, q, Raw)
      <4>1. k \in S /\ <<k, i>> \in R /\ k # q
        BY <2>7 DEF Preceding
      <4>2. PICK m \in Nat : m = Place(k, S, R)
        BY <1>2, <4>1, PlaceBounded
      <4>3. m < n
        BY <1>2, <2>1, <4>1, <4>2, PlaceGrows
      <4>4. m # n - 1
        BY <1>2, <3>4, <4>1, <4>2, PlacesDecide
      <4>5. m < n - 1
        BY <2>12, <4>3, <4>4
      <4>6. <<k, q>> \in R
        BY <1>2, <3>4, <4>1, <4>2, <4>5, PlacesDecide
      <4> QED BY <2>6, <3>4, <4>1, <4>6
    <3>7. ASSUME NEW j \in B, \A k \in B \ {j} : Ahead(k, j, Raw) PROVE j = q
      <4>1. ASSUME j # q PROVE FALSE
        <5>1. Ahead(q, j, Raw) /\ Ahead(j, q, Raw)
          BY <3>5, <3>6, <3>7, <4>1
        <5>2. j \in S
          BY <2>5
        <5>3. <<q, j>> \in R /\ <<j, q>> \in R
          BY <2>6, <3>4, <5>1, <5>2
        <5> QED BY <1>2, <3>4, <5>2, <5>3 DEF StrictTotal
      <4> QED BY <4>1
    <3>8. last = q
      BY <2>8, <3>5, <3>6, <3>7
    <3>9. B # {}
      BY <3>5
    <3> QED BY <2>4, <2>9, <3>3, <3>8, <3>9
  <2> QED BY <2>11, <2>12
<1>7. Walked(S) = [i \in S |-> Walked(S)[i]]
  BY DEF Walked
<1>8. Penalised(S) = [i \in S |-> Penalised(S)[i]]
  BY DEF Penalised
<1> QED BY <1>6, <1>7, <1>8

-----------------------------------------------------------------------------
(* The pages. *)

Entry == [id : Candidates, score : Int]

\* The whole ranking of the query.
WholeRanking ==
    [n \in 1..Cardinality(Recommendable) |->
        [id |-> Ranked(Recommendable, Penalised(Recommendable))[n],
         score |-> Penalised(Recommendable)[Ranked(Recommendable, Penalised(Recommendable))[n]]]]

RecInv ==
    /\ corpus \in [Candidates -> [score : RawScores, category : Categories,
                                  start : {1, 2}, matched : BOOLEAN]]
    /\ limit \in Limits
    /\ pages \in Seq(Entry)
    /\ Len(pages) <= Cardinality(Recommendable)
    /\ \A n \in 1..Len(pages) : pages[n] = WholeRanking[n]

LEMMA CorpusTells ==
    ASSUME RecInv
    PROVE  /\ Recommendable \subseteq Candidates /\ IsFiniteSet(Recommendable)
           /\ Comparable(Recommendable, Raw)
           /\ Comparable(Recommendable, Penalised(Recommendable))
           /\ Cardinality(Recommendable) \in Nat
<1>1. Recommendable \subseteq Candidates
  BY DEF Recommendable
<1>2. IsFiniteSet(Recommendable) /\ Cardinality(Recommendable) \in Nat
  BY <1>1, RecommendationsAssumption, FS_Subset, FS_CardinalityType
<1>3. ASSUME NEW i \in Candidates
      PROVE  i \in Nat /\ Raw[i] \in Int /\ corpus[i].start \in Nat
  <2>1. corpus[i].score \in RawScores /\ corpus[i].start \in {1, 2}
    BY DEF RecInv
  <2>2. corpus[i].start \in Nat
    BY <2>1
  <2>3. Raw[i] = corpus[i].score
    BY DEF Raw
  <2>4. Raw[i] \in Nat
    BY <2>1, <2>3, RecommendationsAssumption
  <2> QED BY <2>2, <2>4, RecommendationsAssumption
<1>4. ASSUME NEW i \in Recommendable PROVE Penalised(Recommendable)[i] \in Int
  <2>1. Penalised(Recommendable)[i] = Raw[i] \/ Penalised(Recommendable)[i] = Raw[i] - Penalty
    BY DEF Penalised
  <2>2. Penalty \in Nat /\ Raw[i] \in Int
    BY <1>1, <1>3, RecommendationsAssumption
  <2> QED BY <2>1, <2>2
<1> QED BY <1>1, <1>2, <1>3, <1>4 DEF Comparable

LEMMA RankingIsList ==
    ASSUME RecInv
    PROVE  IsListOf(Ranked(Recommendable, Penalised(Recommendable)), Recommendable,
                    AheadPairs(Recommendable, Penalised(Recommendable)))
<1>1. PICK S, score : S = Recommendable /\ score = Penalised(Recommendable)
  OBVIOUS
<1>2. IsFiniteSet(S) /\ Comparable(S, score)
  BY <1>1, CorpusTells
<1>3. StrictTotal(AheadPairs(S, score), S)
  BY <1>2, AheadIsTotal
<1>4. IsListOf(Arranged(S, AheadPairs(S, score)), S, AheadPairs(S, score))
  BY <1>2, <1>3, ArrangedIsList
<1>5. Ranked(S, score) = Arranged(S, AheadPairs(S, score))
  BY DEF Ranked, AheadPairs
<1> QED BY <1>1, <1>4, <1>5

\* A page is the part of the ranking that follows.
LEMMA PageIsNext ==
    ASSUME RecInv
    PROVE  \E k \in Nat :
              /\ Len(pages) <= k /\ k <= Cardinality(Recommendable)
              /\ PageAt(Len(pages)) = [n \in 1..(k - Len(pages)) |-> WholeRanking[Len(pages) + n]]
<1>1. PICK c \in Nat, l \in Nat, off \in Nat :
         c = Cardinality(Recommendable) /\ l = limit /\ off = Len(pages) /\ off <= c
  BY SMTT(30), CorpusTells, RecommendationsAssumption DEF RecInv
<1>2. PICK score, o : score = Penalised(Recommendable) /\ o = Ranked(Recommendable, score)
  OBVIOUS
<1>3. DOMAIN o = 1..c /\ \A n \in 1..c : o[n] \in Recommendable
  BY <1>1, <1>2, RankingIsList DEF IsListOf
<1>4. o \in Seq(Recommendable) /\ Len(o) = c
  <2>2. o \in [1..c -> Recommendable]
    BY <1>1, <1>2, RankingIsList DEF IsListOf
  <2>3. \A T : \A h \in [1..c -> T] : h \in Seq(T) /\ Len(h) = c
    BY <1>1
  <2> QED BY <2>2, <2>3
<1>5. PICK k \in Nat : k = Min({off + l, c}) /\ off <= k /\ k <= c
  <2>1. PICK s \in Nat : s = off + l /\ off <= s
    BY <1>1
  <2>2. Min({s, c}) \in {s, c} /\ Min({s, c}) <= s /\ Min({s, c}) <= c
    <3>1. PICK m : m \in {s, c} /\ \A y \in {s, c} : m <= y
      BY <1>1, <2>1
    <3>2. \E x \in {s, c} : \A y \in {s, c} : x =< y
      BY <3>1
    <3>3. Min({s, c}) \in {s, c} /\ \A y \in {s, c} : Min({s, c}) =< y
      BY <3>2 DEF Min
    <3> QED BY <3>3
  <2>3. Min({s, c}) = s \/ Min({s, c}) = c
    BY <2>2
  <2> QED BY <1>1, <2>1, <2>2, <2>3
<1>6. PICK cut : cut = SubSeq(o, off + 1, k)
  OBVIOUS
<1>7. PageAt(off) = [n \in DOMAIN cut |-> [id |-> cut[n], score |-> score[cut[n]]]]
  BY <1>1, <1>2, <1>4, <1>5, <1>6 DEF PageAt, Cut
<1>8. DOMAIN cut = 1..(k - off) /\ \A n \in 1..(k - off) : cut[n] = o[off + n]
  <2>1. PICK a \in Nat : a = off + 1
    <3>1. off + 1 \in Nat
      BY <1>1
    <3> QED BY <3>1
  <2>2. PICK m \in Nat : m = k - off
    <3>1. k - off \in Nat
      BY <1>5
    <3> QED BY <3>1
  <2>3. \A n \in a..k : o[n] \in Recommendable
    BY <1>1, <1>3, <1>5, <2>1
  <2>4. /\ Len(cut) = (IF a <= k THEN k - a + 1 ELSE 0)
        /\ \A n \in 1..(k - a + 1) : cut[n] = o[a + n - 1]
        /\ cut \in Seq(Recommendable)
    <3>1. a \in Int /\ k \in Int
      BY <2>1
    <3> QED BY <1>6, <2>1, <2>3, <3>1, SubSeqProperties
  <2>5. k - a + 1 = m /\ (a <= k \/ m = 0)
    BY <1>1, <1>5, <2>1, <2>2
  <2>7. Len(cut) = m
    BY <2>4, <2>5
  <2>8. \A n \in 1..m : a + n - 1 = off + n
    BY <1>1, <2>1
  <2>9. DOMAIN cut = 1..m
    BY <2>4, <2>7
  <2>10. \A n \in 1..m : cut[n] = o[off + n]
    BY <2>4, <2>5, <2>8
  <2> QED BY <2>2, <2>9, <2>10
<1>9. ASSUME NEW n \in 1..(k - off)
      PROVE  [id |-> cut[n], score |-> score[cut[n]]] = WholeRanking[off + n]
  <2>1. off + n \in 1..c
    BY <1>1, <1>5
  <2>2. WholeRanking[off + n] = [id |-> o[off + n], score |-> score[o[off + n]]]
    BY <1>1, <1>2, <2>1 DEF WholeRanking
  <2> QED BY <1>8, <2>2
<1>10. PageAt(off) = [n \in 1..(k - off) |-> WholeRanking[off + n]]
  BY <1>7, <1>8, <1>9
<1> QED BY <1>1, <1>5, <1>10

LEMMA RankedEntries ==
    ASSUME RecInv, NEW n \in 1..Cardinality(Recommendable)
    PROVE  WholeRanking[n] \in Entry
<1>1. PICK S, score, o : S = Recommendable /\ score = Penalised(S) /\ o = Ranked(S, score)
  OBVIOUS
<1>2. o[n] \in S
  BY <1>1, RankingIsList DEF IsListOf
<1>3. score[o[n]] \in Int /\ o[n] \in Candidates
  BY <1>1, <1>2, CorpusTells DEF Comparable
<1>4. WholeRanking[n] = [id |-> o[n], score |-> score[o[n]]]
  BY <1>1 DEF WholeRanking
<1> QED BY <1>3, <1>4 DEF Entry

LEMMA RecInitInv == RecommendationsInit => RecInv
<1> SUFFICES ASSUME RecommendationsInit PROVE RecInv
  OBVIOUS
<1>1. pages = <<>> /\ Len(<<>>) = 0 /\ <<>> \in Seq(Entry)
  BY DEF RecommendationsInit
<1>2. Recommendable \subseteq Candidates
  BY DEF Recommendable
<1>3. Cardinality(Recommendable) \in Nat
  BY <1>2, RecommendationsAssumption, FS_Subset, FS_CardinalityType
<1>4. \A n \in 1..0 : FALSE
  OBVIOUS
<1> QED BY <1>1, <1>3, <1>4 DEF RecInv, RecommendationsInit

LEMMA RecStepInv == RecInv /\ [RecommendationsNext]_recVars => RecInv'
<1> SUFFICES ASSUME RecInv, [RecommendationsNext]_recVars PROVE RecInv'
  OBVIOUS
<1>1. corpus' = corpus /\ limit' = limit
  BY DEF RecommendationsNext, NextPage, LastPage, recVars
<1>2. Recommendable' = Recommendable
  BY <1>1 DEF Recommendable
<1>3. WholeRanking' = WholeRanking
  BY <1>1 DEF WholeRanking, Recommendable, Ranked, Arranged, Penalised, Ahead, Better, Tied, Raw
<1>4. CASE pages' = pages
  BY <1>1, <1>2, <1>3, <1>4 DEF RecInv
<1>5. CASE NextPage
  <2>1. PICK off \in Nat, c \in Nat : off = Len(pages) /\ c = Cardinality(Recommendable)
    BY CorpusTells DEF RecInv
  <2>2. PICK k \in Nat :
           /\ off <= k /\ k <= c
           /\ PageAt(off) = [n \in 1..(k - off) |-> WholeRanking[off + n]]
    BY <2>1, PageIsNext
  <2>3. PICK page : page = PageAt(off)
    OBVIOUS
  <2>4. PICK m \in Nat : m = k - off
    <3>1. k - off \in Nat
      BY <2>2
    <3> QED BY <3>1
  <2>5. \A n \in 1..m : off + n \in 1..c
    BY <2>1, <2>2, <2>4
  <2>6. page \in [1..m -> Entry]
    BY <2>1, <2>2, <2>3, <2>4, <2>5, RankedEntries
  <2>7. page \in Seq(Entry) /\ Len(page) = m
    <3>1. \A T : \A h \in [1..m -> T] : h \in Seq(T) /\ Len(h) = m
      BY <2>4
    <3> QED BY <2>6, <3>1
  <2>8. pages \in Seq(Entry) /\ pages' = pages \o page
    BY <1>5, <2>1, <2>3 DEF NextPage, RecInv
  <2>9. pages' \in Seq(Entry) /\ Len(pages') = off + m
    BY <2>1, <2>7, <2>8, ConcatProperties
  <2>10. ASSUME NEW n \in 1..(off + m) PROVE pages'[n] = WholeRanking[n]
    <3>1. CASE n \in 1..off
      <4>1. pages'[n] = pages[n]
        BY <2>1, <2>7, <2>8, <3>1, ConcatProperties
      <4> QED BY <2>1, <3>1, <4>1 DEF RecInv
    <3>2. CASE n \notin 1..off
      <4>1. n - off \in 1..m /\ off + (n - off) = n
        BY <2>1, <2>4, <3>2
      <4>2. pages'[n] = page[n - off]
        BY <2>1, <2>4, <2>7, <2>8, <3>2, ConcatProperties
      <4>3. page[n - off] = WholeRanking[off + (n - off)]
        BY <2>2, <2>3, <2>4, <4>1
      <4> QED BY <4>1, <4>2, <4>3
    <3> QED BY <3>1, <3>2
  <2>11. off + m <= c
    BY <2>1, <2>2, <2>4
  <2> QED BY <1>1, <1>2, <1>3, <2>1, <2>9, <2>10, <2>11 DEF RecInv
<1> QED BY <1>4, <1>5 DEF RecommendationsNext, LastPage, recVars

LEMMA RecInvTells == RecInv => PagesAreTheRanking
<1> SUFFICES ASSUME RecInv PROVE PagesAreTheRanking
  OBVIOUS
<1>1. PICK S, score : S = Recommendable /\ score = Penalised(S)
  OBVIOUS
<1>2. /\ IsFiniteSet(S) /\ Comparable(S, Raw) /\ Comparable(S, score)
  BY <1>1, CorpusTells
<1>3. PICK c \in Nat : c = Cardinality(S)
  BY <1>1, CorpusTells
<1>4. PICK o, l : o = Ranked(S, score) /\ l = Arranged(S, StaysPairs(S, score))
  OBVIOUS
<1>5. IsListOf(o, S, AheadPairs(S, score))
  BY <1>1, <1>4, RankingIsList
<1>6. IsListOf(l, S, StaysPairs(S, score))
  BY <1>2, <1>4, StaysIsTotal, ArrangedIsList
<1>7. Walked(S) = score
  BY <1>1, <1>2, PenaltiesAgree
<1>8. PICK whole : whole = ScoreEvents(S)
  OBVIOUS
<1>9. whole = [n \in 1..c |-> [id |-> l[n], score |-> score[l[n]]]]
  <2>1. DOMAIN l = 1..c
    BY <1>3, <1>6 DEF IsListOf
  <2> QED BY <1>4, <1>7, <1>8, <2>1 DEF ScoreEvents, StaysPairs
<1>10. /\ DOMAIN pages = 1..Len(pages)
       /\ \A n \in DOMAIN pages : /\ n \in 1..c
                                  /\ pages[n] = [id |-> o[n], score |-> score[o[n]]]
  <2>1. Len(pages) \in Nat /\ Len(pages) <= c /\ DOMAIN pages = 1..Len(pages)
    BY <1>1, <1>3 DEF RecInv
  <2>2. \A n \in 1..c : WholeRanking[n] = [id |-> o[n], score |-> score[o[n]]]
    BY <1>1, <1>3, <1>4 DEF WholeRanking
  <2>3. \A n \in 1..Len(pages) : n \in 1..c
    BY <1>3, <2>1
  <2>4. \A n \in 1..Len(pages) : pages[n] = WholeRanking[n]
    BY DEF RecInv
  <2> QED BY <2>1, <2>2, <2>3, <2>4
<1>11. ASSUME NEW n \in DOMAIN pages, NEW k \in DOMAIN pages, pages[n].id = pages[k].id
       PROVE  n = k
  <2>1. o[n] = o[k] /\ n \in 1..c /\ k \in 1..c
    BY <1>10, <1>11
  <2> QED BY <1>2, <1>3, <1>5, <2>1, ListsOnce
<1>12. ASSUME NEW n \in DOMAIN pages
       PROVE  /\ \E k \in DOMAIN whole : whole[k] = pages[n]
              /\ n \in DOMAIN whole
              /\ whole[n].score = pages[n].score
              /\ corpus[whole[n].id].start = corpus[pages[n].id].start
  <2>1. n \in 1..c /\ pages[n] = [id |-> o[n], score |-> score[o[n]]] /\ DOMAIN whole = 1..c
    BY <1>9, <1>10
  <2>2. o[n] \in S /\ Place(o[n], S, AheadPairs(S, score)) = n - 1
    BY <1>3, <1>5, <2>1 DEF IsListOf
  <2>3. l[n] \in S /\ Place(l[n], S, StaysPairs(S, score)) = n - 1
    BY <1>3, <1>6, <2>1 DEF IsListOf
  <2>4. Tied(o[n], l[n], score)
    BY <1>2, <2>2, <2>3, SamePlaceIsTied
  <2>5. whole[n] = [id |-> l[n], score |-> score[l[n]]]
    BY <1>9, <2>1
  <2>6. PICK k \in 1..c : l[k] = o[n]
    BY <1>3, <1>6, <2>2 DEF IsListOf
  <2>7. whole[k] = pages[n]
    BY <1>9, <2>1, <2>6
  <2> QED BY <2>1, <2>4, <2>5, <2>6, <2>7 DEF Tied
<1> QED BY <1>1, <1>8, <1>11, <1>12 DEF PagesAreTheRanking

\* Cutting the ranking into pages changes nothing: the window function of the
\* query and the walk of the service penalise the same events, and the pages show
\* the list of the service, up to ties: get_recommendations, score_events.
THEOREM PagesMakeTheRanking == RecommendationsSpec => []PagesAreTheRanking
<1>1. RecommendationsInit => RecInv
  BY RecInitInv
<1>2. RecInv /\ [RecommendationsNext]_recVars => RecInv'
  BY RecStepInv
<1>3. RecInv => PagesAreTheRanking
  BY RecInvTells
<1> QED BY <1>1, <1>2, <1>3, PTL DEF RecommendationsSpec
=============================================================================
