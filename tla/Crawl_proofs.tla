----------------------------- MODULE Crawl_proofs -----------------------------
(***************************************************************************)
(* Theorems about what the connectors bring in, for any world of pages,    *)
(* listings and answers and any number of workers: vibe tags, geocoding,   *)
(* the outbound limiter, and the fetches of the listing sites and of       *)
(* Ticketmaster.                                                           *)
(***************************************************************************)
EXTENDS Crawl, TimeWindows

-----------------------------------------------------------------------------
(***************************************************************************)
(* Vibe tags: one choice for a description.                                *)
(***************************************************************************)

Tags == TagSets \cup {NoTags}

\* What the record of a run under way is made of.
IsTagRun(r) ==
    r = [stage |-> r.stage, batch |-> r.batch, todo |-> r.todo, asks |-> r.asks,
         answer |-> r.answer, prepared |-> r.prepared, unsaved |-> r.unsaved]

TagRunShape(r) ==
    /\ IsTagRun(r)
    /\ r.stage \in {"look up", "classify", "keep", "store"}
    /\ r.batch \in Seq(Descriptions)
    /\ r.todo \in Seq(Descriptions)
    /\ r.asks \in Seq(Descriptions)
    /\ r.answer \in [Descriptions -> Tags \cup {NotCached}]
    /\ r.prepared \in [Descriptions -> Tags]
    /\ r.unsaved \in [Descriptions -> TagSets \cup {NotCached}]

\* Where it is, and what that says of its answers and its uncommitted rows.
TagRunStage(r) ==
    /\ r.stage = "classify" => r.todo = r.asks
    /\ r.stage = "keep" => \A n \in DOMAIN r.todo : r.answer[r.todo[n]] # NotCached
    /\ r.stage # "keep" => \A d \in Descriptions : r.unsaved[d] = NotCached

\* What it goes on with is what is committed, or what it is about to commit
\* where nothing is; and all of that is an answer of the model.
TagRunKnows(r, saved, answers) ==
    \A d \in Descriptions :
        /\ r.answer[d] \in TagSets => r.answer[d] \in answers[d]
        /\ r.unsaved[d] # NotCached =>
              /\ r.unsaved[d] \in answers[d]
              /\ saved[d] = NotCached
              /\ r.answer[d] # NoTags
              /\ r.prepared[d] = r.unsaved[d]
        /\ r.prepared[d] # NoTags => r.prepared[d] \in {r.unsaved[d], saved[d]}

TagRunOk(r, saved, answers) ==
    r # AtRest => TagRunShape(r) /\ TagRunStage(r) /\ TagRunKnows(r, saved, answers)

Holds(r, d) == r # AtRest /\ r.unsaved[d] # NotCached

TagTypes ==
    /\ tagCache \in [Descriptions -> TagSets \cup {NotCached}]
    /\ tagRun = [w \in Taggers |-> tagRun[w]]
    /\ given = [d \in Descriptions |-> given[d]]
    /\ tagged \in [Descriptions -> SUBSET Tags]

TagInv ==
    /\ TagTypes
    /\ OneChoicePerDescription
    /\ \A w \in Taggers : TagRunOk(tagRun[w], tagCache, given)
    /\ \A w, v \in Taggers : w # v =>
          \A d \in Descriptions : ~(Holds(tagRun[w], d) /\ Holds(tagRun[v], d))

-----------------------------------------------------------------------------
LEMMA UnderWay == \A r : r.stage # "rest" => r # AtRest
BY DEF AtRest

\* A step changes fields of the record and adds none.
LEMMA LookedUp ==
    ASSUME NEW r, IsTagRun(r), NEW x, NEW a, NEW d, NEW p, NEW s,
           s = [r EXCEPT !.todo = x, !.prepared[d] = p, !.asks = a]
    PROVE  IsTagRun(s)
BY DEF IsTagRun

LEMMA Kept ==
    ASSUME NEW r, IsTagRun(r), NEW x, NEW d, NEW p, NEW u, NEW s,
           s = [r EXCEPT !.todo = x, !.prepared[d] = p, !.unsaved[d] = u]
    PROVE  IsTagRun(s)
BY DEF IsTagRun

LEMMA Stored ==
    ASSUME NEW r, IsTagRun(r), NEW g, NEW x, NEW u, NEW s,
           s = [r EXCEPT !.stage = g, !.todo = x, !.unsaved = u]
    PROVE  IsTagRun(s)
BY DEF IsTagRun

LEMMA Advanced ==
    ASSUME NEW r, IsTagRun(r), NEW g, NEW x, NEW s,
           s = [r EXCEPT !.todo = x] \/ s = [r EXCEPT !.stage = g, !.todo = x]
    PROVE  IsTagRun(s)
BY DEF IsTagRun

\* What is left of a sequence without its head.
TailOf(q, S) ==
    /\ 1 \in DOMAIN q /\ Head(q) = q[1] /\ Head(q) \in S
    /\ Tail(q) \in Seq(S)
    /\ \A n \in DOMAIN Tail(q) : n + 1 \in DOMAIN q /\ Tail(q)[n] = q[n + 1]

LEMMA TailFacts ==
    ASSUME NEW S, NEW q \in Seq(S), q # <<>>
    PROVE  TailOf(q, S)
<1>1. /\ Head(q) \in S /\ Tail(q) \in Seq(S) /\ Len(Tail(q)) = Len(q) - 1
      /\ \A n \in 1..Len(Tail(q)) : Tail(q)[n] = q[n + 1]
  BY HeadTailProperties
<1>2. Len(q) \in Nat /\ Len(q) >= 1 /\ DOMAIN q = 1..Len(q) /\ Head(q) = q[1]
  OBVIOUS
<1>3. Len(Tail(q)) \in Nat /\ DOMAIN Tail(q) = 1..Len(Tail(q))
  BY <1>1
<1> QED BY <1>1, <1>2, <1>3 DEF TailOf

\* When no call holds the semaphore, every call has ended.
LEMMA NothingInFlight ==
    ASSUME NEW w \in Taggers, tagRun[w].asks \in Seq(Descriptions), InFlight(w) = {}
    PROVE  Unanswered(tagRun[w]) = {}
<1> DEFINE U == Unanswered(tagRun[w])
<1>1. U \subseteq Nat
  BY DEF Unanswered
<1>2. SUFFICES ASSUME U # {} PROVE FALSE
  OBVIOUS
<1>3. PICK i \in U : \A j \in U : ~(<<j, i>> \in OpToRel(<, Nat))
  BY <1>1, <1>2, NatLessThanWellFounded, WFMin
<1>4. \A j \in U : ~(j < i)
  <2>1. \A j \in U : <<j, i>> \in Nat \X Nat
    BY <1>1
  <2>2. \A j \in U : <<j, i>> \in Nat \X Nat => ~(j < i)
    BY <1>3, Zenon DEF OpToRel
  <2> QED BY <2>1, <2>2
<1>5. {j \in U : j < i} = {}
  BY <1>4
<1>6. Cardinality({j \in U : j < i}) < TagConcurrency
  <2>1. Cardinality({}) = 0
    BY FS_EmptySet
  <2>2. 0 < TagConcurrency
    BY TagsAssumption
  <2> QED BY <1>5, <2>1, <2>2
<1>7. tagRun[w].asks[i] \in InFlight(w)
  BY <1>6 DEF InFlight
<1> QED BY <1>7

\* A run goes on knowing what it knew when others save and commit elsewhere.
LEMMA StillKnows ==
    ASSUME NEW r, TagRunShape(r), NEW c, NEW g, TagRunKnows(r, c, g),
           NEW c2, NEW g2,
           \A d \in Descriptions : g[d] \subseteq g2[d],
           \A d \in Descriptions :
              c2[d] = c[d] \/ (c[d] = NotCached /\ r.unsaved[d] = NotCached)
    PROVE  TagRunKnows(r, c2, g2)
<1> SUFFICES ASSUME NEW d \in Descriptions
             PROVE  /\ r.answer[d] \in TagSets => r.answer[d] \in g2[d]
                    /\ r.unsaved[d] # NotCached =>
                          /\ r.unsaved[d] \in g2[d]
                          /\ c2[d] = NotCached
                          /\ r.answer[d] # NoTags
              /\ r.prepared[d] = r.unsaved[d]
                    /\ r.prepared[d] # NoTags => r.prepared[d] \in {r.unsaved[d], c2[d]}
  BY DEF TagRunKnows
<1>1. r.prepared[d] # NotCached
  BY TagsAssumption DEF TagRunShape, Tags, NotCached, NoTags
<1> QED BY <1>1 DEF TagRunKnows

\* A step of one worker that leaves the committed table alone.
LEMMA TagLocalStep ==
    ASSUME TagInv, NEW w \in Taggers, NEW s,
           tagRun' = [tagRun EXCEPT ![w] = s],
           UNCHANGED <<tagCache, tagged>>,
           given' = [d \in Descriptions |-> given'[d]],
           \A d \in Descriptions : given[d] \subseteq given'[d],
           TagRunOk(s, tagCache, given'),
           \A d \in Descriptions : Holds(s, d) =>
              Holds(tagRun[w], d) \/ TagHolders(w, d) = {}
    PROVE  TagInv'
<1>0. TagTypes'
  BY DEF TagInv, TagTypes
<1>1. OneChoicePerDescription'
  BY DEF TagInv, OneChoicePerDescription
<1>2. ASSUME NEW v \in Taggers PROVE TagRunOk(tagRun'[v], tagCache', given')
  <2>1. CASE v = w
    BY <2>1 DEF TagInv, TagTypes
  <2>2. CASE v # w
    <3>1. tagRun'[v] = tagRun[v]
      BY <2>2 DEF TagInv, TagTypes
    <3>2. TagRunOk(tagRun[v], tagCache, given)
      BY DEF TagInv
    <3>3. tagRun[v] # AtRest => TagRunKnows(tagRun[v], tagCache, given')
      BY <3>2, StillKnows DEF TagRunOk
    <3> QED BY <3>1, <3>2, <3>3 DEF TagRunOk
  <2> QED BY <2>1, <2>2
<1>3. ASSUME NEW u \in Taggers, NEW v \in Taggers, u # v, NEW d \in Descriptions
      PROVE  ~(Holds(tagRun'[u], d) /\ Holds(tagRun'[v], d))
  <2>1. \A x \in Taggers : tagRun'[x] = IF x = w THEN s ELSE tagRun[x]
    BY DEF TagInv, TagTypes
  <2>2. \A x \in Taggers \ {w} : ~(Holds(s, d) /\ Holds(tagRun[x], d))
    <3> SUFFICES ASSUME NEW x \in Taggers \ {w}, Holds(s, d), Holds(tagRun[x], d)
                 PROVE  FALSE
      OBVIOUS
    <3>1. CASE Holds(tagRun[w], d)
      BY <3>1 DEF TagInv
    <3>2. CASE TagHolders(w, d) = {}
      BY <3>2 DEF TagHolders, Holds
    <3> QED BY <3>1, <3>2
  <2> QED BY <1>3, <2>1, <2>2 DEF TagInv
<1> QED BY <1>0, <1>1, <1>2, <1>3 DEF TagInv

LEMMA TagInitInv == TagsInit => TagInv
<1> SUFFICES ASSUME TagsInit PROVE TagInv
  OBVIOUS
<1>1. TagTypes
  BY DEF TagsInit, TagTypes, Tags
<1>2. OneChoicePerDescription
  BY DEF TagsInit, OneChoicePerDescription
<1>3. \A w \in Taggers : tagRun[w] = AtRest
  BY DEF TagsInit
<1> QED BY <1>1, <1>2, <1>3 DEF TagInv, TagRunOk, Holds

-----------------------------------------------------------------------------
LEMMA LookUpInv ==
    ASSUME TagInv, NEW w \in Taggers, LookUp(w)
    PROVE  TagInv'
<1> DEFINE r == tagRun[w]
           d == Head(r.todo)
           p == IF tagCache[d] # NotCached THEN tagCache[d] ELSE r.prepared[d]
           a == IF tagCache[d] = NotCached /\ Len(r.asks) < MaxTagCalls
                THEN Append(r.asks, d) ELSE r.asks
           s == [r EXCEPT !.todo = Tail(@), !.prepared[d] = p, !.asks = a]
<1>1. r.stage = "look up" /\ r.todo # <<>> /\ r # AtRest
  <2>1. r.stage = "look up" /\ r.todo # <<>>
    BY DEF LookUp
  <2> QED BY <2>1, UnderWay
<1>2. TagRunShape(r) /\ TagRunStage(r) /\ TagRunKnows(r, tagCache, given)
  BY <1>1 DEF TagInv, TagRunOk
<1>3. d \in Descriptions /\ Tail(r.todo) \in Seq(Descriptions)
      /\ a \in Seq(Descriptions)
  <2>1. r.todo \in Seq(Descriptions) /\ r.asks \in Seq(Descriptions)
    BY <1>2 DEF TagRunShape
  <2>2. TailOf(r.todo, Descriptions)
    BY <1>1, <2>1, TailFacts
  <2> QED BY <2>1, <2>2 DEF TailOf
<1>4. tagRun' = [tagRun EXCEPT ![w] = s]
  BY ZenonT(40), <1>2, <1>3 DEF LookUp, Remaining, TagRunShape, TagInv, TagTypes
<1>5. p \in Tags
  BY <1>2, <1>3 DEF TagRunShape, TagInv, TagTypes, Tags
<1>6. /\ IsTagRun(s) /\ s.stage = "look up" /\ s.batch = r.batch
      /\ s.todo = Tail(r.todo) /\ s.asks = a /\ s.answer = r.answer
      /\ s.prepared = [r.prepared EXCEPT ![d] = p] /\ s.unsaved = r.unsaved
  <2>1. IsTagRun(r)
    BY <1>2 DEF TagRunShape
  <2>2. IsTagRun(s)
    BY <2>1, LookedUp
  <2> QED BY <1>1, <2>1, <2>2 DEF IsTagRun
<1> HIDE DEF s, a, p, d
<1>7. TagRunShape(s)
  BY <1>2, <1>3, <1>5, <1>6 DEF TagRunShape
<1>8. TagRunStage(s)
  BY <1>1, <1>2, <1>6 DEF TagRunStage
<1>9. TagRunKnows(s, tagCache, given)
  <2>1. ASSUME NEW e \in Descriptions
        PROVE  s.prepared[e] = IF e = d THEN p ELSE r.prepared[e]
    BY <1>2, <1>3, <1>6 DEF TagRunShape
  <2>2. \A e \in Descriptions : r.unsaved[e] = NotCached
    BY <1>1, <1>2 DEF TagRunStage
  <2>3. p = tagCache[d] \/ p = r.prepared[d]
    BY DEF p
  <2> QED BY <1>2, <1>3, <1>6, <2>1, <2>2, <2>3 DEF TagRunKnows
<1>10. \A e \in Descriptions : ~Holds(s, e)
  BY <1>6, <1>8 DEF Holds, TagRunStage
<1>11. /\ UNCHANGED <<tagCache, tagged>>
       /\ given' = given
  BY DEF LookUp
<1> QED
  BY <1>4, <1>7, <1>8, <1>9, <1>10, <1>11, TagLocalStep DEF TagRunOk, TagInv, TagTypes

LEMMA ClassifyInv ==
    ASSUME TagInv, NEW w \in Taggers, Classify(w)
    PROVE  TagInv'
<1> DEFINE r == tagRun[w]
<1>1. r.stage = "classify" /\ r # AtRest
  BY DEF Classify, AtRest
<1>2. TagRunShape(r) /\ TagRunStage(r) /\ TagRunKnows(r, tagCache, given)
  BY <1>1 DEF TagInv, TagRunOk
<1>3. PICK d \in InFlight(w), t \in Tags :
        /\ tagRun' = [tagRun EXCEPT ![w].answer[d] = t]
        /\ given' = IF t = NoTags THEN given ELSE [given EXCEPT ![d] = @ \cup {t}]
  BY TagsAssumption DEF Classify, Tags
<1>4. d \in Descriptions
  <2>1. r.asks \in Seq(Descriptions)
    BY <1>2 DEF TagRunShape
  <2>2. \E n \in DOMAIN r.asks : d = r.asks[n]
    BY DEF InFlight, Unanswered
  <2> QED BY <2>1, <2>2
<1> DEFINE s == [r EXCEPT !.answer[d] = t]
<1>5. tagRun' = [tagRun EXCEPT ![w] = s]
  BY <1>3 DEF TagInv, TagTypes
<1>6. /\ IsTagRun(s) /\ s.stage = "classify" /\ s.batch = r.batch
      /\ s.todo = r.todo /\ s.asks = r.asks /\ s.answer = [r.answer EXCEPT ![d] = t]
      /\ s.prepared = r.prepared /\ s.unsaved = r.unsaved
  <2>1. IsTagRun(r)
    BY <1>2 DEF TagRunShape
  <2>2. IsTagRun(s)
    BY <2>1 DEF IsTagRun
  <2> QED BY <1>1, <2>1, <2>2 DEF IsTagRun
<1> HIDE DEF s
<1>7. /\ \A e \in Descriptions : given[e] \subseteq given'[e]
      /\ t \in TagSets => t \in given'[d]
      /\ given' = [e \in Descriptions |-> given'[e]]
  BY <1>3, <1>4, TagsAssumption DEF TagInv, TagTypes, Tags
<1>8. TagRunShape(s)
  BY <1>2, <1>4, <1>6 DEF TagRunShape
<1>9. TagRunStage(s)
  BY <1>1, <1>2, <1>6 DEF TagRunStage
<1>10. TagRunKnows(s, tagCache, given')
  <2>1. TagRunKnows(r, tagCache, given')
    BY <1>2, <1>7, StillKnows
  <2>2. \A e \in Descriptions : r.unsaved[e] = NotCached
    BY <1>1, <1>2 DEF TagRunStage
  <2>3. \A e \in Descriptions : s.answer[e] = IF e = d THEN t ELSE r.answer[e]
    BY <1>2, <1>6 DEF TagRunShape
  <2> QED BY <1>6, <1>7, <2>1, <2>2, <2>3 DEF TagRunKnows
<1>11. \A e \in Descriptions : ~Holds(s, e)
  BY <1>6, <1>9 DEF Holds, TagRunStage
<1>12. UNCHANGED <<tagCache, tagged>>
  BY DEF Classify
<1> QED
  BY <1>5, <1>7, <1>8, <1>9, <1>10, <1>11, <1>12, TagLocalStep DEF TagRunOk

LEMMA KeepAnswerInv ==
    ASSUME TagInv, NEW w \in Taggers, KeepAnswer(w)
    PROVE  TagInv'
<1> DEFINE r == tagRun[w]
           d == Head(r.todo)
           p == IF r.answer[d] # NoTags /\ tagCache[d] # NotCached
                THEN tagCache[d] ELSE r.answer[d]
           u == IF r.answer[d] = NoTags \/ tagCache[d] # NotCached THEN r.unsaved[d]
                ELSE r.answer[d]
           s == [r EXCEPT !.todo = Tail(@), !.prepared[d] = p, !.unsaved[d] = u]
<1>1. /\ r.stage = "keep" /\ r.todo # <<>> /\ r # AtRest
      /\ r.answer[d] # NoTags => TagHolders(w, d) = {}
  BY DEF KeepAnswer, AtRest
<1>2. TagRunShape(r) /\ TagRunStage(r) /\ TagRunKnows(r, tagCache, given)
  BY <1>1 DEF TagInv, TagRunOk
<1>3. /\ d \in Descriptions /\ Tail(r.todo) \in Seq(Descriptions)
      /\ r.answer[d] \in Tags
      /\ \A n \in DOMAIN Tail(r.todo) : r.answer[Tail(r.todo)[n]] # NotCached
  <2>1. r.todo \in Seq(Descriptions)
    BY <1>2 DEF TagRunShape
  <2>2. \A n \in DOMAIN r.todo : r.answer[r.todo[n]] # NotCached
    BY <1>1, <1>2 DEF TagRunStage
  <2>3. TailOf(r.todo, Descriptions)
    BY <1>1, <2>1, TailFacts
  <2>4. d \in Descriptions /\ r.answer[d] # NotCached
    BY <2>2, <2>3 DEF TailOf
  <2>5. r.answer[d] \in Tags
    BY <1>2, <2>4 DEF TagRunShape
  <2> QED BY <2>2, <2>3, <2>4, <2>5 DEF TailOf
<1>4. tagRun' = [tagRun EXCEPT ![w] = s]
  BY ZenonT(40) DEF KeepAnswer, Remaining, TagInv, TagTypes
<1>5. /\ IsTagRun(s) /\ s.stage = "keep" /\ s.batch = r.batch
      /\ s.todo = Tail(r.todo) /\ s.asks = r.asks /\ s.answer = r.answer
      /\ s.prepared = [r.prepared EXCEPT ![d] = p]
      /\ s.unsaved = [r.unsaved EXCEPT ![d] = u]
  <2>1. IsTagRun(r)
    BY <1>2 DEF TagRunShape
  <2>2. IsTagRun(s)
    BY <2>1, Kept
  <2> QED BY <1>1, <2>1, <2>2 DEF IsTagRun
<1>6. p \in Tags /\ u \in TagSets \cup {NotCached}
  BY <1>2, <1>3 DEF TagRunShape, TagInv, TagTypes, Tags
<1>7. /\ r.answer[d] \in TagSets => r.answer[d] \in given[d]
      /\ u # NotCached => u \in given[d] /\ tagCache[d] = NotCached
                          /\ r.answer[d] # NoTags /\ p = u
      /\ p # NoTags => p \in {u, tagCache[d]}
  <2>1. /\ r.answer[d] \in TagSets => r.answer[d] \in given[d]
        /\ r.unsaved[d] # NotCached => r.unsaved[d] \in given[d] /\ tagCache[d] = NotCached
        /\ r.answer[d] # NoTags => r.answer[d] \in TagSets
    BY <1>2, <1>3 DEF TagRunKnows, Tags
  <2>2. u # NotCached => r.answer[d] # NoTags
    BY <1>2, <1>3 DEF TagRunKnows
  <2> QED BY <2>1, <2>2
<1> HIDE DEF s, p, u, d
<1>8. TagRunShape(s)
  BY <1>2, <1>3, <1>5, <1>6 DEF TagRunShape
<1>9. TagRunStage(s)
  BY <1>3, <1>5 DEF TagRunStage
<1>10. TagRunKnows(s, tagCache, given)
  <2>1. ASSUME NEW e \in Descriptions, e # d
        PROVE  s.answer[e] = r.answer[e] /\ s.prepared[e] = r.prepared[e]
               /\ s.unsaved[e] = r.unsaved[e]
    BY <1>2, <1>3, <1>5, <2>1 DEF TagRunShape
  <2>2. s.answer[d] = r.answer[d] /\ s.prepared[d] = p /\ s.unsaved[d] = u
    BY <1>2, <1>3, <1>5 DEF TagRunShape
  <2>3. u # NotCached => p = u
    BY <1>7
  <2> QED BY <1>2, <1>7, <2>1, <2>2, <2>3 DEF TagRunKnows
<1>11. \A e \in Descriptions : Holds(s, e) => Holds(r, e) \/ TagHolders(w, e) = {}
  BY <1>1, <1>2, <1>3, <1>5 DEF Holds, TagRunShape, u
<1>12. UNCHANGED <<tagCache, tagged, given>>
  BY DEF KeepAnswer
<1> QED
  BY <1>4, <1>8, <1>9, <1>10, <1>11, <1>12, TagLocalStep DEF TagRunOk, TagInv, TagTypes

LEMMA EndKeepInv ==
    ASSUME TagInv, NEW w \in Taggers, EndKeep(w)
    PROVE  TagInv'
<1> DEFINE r == tagRun[w]
           s == [r EXCEPT !.stage = "store", !.todo = r.batch,
                          !.unsaved = [d \in Descriptions |-> NotCached]]
<1>1. /\ r.stage = "keep" /\ r # AtRest
      /\ tagCache' = [d \in Descriptions |->
                        IF r.unsaved[d] # NotCached THEN r.unsaved[d] ELSE tagCache[d]]
      /\ UNCHANGED <<given, tagged>>
  BY DEF EndKeep, AtRest
<1>2. TagRunShape(r) /\ TagRunStage(r) /\ TagRunKnows(r, tagCache, given)
  BY <1>1 DEF TagInv, TagRunOk
<1>3. \A v \in Taggers : tagRun'[v] = IF v = w THEN s ELSE tagRun[v]
  BY DEF EndKeep, TagInv, TagTypes
<1>4. /\ IsTagRun(s) /\ s.stage = "store" /\ s.batch = r.batch
      /\ s.todo = r.batch /\ s.asks = r.asks /\ s.answer = r.answer
      /\ s.prepared = r.prepared /\ s.unsaved = [d \in Descriptions |-> NotCached]
  <2>1. IsTagRun(r)
    BY <1>2 DEF TagRunShape
  <2>2. IsTagRun(s)
    BY <2>1, Stored
  <2> QED BY <1>1, <2>1, <2>2 DEF IsTagRun
<1> HIDE DEF s
<1>5. TagTypes'
  BY <1>1, <1>2 DEF TagInv, TagTypes, TagRunShape, EndKeep
<1>6. \A d \in Descriptions :
         tagCache'[d] = tagCache[d] \/ (tagCache[d] = NotCached /\ r.unsaved[d] # NotCached)
  BY <1>1, <1>2 DEF TagRunKnows
<1>7. OneChoicePerDescription'
  <2> SUFFICES ASSUME NEW d \in Descriptions
               PROVE  /\ tagged[d] \ {NoTags} \subseteq {tagCache'[d]}
                      /\ tagCache'[d] # NotCached => tagCache'[d] \in given[d]
    BY <1>1 DEF OneChoicePerDescription
  <2>1. /\ tagged[d] \ {NoTags} \subseteq {tagCache[d]}
        /\ tagCache[d] # NotCached => tagCache[d] \in given[d]
    BY DEF TagInv, OneChoicePerDescription
  <2>2. NotCached \notin tagged[d]
    <3>1. NotCached \notin Tags
      BY TagsAssumption DEF Tags, NotCached, NoTags
    <3> QED BY <3>1 DEF TagInv, TagTypes
  <2> QED BY <1>1, <1>2, <2>1, <2>2 DEF TagRunKnows
<1>8. TagRunOk(s, tagCache', given')
  <2>1. TagRunShape(s)
    BY <1>2, <1>4 DEF TagRunShape
  <2>2. TagRunStage(s)
    BY <1>4 DEF TagRunStage
  <2>3. TagRunKnows(s, tagCache', given')
    <3> SUFFICES ASSUME NEW d \in Descriptions
                 PROVE  /\ r.answer[d] \in TagSets => r.answer[d] \in given[d]
                        /\ r.prepared[d] # NoTags => r.prepared[d] = tagCache'[d]
      BY <1>1, <1>4 DEF TagRunKnows
    <3> QED BY <1>1, <1>2, TagsAssumption
            DEF TagRunKnows, TagRunShape, Tags, NotCached, NoTags
  <2> QED BY <2>1, <2>2, <2>3 DEF TagRunOk
<1>9. ASSUME NEW v \in Taggers, v # w PROVE TagRunOk(tagRun[v], tagCache', given')
  <2> SUFFICES ASSUME tagRun[v] # AtRest
               PROVE  TagRunShape(tagRun[v]) /\ TagRunStage(tagRun[v])
                      /\ TagRunKnows(tagRun[v], tagCache', given')
    BY DEF TagRunOk
  <2>1. TagRunOk(tagRun[v], tagCache, given)
    BY DEF TagInv
  <2>2. \A d \in Descriptions : r.unsaved[d] # NotCached => tagRun[v].unsaved[d] = NotCached
    BY <1>1, <1>9 DEF TagInv, Holds
  <2>3. TagRunKnows(tagRun[v], tagCache', given')
    BY <1>1, <1>6, <2>1, <2>2, StillKnows DEF TagRunOk
  <2> QED BY <2>1, <2>3 DEF TagRunOk
<1>10. \A d \in Descriptions : ~Holds(s, d)
  BY <1>4 DEF Holds
<1> QED BY <1>3, <1>5, <1>7, <1>8, <1>9, <1>10 DEF TagInv

LEMMA CommitChunkInv ==
    ASSUME TagInv, NEW w \in Taggers, CommitChunk(w)
    PROVE  TagInv'
<1> DEFINE r == tagRun[w]
           d == Head(r.todo)
           s == [r EXCEPT !.todo = Tail(@)]
<1>1. /\ r.stage = "store" /\ r.todo # <<>> /\ r # AtRest
      /\ tagged' = [tagged EXCEPT ![d] = @ \cup {r.prepared[d]}]
      /\ UNCHANGED <<tagCache, given>>
  <2>1. r.stage = "store" /\ r.todo # <<>>
    BY DEF CommitChunk
  <2> QED BY <2>1, UnderWay DEF CommitChunk
<1>2. TagRunShape(r) /\ TagRunStage(r) /\ TagRunKnows(r, tagCache, given)
  BY <1>1 DEF TagInv, TagRunOk
<1>3. d \in Descriptions /\ Tail(r.todo) \in Seq(Descriptions)
  <2>1. r.todo \in Seq(Descriptions)
    BY <1>2 DEF TagRunShape
  <2> QED BY <1>1, <2>1, TailFacts DEF TailOf
<1>4. \A v \in Taggers : tagRun'[v] = IF v = w THEN s ELSE tagRun[v]
  BY DEF CommitChunk, Remaining, TagInv, TagTypes
<1>5. /\ IsTagRun(s) /\ s.stage = "store" /\ s.batch = r.batch
      /\ s.todo = Tail(r.todo) /\ s.asks = r.asks /\ s.answer = r.answer
      /\ s.prepared = r.prepared /\ s.unsaved = r.unsaved
  <2>1. IsTagRun(r)
    BY <1>2 DEF TagRunShape
  <2>2. IsTagRun(s)
    BY <2>1, Advanced
  <2> QED BY <1>1, <2>1, <2>2 DEF IsTagRun
<1> HIDE DEF s
<1>6. TagRunShape(s) /\ TagRunStage(s) /\ TagRunKnows(s, tagCache, given)
  BY <1>1, <1>2, <1>3, <1>5 DEF TagRunShape, TagRunStage, TagRunKnows
<1>7. r.prepared[d] \in Tags /\ r.prepared[d] \in {NoTags, tagCache[d]}
  <2>1. r.unsaved[d] = NotCached /\ r.prepared[d] \in Tags
    BY <1>1, <1>2, <1>3 DEF TagRunStage, TagRunShape
  <2>2. NotCached \notin Tags
    BY TagsAssumption DEF Tags, NotCached, NoTags
  <2> QED BY <1>2, <1>3, <2>1, <2>2 DEF TagRunKnows
<1>8. TagTypes'
  BY ZenonT(40), <1>1, <1>3, <1>7 DEF TagInv, TagTypes, CommitChunk, Remaining
<1>9. OneChoicePerDescription'
  BY <1>1, <1>3, <1>7 DEF TagInv, TagTypes, OneChoicePerDescription
<1>10. \A e \in Descriptions : ~Holds(s, e)
  BY <1>5, <1>6 DEF Holds, TagRunStage
<1> QED BY <1>1, <1>4, <1>6, <1>8, <1>9, <1>10 DEF TagInv, TagRunOk

LEMMA StartRunInv ==
    ASSUME TagInv, NEW w \in Taggers, StartRun(w)
    PROVE  TagInv'
<1>1. PICK q \in SetToSeqs(Descriptions) :
         tagRun' = [tagRun EXCEPT ![w] =
            [stage |-> "look up", batch |-> q, todo |-> q, asks |-> <<>>,
             answer   |-> [d \in Descriptions |-> NotCached],
             prepared |-> [d \in Descriptions |-> NoTags],
             unsaved  |-> [d \in Descriptions |-> NotCached]]]
  BY DEF StartRun
<1>2. q \in Seq(Descriptions)
  <2>1. Cardinality(Descriptions) \in Nat
    BY TagsAssumption, FS_CardinalityType
  <2>2. q \in [1..Cardinality(Descriptions) -> Descriptions]
    BY DEF SetToSeqs
  <2> QED BY <2>1, <2>2
<1>3. PICK s : s = [stage |-> "look up", batch |-> q, todo |-> q, asks |-> <<>>,
             answer   |-> [d \in Descriptions |-> NotCached],
             prepared |-> [d \in Descriptions |-> NoTags],
             unsaved  |-> [d \in Descriptions |-> NotCached]]
  OBVIOUS
<1>4. TagRunShape(s) /\ TagRunStage(s)
  <2>1. IsTagRun(s)
    BY <1>3 DEF IsTagRun
  <2>2. /\ s.stage = "look up" /\ s.batch = q /\ s.todo = q /\ s.asks = <<>>
        /\ s.answer = [d \in Descriptions |-> NotCached]
        /\ s.prepared = [d \in Descriptions |-> NoTags]
        /\ s.unsaved = [d \in Descriptions |-> NotCached]
    BY <1>3
  <2>3. <<>> \in Seq(Descriptions)
    OBVIOUS
  <2>4. TagRunShape(s)
    BY <1>2, <2>1, <2>2, <2>3 DEF TagRunShape, Tags
  <2> QED BY <2>2, <2>4 DEF TagRunStage
<1>5. TagRunKnows(s, tagCache, given)
  BY <1>3, TagsAssumption DEF TagRunKnows
<1>6. \A d \in Descriptions : ~Holds(s, d)
  BY <1>3 DEF Holds
<1>7. UNCHANGED <<tagCache, tagged, given>>
  BY DEF StartRun
<1>8. tagRun' = [tagRun EXCEPT ![w] = s]
  BY <1>1, <1>3
<1> QED
  BY <1>4, <1>5, <1>6, <1>7, <1>8, TagLocalStep DEF TagRunOk, TagInv, TagTypes

LEMMA EndLookUpInv ==
    ASSUME TagInv, NEW w \in Taggers, EndLookUp(w)
    PROVE  TagInv'
<1> DEFINE r == tagRun[w]
           s == [r EXCEPT !.stage = "classify", !.todo = r.asks]
<1>1. r.stage = "look up" /\ r # AtRest
  BY UnderWay DEF EndLookUp
<1>2. TagRunShape(r) /\ TagRunStage(r) /\ TagRunKnows(r, tagCache, given)
  BY <1>1 DEF TagInv, TagRunOk
<1>3. tagRun' = [tagRun EXCEPT ![w] = s]
  BY DEF EndLookUp, TagInv, TagTypes
<1>4. /\ IsTagRun(s) /\ s.stage = "classify" /\ s.batch = r.batch
      /\ s.todo = r.asks /\ s.asks = r.asks /\ s.answer = r.answer
      /\ s.prepared = r.prepared /\ s.unsaved = r.unsaved
  <2>1. IsTagRun(r)
    BY <1>2 DEF TagRunShape
  <2>2. IsTagRun(s)
    BY <2>1, Advanced
  <2> QED BY <1>1, <2>1, <2>2 DEF IsTagRun
<1> HIDE DEF s
<1>5. TagRunShape(s) /\ TagRunStage(s) /\ TagRunKnows(s, tagCache, given)
  BY <1>1, <1>2, <1>4 DEF TagRunShape, TagRunStage, TagRunKnows
<1>6. \A d \in Descriptions : ~Holds(s, d)
  BY <1>4, <1>5 DEF Holds, TagRunStage
<1>7. UNCHANGED <<tagCache, tagged, given>>
  BY DEF EndLookUp
<1> QED
  BY <1>3, <1>5, <1>6, <1>7, TagLocalStep DEF TagRunOk, TagInv, TagTypes

LEMMA EndClassifyInv ==
    ASSUME TagInv, NEW w \in Taggers, EndClassify(w)
    PROVE  TagInv'
<1> DEFINE r == tagRun[w]
           s == [r EXCEPT !.stage = "keep"]
<1>1. r.stage = "classify" /\ InFlight(w) = {} /\ r # AtRest
  BY UnderWay DEF EndClassify
<1>2. TagRunShape(r) /\ TagRunStage(r) /\ TagRunKnows(r, tagCache, given)
  BY <1>1 DEF TagInv, TagRunOk
<1>3. tagRun' = [tagRun EXCEPT ![w] = s]
  BY DEF EndClassify, TagInv, TagTypes
<1>4. /\ IsTagRun(s) /\ s.stage = "keep" /\ s.batch = r.batch
      /\ s.todo = r.asks /\ s.asks = r.asks /\ s.answer = r.answer
      /\ s.prepared = r.prepared /\ s.unsaved = r.unsaved
  <2>1. IsTagRun(r) /\ r.todo = r.asks
    BY <1>1, <1>2 DEF TagRunShape, TagRunStage
  <2> QED BY <1>1, <2>1 DEF IsTagRun
<1>5. Unanswered(r) = {}
  BY <1>1, <1>2, NothingInFlight DEF TagRunShape
<1> HIDE DEF s
<1>6. TagRunShape(s) /\ TagRunStage(s) /\ TagRunKnows(s, tagCache, given)
  <2>1. TagRunShape(s) /\ TagRunKnows(s, tagCache, given)
    BY <1>2, <1>4 DEF TagRunShape, TagRunKnows
  <2>2. TagRunStage(s)
    BY <1>4, <1>5 DEF TagRunStage, Unanswered
  <2> QED BY <2>1, <2>2
<1>7. \A d \in Descriptions : ~Holds(s, d)
  BY <1>1, <1>2, <1>4 DEF Holds, TagRunStage
<1>8. UNCHANGED <<tagCache, tagged, given>>
  BY DEF EndClassify
<1> QED
  BY <1>3, <1>6, <1>7, <1>8, TagLocalStep DEF TagRunOk, TagInv, TagTypes

LEMMA EndRunInv ==
    ASSUME TagInv, NEW w \in Taggers, EndRun(w)
    PROVE  TagInv'
<1>1. /\ tagRun' = [tagRun EXCEPT ![w] = AtRest]
      /\ UNCHANGED <<tagCache, tagged, given>>
  BY DEF EndRun
<1>2. \A d \in Descriptions : ~Holds(AtRest, d)
  BY DEF Holds
<1> QED BY <1>1, <1>2, TagLocalStep DEF TagRunOk, TagInv, TagTypes

LEMMA TagStepInv == TagInv /\ [TagsNext]_tagVars => TagInv'
<1> SUFFICES ASSUME TagInv, [TagsNext]_tagVars PROVE TagInv'
  OBVIOUS
<1>1. ASSUME NEW w \in Taggers,
             \/ StartRun(w) \/ LookUp(w) \/ EndLookUp(w) \/ Classify(w) \/ EndClassify(w)
             \/ KeepAnswer(w) \/ EndKeep(w) \/ CommitChunk(w) \/ EndRun(w)
      PROVE  TagInv'
  BY <1>1, StartRunInv, LookUpInv, EndLookUpInv, ClassifyInv, EndClassifyInv,
     KeepAnswerInv, EndKeepInv, CommitChunkInv, EndRunInv
<1>2. CASE UNCHANGED tagVars
  BY <1>2 DEF tagVars, TagInv, TagTypes, OneChoicePerDescription
<1> QED BY <1>1, <1>2 DEF TagsNext, TagsRest

\* One description has one set of tags, whatever overlapping runs ask, wait for
\* and roll back: process_raw_events and classify.
THEOREM ChoiceIsOne == TagsSpec => []OneChoicePerDescription
<1>1. TagInv => OneChoicePerDescription
  BY DEF TagInv
<1> QED BY <1>1, TagInitInv, TagStepInv, PTL DEF TagsSpec

-----------------------------------------------------------------------------
(***************************************************************************)
(* Geocoding: what can be searched has a place, and what is remembered as  *)
(* not found was refused by the provider.                                  *)
(***************************************************************************)

\* What an observation, a row or the script's copy of one is.
IsEvent(e) ==
    /\ e = [venue |-> e.venue, address |-> e.address, city |-> e.city, point |-> e.point,
            confidence |-> e.confidence]
    /\ e.venue \in Venues \cup {""}
    /\ e.address \in Texts \cup {""}
    /\ e.city \in Cities \cup {""}
    /\ e.confidence \in Nat

\* What a connector may say: who is not placed by the listing is not sure.
Plausible(e) ==
    e.confidence >= MinConfidence =>
        \/ e.point = MeetupCentroid
        \/ e.point = <<"table", e.venue>>
        \/ e.point = <<"given", e.venue>>

\* A point that a lookup of an event has found.
PointFits(p, e) ==
    \/ p = <<"table", e.venue>>
    \/ \E t : p = <<"found", t>> /\ t # ""
              /\ (t = e.address \/ (t = e.venue /\ t \notin Placeholders))

Precisions == {"poi", "street", "area", "venue"}

AnswerFits(answer, e) ==
    \/ answer.precision = "none"
    \/ /\ answer.precision \in Precisions
       /\ answer.precision # "area" => PointFits(answer.point, e)

\* The provider knows none of the queries of the lookup that left a failure.
Refuted(entry, key, R) ==
    /\ entry.attempts # <<>> /\ Head(entry.attempts) = key
    /\ <<key, entry.day>> \in R
    /\ \A i \in DOMAIN entry.attempts : <<entry.attempts[i], entry.day>> \in R

EntryFits(entry, key, R) ==
    \/ entry = NotKept
    \/ /\ entry.precision \in {"poi", "street", "area"}
       /\ entry.answer = Found(key[1], entry.precision)
    \/ /\ entry.precision = "none" /\ entry.answer = NoAnswer
       /\ Refuted(entry, key, R)

\* No run goes on into the next day.
RefusedToday == {q \in Queries : <<q, today>> \in refused}

\* The queries of a lookup under way: all, or the last when the first was refused.
AskingFits(l, e, city, T) ==
    LET all == Variants(e.address, e.venue, city) IN
    /\ l = [stage |-> "asking", attempts |-> all, queries |-> l.queries]
    /\ all # <<>>
    /\ \/ l.queries = all
       \/ l.queries = Tail(all) /\ Tail(all) # <<>> /\ Head(all) \in T

LookupFits(l, e, city, T) ==
    \/ l = Resting
    \/ l.stage = "answered" /\ AnswerFits(l.answer, e)
    \/ l.stage = "asking" /\ AskingFits(l, e, city, T)

GeoTypes ==
    /\ origin \in Origins
    /\ IsEvent(row) /\ IsEvent(payload) /\ IsEvent(candidate)
    /\ lookup = [a \in Actors |-> lookup[a]]
    /\ unsaved = [a \in Actors |-> [q \in Queries |-> unsaved[a][q]]]

Entries ==
    \A q \in Queries : EntryFits(cache[q], q, refused)
                    /\ \A a \in Actors : EntryFits(unsaved[a][q], q, refused)

Lookups ==
    /\ LookupFits(lookup["cycle"], payload, payload.city, RefusedToday)
    /\ LookupFits(lookup["script"], candidate, "", RefusedToday)
    /\ payload = NoRow => lookup["cycle"] = Resting
    /\ candidate = NoRow => lookup["script"] = Resting

Changes ==
    change # NoAnswer =>
        /\ candidate # NoRow /\ lookup["script"] = Resting
        /\ change.precision \in Precisions \ {"area"}
        /\ PointFits(change.point, candidate)

\* The row is where it says, or one of the known ways round it was taken.
RowPlaced ==
    row.confidence >= MinConfidence =>
        row.point = MeetupCentroid \/ row.address \in Placeholders \/ overtaken \/ PlacedAt(row)

GeoInv ==
    /\ GeoTypes
    /\ Plausible(payload)
    /\ Entries
    /\ Lookups
    /\ Changes
    /\ candidate # NoRow => overtaken \/ row = candidate
    /\ RowPlaced

-----------------------------------------------------------------------------
\* What a listing says of its place.
SaysPlace(l) ==
    /\ l.venue \in Venues \cup {""}
    /\ l.address \in Texts \cup {""}
    /\ l.city \in Cities \cup {""}

Sure   == {85, 90}
Unsure == {30, 40, 45}

Good(e) == e = NoEvent \/ (IsEvent(e) /\ Plausible(e))

LEMMA PlacedIsEvent ==
    ASSUME NEW l, SaysPlace(l), NEW p, NEW n \in Nat
    PROVE  LET e == Placed(l, p, n) IN
           IsEvent(e) /\ e.venue = l.venue /\ e.point = p /\ e.confidence = n
BY DEF Placed, IsEvent, SaysPlace

\* A ladder is sure only of a name from the table.
LEMMA LadderIsEvent ==
    ASSUME NEW l, SaysPlace(l), NEW a \in Sure, NEW b \in Unsure, NEW c \in Unsure
    PROVE  IsEvent(Ladder(l, a, b, c)) /\ Plausible(Ladder(l, a, b, c))
<1> DEFINE e == Ladder(l, a, b, c)
<1>1. CASE InTable(l.venue)
  <2>0. a \in Nat
    BY DEF Sure
  <2>1. e = Placed(l, TablePoint(l.venue), a)
    BY <1>1 DEF Ladder
  <2>2. IsEvent(e) /\ e.venue = l.venue /\ e.point = TablePoint(l.venue)
    BY <2>0, <2>1, PlacedIsEvent
  <2> QED BY <2>2 DEF Plausible, TablePoint
<1>2. CASE ~InTable(l.venue)
  <2>0. \A n \in {b, c} : n \in Nat /\ n < MinConfidence
    BY DEF Unsure, MinConfidence
  <2>1. PICK n \in {b, c} : e = Placed(l, Centroid, n)
    BY <1>2 DEF Ladder
  <2>2. IsEvent(e) /\ e.confidence = n
    BY <2>0, <2>1, PlacedIsEvent
  <2>3. ~(e.confidence >= MinConfidence)
    BY <2>0, <2>1, <2>2 DEF MinConfidence
  <2> QED BY <2>2, <2>3 DEF Plausible
<1> QED BY <1>1, <1>2

LEMMA LadderIsPlausible ==
    ASSUME NEW l, SaysPlace(l), NEW a \in Sure, NEW b \in Unsure, NEW c \in Unsure
    PROVE  Good(Ladder(l, a, b, c))
BY LadderIsEvent DEF Good

\* The address may be replaced.
LEMMA WithAddress ==
    ASSUME NEW l, SaysPlace(l), NEW a \in Sure, NEW b \in Unsure, NEW c \in Unsure,
           NEW t \in Texts \cup {""}
    PROVE  Good([Ladder(l, a, b, c) EXCEPT !.address = t])
<1>0. IsEvent(Ladder(l, a, b, c)) /\ Plausible(Ladder(l, a, b, c))
  BY LadderIsEvent
<1>1. PICK d, e : d = Ladder(l, a, b, c) /\ e = [d EXCEPT !.address = t]
  OBVIOUS
<1>2. IsEvent(d) /\ Plausible(d)
  BY <1>0, <1>1, Zenon
<1>3. e = [d EXCEPT !.address = t]
  BY <1>1
<1>4. IsEvent(e) /\ e.venue = d.venue /\ e.point = d.point /\ e.confidence = d.confidence
  BY <1>2, <1>3 DEF IsEvent
<1>5. Plausible(e)
  BY <1>2, <1>4 DEF Plausible
<1> QED BY <1>1, <1>4, <1>5 DEF Good

LEMMA ListingType ==
    ASSUME NEW l \in Listings
    PROVE  /\ SaysPlace(l)
           /\ SaysPlace([l EXCEPT !.address = ""])
           /\ \A v \in Venues \cup {""} : SaysPlace([l EXCEPT !.venue = v])
BY DEF Listings, Texts, SaysPlace

\* Published coordinates are those of the venue.
LEMMA GivenIsPlausible ==
    ASSUME NEW l, SaysPlace(l), NEW n \in {60, 85, 90, Missing}, NEW p,
           p \in {<<"given", l.venue>>, TablePoint(l.venue), MeetupCentroid}
    PROVE  Good(Placed(l, p, n))
BY PlacedIsEvent DEF Plausible, TablePoint, Missing, Good

\* So is the centroid of the city that an event of 19hz has for want of a venue.
LEMMA CityIsPlausible ==
    ASSUME NEW l, SaysPlace(l), NEW p
    PROVE  Good(Placed(l, p, 40))
<1>1. PICK e : e = Placed(l, p, 40)
  OBVIOUS
<1>2. IsEvent(e) /\ e.confidence = 40
  BY <1>1, PlacedIsEvent
<1>3. ~(e.confidence >= MinConfidence)
  BY <1>2 DEF MinConfidence
<1> QED BY <1>1, <1>2, <1>3 DEF Good, Plausible

LEMMA NormalizedIsPlausible ==
    ASSUME NEW c \in Connectors, NEW l \in Listings
    PROVE  Good(Normalized(c, l))
<1>0. /\ SaysPlace(l) /\ SaysPlace([l EXCEPT !.address = ""])
      /\ \A v \in Venues \cup {""} : SaysPlace([l EXCEPT !.venue = v])
      /\ l.venue \in Venues \cup {""}
  BY ListingType DEF SaysPlace
<1>t. (CHOOSE v \in TableVenues : TRUE) \in Venues
  BY NormalizersAssumption DEF Venues
<1>n. Good(NoEvent)
  BY DEF Good
<1>s. {85, 90} \subseteq Sure /\ {30, 40, 45} \subseteq Unsure
  BY DEF Sure, Unsure
<1>1. Good(DoTheBay(l)) /\ Good(SfStation(l)) /\ Good(EddiesList(l))
  <2>1. Good(Ladder(l, 90, 40, 30)) /\ Good(Ladder(l, 90, 40, 40))
    BY <1>0, <1>s, LadderIsPlausible
  <2> QED BY <1>n, <2>1 DEF DoTheBay, SfStation, EddiesList
<1>2. Good(Luma(l))
  <2>0. l.venue \in Texts \cup {""}
    BY <1>0 DEF Texts
  <2>1. Good([Ladder(l, 90, 40, 30) EXCEPT !.address = l.venue])
    BY ZenonT(40), <1>0, <2>0, <1>s, WithAddress
  <2> QED BY <1>n, <2>1 DEF Luma
<1>3. Good(NineteenHz(l))
  <2>1. PICK m : m = [l EXCEPT !.address = ""]
    OBVIOUS
  <2>2. SaysPlace(m)
    BY <1>0, <2>1
  <2>3. Good(Ladder(m, 90, 30, 30)) /\ Good(Placed(m, <<"city", l.city>>, 40))
    BY <2>2, <1>s, LadderIsPlausible, CityIsPlausible
  <2> QED BY <1>n, <2>1, <2>3 DEF NineteenHz
<1>4. Good(Reddit(l))
  <2>1. PICK m : m = [l EXCEPT !.address = ""]
    OBVIOUS
  <2>2. Good(Ladder(m, 85, 45, 30))
    BY <1>0, <2>1, <1>s, LadderIsPlausible
  <2> QED BY <1>n, <2>1, <2>2 DEF Reddit
<1>5. ASSUME NEW v \in Venues \cup {""}
      PROVE  /\ Good(Ladder([l EXCEPT !.venue = v], 90, 30, 30))
             /\ Good([Ladder([l EXCEPT !.venue = v], 90, 30, 30) EXCEPT !.address = l.venue])
  <2>1. PICK m : m = [l EXCEPT !.venue = v]
    OBVIOUS
  <2>2. SaysPlace(m) /\ l.venue \in Texts \cup {""}
    BY <1>0, <2>1 DEF Texts
  <2>3. Good(Ladder(m, 90, 30, 30))
    BY <2>2, <1>s, LadderIsPlausible
  <2>4. Good([Ladder(m, 90, 30, 30) EXCEPT !.address = l.venue])
    BY ZenonT(40), <2>2, <1>s, WithAddress
  <2> QED BY <2>1, <2>3, <2>4
<1>6. Good(MinnesotaStreet(l)) /\ Good(SternGrove(l))
  <2>1. PICK w : w = (CHOOSE v \in TableVenues : TRUE)
    OBVIOUS
  <2>2. PICK u : u = IF l.venue # "" THEN l.venue ELSE w
    OBVIOUS
  <2>3. w \in Venues \cup {""} /\ u \in Venues \cup {""}
    BY <1>0, <1>t, <2>1, <2>2
  <2> QED BY <1>n, <1>5, <2>1, <2>2, <2>3 DEF MinnesotaStreet, SternGrove
<1>7. Good(FuncheapIndex(l)) /\ Good(FuncheapDetail(l))
  <2>1. FuncheapAddress(l) \in Texts \cup {""}
    BY <1>0 DEF FuncheapAddress, Texts, SaysPlace
  <2>2. Good([Ladder(l, 90, 40, 40) EXCEPT !.address = FuncheapAddress(l)])
    BY ZenonT(40), <1>0, <2>1, <1>s, WithAddress
  <2> QED BY <1>n, <2>2 DEF FuncheapIndex, FuncheapDetail
<1>8. Good(Eventbrite(l)) /\ Good(Meetup(l)) /\ Good(Ticketmaster(l))
  <2>1. ASSUME NEW n \in {60, 85, 90, Missing},
               NEW p \in {<<"given", l.venue>>, TablePoint(l.venue), MeetupCentroid}
        PROVE  Good(Placed(l, p, n))
    <3>1. SaysPlace(l)
      BY <1>0
    <3> QED BY <3>1, GivenIsPlausible
  <2>2. PICK y, z, w : y = Placed(l, <<"given", l.venue>>, 90) /\ z = Placed(l, TablePoint(l.venue), 90)
                       /\ w = Placed(l, <<"given", l.venue>>, Missing)
    OBVIOUS
  <2>3. Good(y) /\ Good(z) /\ Good(w)
    BY <2>1, <2>2
  <2>4. Good(Meetup(l))
    <3>1. PICK p, n : /\ p = IF l.geo THEN <<"given", l.venue>> ELSE MeetupCentroid
                      /\ n = IF l.venue # "" THEN 85 ELSE 60
      OBVIOUS
    <3>2. p \in {<<"given", l.venue>>, TablePoint(l.venue), MeetupCentroid}
          /\ n \in {60, 85, 90, Missing}
      BY <3>1
    <3>3. Good(Placed(l, p, n))
      BY <2>1, <3>2
    <3> QED BY <1>n, <3>1, <3>3 DEF Meetup
  <2> QED BY <1>n, <2>2, <2>3, <2>4 DEF Eventbrite, Ticketmaster
<1> QED BY <1>1, <1>2, <1>3, <1>4, <1>6, <1>7, <1>8 DEF Connectors, Normalized
-----------------------------------------------------------------------------
LEMMA ShortSequences ==
    ASSUME NEW a, NEW b
    PROVE  /\ <<a>> \o <<b>> = <<a, b>>
           /\ <<a>> \o <<>> = <<a>> /\ <<>> \o <<b>> = <<b>> /\ <<>> \o <<>> = <<>>
           /\ Head(<<a>>) = a /\ Tail(<<a>>) = <<>>
           /\ Head(<<a, b>>) = a /\ Tail(<<a, b>>) = <<b>>
           /\ \A i \in DOMAIN <<a>> : <<a>>[i] = a
           /\ \A i \in DOMAIN <<a, b>> : <<a, b>>[i] = a \/ <<a, b>>[i] = b
           /\ <<a>> # <<>> /\ <<a, b>> # <<>>
<1>1. <<a>> \in Seq({a, b}) /\ <<b>> \in Seq({a, b}) /\ <<>> \in Seq({a, b})
  OBVIOUS
<1>2. <<a>> \o <<b>> = <<a, b>>
  <2>1. /\ <<a>> \o <<b>> \in Seq({a, b}) /\ Len(<<a>> \o <<b>>) = 2
        /\ (<<a>> \o <<b>>)[1] = a /\ (<<a>> \o <<b>>)[2] = b
    <3>1. Len(<<a>>) = 1 /\ Len(<<b>>) = 1 /\ <<a>>[1] = a /\ <<b>>[1] = b
      OBVIOUS
    <3> QED BY <1>1, <3>1, ConcatProperties
  <2>2. PICK s : s = <<a>> \o <<b>>
    OBVIOUS
  <2>3. s \in [1..2 -> {a, b}] /\ s[1] = a /\ s[2] = b
    BY <2>1, <2>2, LenProperties
  <2>4. s = [i \in 1..2 |-> s[i]] /\ <<a, b>> = [i \in 1..2 |-> <<a, b>>[i]]
    BY <2>3
  <2>5. \A i \in 1..2 : s[i] = <<a, b>>[i]
    BY <2>3
  <2>6. s = <<a, b>>
    BY <2>4, <2>5, Zenon
  <2> QED BY <2>2, <2>6
<1>3. <<a>> \o <<>> = <<a>> /\ <<>> \o <<b>> = <<b>> /\ <<>> \o <<>> = <<>>
  BY <1>1, ConcatEmptySeq
<1>4. Head(<<a>>) = a /\ Head(<<a, b>>) = a
  OBVIOUS
<1>5. Tail(<<a>>) = <<>> /\ Tail(<<a, b>>) = <<b>>
  OBVIOUS
<1>6. DOMAIN <<a>> = {1} /\ DOMAIN <<a, b>> = {1, 2}
  OBVIOUS
<1>7. <<a>>[1] = a /\ <<a, b>>[1] = a /\ <<a, b>>[2] = b
  OBVIOUS
<1>8. <<a>> # <<>> /\ <<a, b>> # <<>>
  OBVIOUS
<1> QED BY <1>2, <1>3, <1>4, <1>5, <1>6, <1>7, <1>8

LEMMA Singles ==
    ASSUME NEW a
    PROVE  /\ Head(<<a>>) = a /\ Tail(<<a>>) = <<>> /\ <<a>> # <<>>
           /\ \A i \in DOMAIN <<a>> : <<a>>[i] = a
BY ShortSequences

LEMMA Pairs ==
    ASSUME NEW a, NEW b
    PROVE  /\ Head(<<a, b>>) = a /\ Tail(<<a, b>>) = <<b>> /\ <<a, b>> # <<>>
           /\ \A i \in DOMAIN <<a, b>> : <<a, b>>[i] = a \/ <<a, b>>[i] = b
BY ShortSequences

\* A lookup asks for the address, then for the venue.
LEMMA VariantsShape ==
    ASSUME NEW e, IsEvent(e), NEW city \in Cities \cup {""}, NEW all,
           all = Variants(e.address, e.venue, city), all # <<>>
    PROVE  /\ Head(all) \in Queries
           /\ PointFits(<<"found", Head(all)[1]>>, e)
           /\ Tail(all) # <<>> => Tail(all) = <<Head(Tail(all))>>
           /\ \A i \in DOMAIN all :
                 all[i] = Head(all) \/ (Tail(all) # <<>> /\ all[i] = Head(Tail(all)))
<1>0. PICK A, V : A = <<e.address, city>> /\ V = <<e.venue, city>>
  OBVIOUS
<1>a. A[1] = e.address /\ V[1] = e.venue
  BY <1>0
<1>1. \/ all = <<A>> /\ e.address # ""
      \/ all = <<V>> /\ e.venue # "" /\ e.venue \notin Placeholders
      \/ all = <<A, V>> /\ e.address # ""
  BY <1>0, ShortSequences DEF Variants
<1>2. A \in Texts \X (Cities \cup {""}) \/ e.address = ""
  BY <1>0 DEF IsEvent
<1>3. V \in Texts \X (Cities \cup {""}) \/ e.venue = ""
  BY <1>0 DEF IsEvent, Texts
<1>4. ASSUME (all = <<A>> \/ all = <<A, V>>) /\ e.address # ""
      PROVE  Head(all) = A /\ A \in Queries /\ PointFits(<<"found", A[1]>>, e)
  <2>1. Head(<<A>>) = A /\ Head(<<A, V>>) = A
    BY Singles, Pairs
  <2>2. Head(all) = A
    BY <1>4, <2>1
  <2> QED BY <1>a, <1>2, <1>4, <2>2 DEF PointFits, Queries
<1>5. ASSUME all = <<V>> /\ e.venue # "" /\ e.venue \notin Placeholders
      PROVE  Head(all) = V /\ V \in Queries /\ PointFits(<<"found", V[1]>>, e)
  <2>1. Head(all) = V
    BY <1>5, Singles, Pairs
  <2> QED BY <1>a, <1>3, <1>5, <2>1 DEF PointFits, Queries
<1>6. Head(all) \in Queries /\ PointFits(<<"found", Head(all)[1]>>, e)
  BY <1>1, <1>4, <1>5
<1>7. Tail(all) # <<>> => Tail(all) = <<Head(Tail(all))>>
  <2>1. /\ Tail(<<A>>) = <<>> /\ Tail(<<V>>) = <<>> /\ Tail(<<A, V>>) = <<V>>
        /\ Head(<<V>>) = V
    BY Singles, Pairs
  <2> QED BY <1>1, <2>1
<1>8. ASSUME NEW i \in DOMAIN all
      PROVE  all[i] = Head(all) \/ (Tail(all) # <<>> /\ all[i] = Head(Tail(all)))
  <2>1. CASE all = <<A>> \/ all = <<V>>
    <3>1. PICK x : all = <<x>>
      BY <2>1
    <3>2. all[i] = x /\ Head(all) = x
      BY <1>8, <3>1, Singles
    <3> QED BY <3>2
  <2>2. CASE all = <<A, V>>
    <3>1. Tail(all) = <<V>> /\ Head(all) = A /\ Head(<<V>>) = V
      <4>1. Tail(<<A, V>>) = <<V>> /\ Head(<<A, V>>) = A /\ Head(<<V>>) = V
        BY Singles, Pairs
      <4> QED BY <2>2, <4>1
    <3>2. all[i] = A \/ all[i] = V
      <4>1. \A k \in DOMAIN <<A, V>> : <<A, V>>[k] = A \/ <<A, V>>[k] = V
        BY Pairs
      <4> QED BY <1>8, <2>2, <4>1
    <3>3. <<V>> # <<>>
      BY Singles, Pairs
    <3> QED BY <3>1, <3>2, <3>3
  <2> QED BY <1>1, <2>1, <2>2
<1> QED BY <1>6, <1>7, <1>8
-----------------------------------------------------------------------------
\* What the provider has refused is never taken back.
LEMMA RefusalsStay ==
    ASSUME NEW R, NEW Q, R \subseteq Q
    PROVE  /\ \A entry, key : EntryFits(entry, key, R) => EntryFits(entry, key, Q)
           /\ \A l, e, city : LookupFits(l, e, city, R) => LookupFits(l, e, city, Q)
<1>1. ASSUME NEW entry, NEW key, Refuted(entry, key, R) PROVE Refuted(entry, key, Q)
  BY <1>1 DEF Refuted
<1>2. ASSUME NEW entry, NEW key, EntryFits(entry, key, R) PROVE EntryFits(entry, key, Q)
  BY <1>1, <1>2 DEF EntryFits
<1>3. ASSUME NEW l, NEW e, NEW city, LookupFits(l, e, city, R) PROVE LookupFits(l, e, city, Q)
  BY <1>3 DEF LookupFits, AskingFits
<1> QED BY <1>2, <1>3

LEMMA TodayStays ==
    ASSUME refused \subseteq refused', today' = today
    PROVE  RefusedToday \subseteq RefusedToday'
BY DEF RefusedToday, Queries, Texts, Venues

LEMMA AnsweredFits ==
    ASSUME NEW l, NEW e, NEW city, NEW R, LookupFits(l, e, city, R), l.stage = "answered"
    PROVE  AnswerFits(l.answer, e)
BY DEF LookupFits, Resting

LEMMA ConfidenceReplaced ==
    ASSUME NEW d, IsEvent(d), NEW n \in Nat, NEW e, e = [d EXCEPT !.confidence = n]
    PROVE  /\ IsEvent(e) /\ e.point = d.point /\ e.venue = d.venue /\ e.address = d.address
           /\ e.confidence = n
BY DEF IsEvent

LEMMA PairFields ==
    ASSUME NEW a, NEW b, NEW p, p = <<a, b>>
    PROVE  p[1] = a /\ p[2] = b
OBVIOUS

LEMMA FoundFits ==
    ASSUME NEW e, NEW t, PointFits(<<"found", t>>, e), NEW p \in {"poi", "street", "area"}
    PROVE  AnswerFits(Found(t, p), e)
BY DEF AnswerFits, Found, Precisions

LEMMA NoAnswerFits == \A e : AnswerFits(NoAnswer, e)
BY DEF AnswerFits, NoAnswer

\* What a lookup begins with: an answer that fits, or the queries of the place.
LEMMA ResolveFits ==
    ASSUME GeoTypes, Entries, NEW a \in Actors, NEW e, IsEvent(e), NEW city \in Cities \cup {""},
           Resolve(a, e.address, e.venue, city)
    PROVE  \E l : lookup' = [lookup EXCEPT ![a] = l] /\ LookupFits(l, e, city, RefusedToday)
<1>1. PICK all : all = Variants(e.address, e.venue, city)
  OBVIOUS
<1>2. CASE InTable(e.venue)
  <2>1. PICK ans : ans = [precision |-> "venue", point |-> TablePoint(e.venue)]
    OBVIOUS
  <2>2. lookup' = [lookup EXCEPT ![a] = Answered(ans)]
    BY <1>2, <2>1 DEF Resolve
  <2>3. AnswerFits(ans, e)
    BY <2>1 DEF AnswerFits, PointFits, TablePoint, Precisions
  <2>4. LookupFits(Answered(ans), e, city, RefusedToday)
    BY <2>3 DEF LookupFits, Answered
  <2> QED BY <2>2, <2>4
<1>3. CASE ~InTable(e.venue) /\ all = <<>>
  <2>1. lookup' = [lookup EXCEPT ![a] = Answered(NoAnswer)]
    BY <1>1, <1>3 DEF Resolve
  <2>2. LookupFits(Answered(NoAnswer), e, city, RefusedToday)
    BY NoAnswerFits DEF LookupFits, Answered
  <2> QED BY <2>1, <2>2
<1>4. CASE ~InTable(e.venue) /\ all # <<>>
  <2>1. PICK ask : ask = [stage |-> "asking", attempts |-> all, queries |-> all]
    OBVIOUS
  <2>2. PICK s : s = Seen(a, Head(all))
    OBVIOUS
  <2>3. \/ lookup' = [lookup EXCEPT ![a] = ask]
        \/ lookup' = [lookup EXCEPT ![a] = Answered(s.answer)] /\ Hit(s)
    BY <1>1, <1>4, <2>1, <2>2 DEF Resolve
  <2>4. LookupFits(ask, e, city, RefusedToday)
    BY <1>1, <1>4, <2>1 DEF LookupFits, AskingFits
  <2>5. ASSUME Hit(s) PROVE LookupFits(Answered(s.answer), e, city, RefusedToday)
    <3>1. Head(all) \in Queries /\ PointFits(<<"found", Head(all)[1]>>, e)
      BY <1>1, <1>4, VariantsShape
    <3>2. EntryFits(s, Head(all), refused) /\ s # NotKept
      BY <2>2, <2>5, <3>1 DEF Seen, Entries, Hit
    <3>3. AnswerFits(s.answer, e)
      BY <3>1, <3>2, FoundFits, NoAnswerFits DEF EntryFits
    <3> QED BY <3>3 DEF LookupFits, Answered
  <2> QED BY <2>3, <2>4, <2>5
<1> QED BY <1>2, <1>3, <1>4

\* What is kept fits its key.
LEMMA KeepFits ==
    ASSUME GeoTypes, Entries, NEW a \in Actors, NEW key \in Queries, NEW entry,
           Keep(a, key, entry), EntryFits(entry, key, refused'), cache' = cache,
           refused \subseteq refused'
    PROVE  /\ Entries'
           /\ unsaved' = [b \in Actors |-> [q \in Queries |-> unsaved'[b][q]]]
<1>1. CASE UNCHANGED unsaved
  BY <1>1, RefusalsStay DEF Entries, GeoTypes
<1>2. CASE unsaved' = [unsaved EXCEPT ![a][key] = entry]
  <2>1. \A b \in Actors, q \in Queries :
           unsaved'[b][q] = IF b = a /\ q = key THEN entry ELSE unsaved[b][q]
    BY <1>2 DEF GeoTypes
  <2>2. unsaved' = [b \in Actors |-> [q \in Queries |-> unsaved'[b][q]]]
    BY <1>2 DEF GeoTypes
  <2>3. ASSUME NEW q \in Queries
        PROVE  /\ EntryFits(cache'[q], q, refused')
               /\ \A b \in Actors : EntryFits(unsaved'[b][q], q, refused')
    BY <2>1, RefusalsStay DEF Entries
  <2> QED BY <2>2, <2>3 DEF Entries
<1> QED BY <1>1, <1>2 DEF Keep

-----------------------------------------------------------------------------
\* What the cycle stores is sure only where it has a place.
Placeable(e) ==
    e.confidence >= MinConfidence =>
        e.point = MeetupCentroid \/ e.point = <<"given", e.venue>> \/ PointFits(e.point, e)

LEMMA EnrichedIsPlaceable ==
    ASSUME GeoInv, NEW new, new = EnrichedPayload
    PROVE  IsEvent(new) /\ Placeable(new)
<1> DEFINE ans == lookup["cycle"].answer
           worth == lookup["cycle"].stage = "answered" /\ WorthWriting(ans, payload.confidence)
<1>1. IsEvent(payload) /\ Plausible(payload)
  BY DEF GeoInv, GeoTypes
<1>2. CASE ~worth
  <2>1. new = payload
    BY <1>2 DEF EnrichedPayload
  <2> QED BY <1>1, <2>1 DEF Plausible, Placeable, PointFits
<1>3. CASE worth
  <2>1. AnswerFits(ans, payload)
    BY <1>3, AnsweredFits DEF GeoInv, Lookups
  <2>2. PICK n : n = Confidence[ans.precision]
    OBVIOUS
  <2>3. n >= MinConfidence
    BY <1>3, <2>2 DEF WorthWriting
  <2>4. ans.precision \in {"poi", "street", "venue"} /\ n \in Nat
    BY <2>1, <2>2, <2>3 DEF AnswerFits, Precisions, Confidence, MinConfidence
  <2>5. PointFits(ans.point, payload)
    BY <2>1, <2>4 DEF AnswerFits
  <2>6. new = [payload EXCEPT !.point = ans.point, !.confidence = n]
    BY <1>3, <2>2 DEF EnrichedPayload
  <2>7. /\ IsEvent(new) /\ new.point = ans.point /\ new.venue = payload.venue
        /\ new.address = payload.address
    BY <1>1, <2>4, <2>6 DEF IsEvent
  <2> QED BY <2>5, <2>7 DEF Placeable, PointFits
<1> QED BY <1>2, <1>3

\* A row with the point of an observation, and its venue and address where it has
\* them, is placed if the observation is.
Carries(m, new) ==
    /\ m.point = new.point
    /\ m.venue = new.venue \/ new.venue = ""
    /\ m.address = new.address \/ new.address = ""

LEMMA RowOfObservation ==
    ASSUME NEW new, NEW m, Carries(m, new), m.address \notin Placeholders,
           new.point = <<"given", new.venue>> \/ PointFits(new.point, new)
    PROVE  PlacedAt(m)
<1>0. PICK p : p = m.point /\ p = new.point
  BY DEF Carries
<1>1. ASSUME NEW x \in {"given", "table"}, p = <<x, new.venue>>
      PROVE  PlacedAt(m)
  <2>1. p[1] = x /\ p[2] = new.venue
    BY <1>1, PairFields
  <2> QED BY <1>0, <1>1, <2>1 DEF PlacedAt, Carries
<1>2. ASSUME NEW t, p = <<"found", t>>, t # "",
             t = new.address \/ (t = new.venue /\ t \notin Placeholders)
      PROVE  PlacedAt(m)
  <2>1. p[1] = "found" /\ p[2] = t
    BY <1>2, PairFields
  <2> QED BY <1>0, <1>2, <2>1 DEF PlacedAt, Carries
<1> QED BY <1>0, <1>1, <1>2 DEF PointFits

LEMMA MergeIsEvent ==
    ASSUME NEW old, NEW new, NEW m, IsEvent(old), IsEvent(new), m = MergedRow(old, new)
    PROVE  IsEvent(m)
BY DEF MergedRow, IsEvent, Or

LEMMA MergeKeepsPlace ==
    ASSUME NEW old, NEW new, NEW m, IsEvent(old), IsEvent(new), Placeable(new),
           m = MergedRow(old, new),
           old.confidence >= MinConfidence =>
              old.point = MeetupCentroid \/ old.address \in Placeholders \/ PlacedAt(old)
    PROVE  m.confidence >= MinConfidence =>
                m.point = MeetupCentroid \/ m.address \in Placeholders \/ PlacedAt(m)
<1>1. IsEvent(m) /\ m.venue = Or(new.venue, old.venue) /\ m.address = Or(new.address, old.address)
  BY DEF MergedRow, IsEvent, Or
<1>2. CASE m.point = new.point /\ m.confidence = new.confidence
  BY <1>1, <1>2, RowOfObservation DEF Placeable, Or, Carries
<1>3. CASE /\ m.point = old.point /\ m.confidence = old.confidence
           /\ new.venue \in {"", old.venue} /\ new.address \in {"", old.address}
  <2>1. m.venue = old.venue /\ m.address = old.address
    BY <1>1, <1>3 DEF Or
  <2> QED BY <1>1, <1>3, <2>1 DEF PlacedAt
<1> QED BY <1>2, <1>3 DEF MergedRow

-----------------------------------------------------------------------------
LEMMA GeoInitInv == GeocodingInit => GeoInv
<1> SUFFICES ASSUME GeocodingInit PROVE GeoInv
  OBVIOUS
<1>1. IsEvent(NoRow) /\ NoRow.confidence = 0
  BY DEF IsEvent, NoRow
<1>2. GeoTypes
  BY <1>1 DEF GeocodingInit, GeoTypes
<1>3. Entries
  BY DEF GeocodingInit, Entries, EntryFits
<1>4. Lookups /\ Changes
  BY DEF GeocodingInit, Lookups, LookupFits, Changes, Actors
<1> QED BY <1>1, <1>2, <1>3, <1>4 DEF GeocodingInit, GeoInv, Plausible, RowPlaced, MinConfidence

\* One actor's lookup changes to one that fits.
LEMMA LookupsAfter ==
    ASSUME GeoInv, NEW a \in Actors, NEW l, lookup' = [lookup EXCEPT ![a] = l],
           NEW e, NEW city, e = (IF a = "cycle" THEN payload ELSE candidate),
           city = (IF a = "cycle" THEN payload.city ELSE ""),
           LookupFits(l, e, city, RefusedToday'),
           a = "cycle" => payload # NoRow, a = "script" => candidate # NoRow,
           RefusedToday \subseteq RefusedToday', payload' = payload, candidate' = candidate,
           change' = change, a = "script" => change = NoAnswer
    PROVE  Lookups' /\ Changes' /\ lookup' = [b \in Actors |-> lookup'[b]]
<1>1. \A b \in Actors : lookup'[b] = IF b = a THEN l ELSE lookup[b]
  BY DEF GeoInv, GeoTypes
<1>2. lookup' = [b \in Actors |-> lookup'[b]]
  BY DEF GeoInv, GeoTypes
<1>3. "cycle" \in Actors /\ "script" \in Actors
  BY DEF Actors
<1>4. Lookups'
  <2>1. CASE a = "cycle"
    <3>1. lookup'["cycle"] = l /\ lookup'["script"] = lookup["script"]
      BY <1>1, <1>3, <2>1
    <3> QED BY <2>1, <3>1, RefusalsStay DEF GeoInv, Lookups
  <2>2. CASE a = "script"
    <3>1. lookup'["script"] = l /\ lookup'["cycle"] = lookup["cycle"]
      BY <1>1, <1>3, <2>2
    <3> QED BY ZenonT(40), <2>2, <3>1, RefusalsStay DEF GeoInv, Lookups
  <2> QED BY <2>1, <2>2 DEF Actors
<1>5. Changes'
  <2>1. CASE a = "script"
    BY <2>1 DEF Changes
  <2>2. CASE a # "script"
    BY <1>1, <1>3, <2>2 DEF GeoInv, Changes
  <2> QED BY <2>1, <2>2
<1> QED BY <1>2, <1>4, <1>5

\* Nobody looks up what is not there.
LEMMA AskerHasPlace ==
    ASSUME GeoInv, NEW a \in Actors, Asking(a)
    PROVE  \E e, city :
              /\ e = (IF a = "cycle" THEN payload ELSE candidate)
              /\ city = (IF a = "cycle" THEN payload.city ELSE "")
              /\ IsEvent(e) /\ city \in Cities \cup {""}
              /\ AskingFits(lookup[a], e, city, RefusedToday)
              /\ a = "cycle" => payload # NoRow
              /\ a = "script" => candidate # NoRow
              /\ a = "script" => change = NoAnswer
<1>1. \A l, e, city : LookupFits(l, e, city, RefusedToday) /\ l.stage = "asking"
         => AskingFits(l, e, city, RefusedToday) /\ l # Resting
  BY DEF LookupFits, Resting
<1>2. lookup[a].stage = "asking"
  BY DEF Asking
<1>3. CASE a = "cycle"
  BY <1>1, <1>2, <1>3 DEF GeoInv, GeoTypes, Lookups, IsEvent
<1>4. CASE a = "script"
  BY <1>1, <1>2, <1>4 DEF GeoInv, GeoTypes, Lookups, Changes
<1> QED BY <1>3, <1>4 DEF Actors

\* An actor that asks goes on to a lookup that fits, and may keep an entry.
LEMMA AskerInv ==
    ASSUME GeoInv, NEW a \in Actors, Asking(a), NEW l, lookup' = [lookup EXCEPT ![a] = l],
           \A e, city : AskingFits(lookup[a], e, city, RefusedToday) /\ IsEvent(e)
                         /\ city \in Cities \cup {""} => LookupFits(l, e, city, RefusedToday'),
           refused \subseteq refused', today' = today, Entries',
           unsaved' = [b \in Actors |-> [q \in Queries |-> unsaved'[b][q]]],
           UNCHANGED <<origin, row, payload, candidate, change, overtaken>>
    PROVE  GeoInv'
<1>1. PICK e, city :
              /\ e = (IF a = "cycle" THEN payload ELSE candidate)
              /\ city = (IF a = "cycle" THEN payload.city ELSE "")
              /\ IsEvent(e) /\ city \in Cities \cup {""}
              /\ AskingFits(lookup[a], e, city, RefusedToday)
              /\ a = "cycle" => payload # NoRow
              /\ a = "script" => candidate # NoRow
              /\ a = "script" => change = NoAnswer
  BY AskerHasPlace
<1>2. LookupFits(l, e, city, RefusedToday')
  BY <1>1
<1>3. payload' = payload /\ candidate' = candidate /\ change' = change
  OBVIOUS
<1>4. RefusedToday \subseteq RefusedToday'
  BY TodayStays
<1>5. Lookups' /\ Changes' /\ lookup' = [b \in Actors |-> lookup'[b]]
  BY <1>1, <1>2, <1>3, <1>4, LookupsAfter
<1> QED BY <1>5 DEF GeoInv, GeoTypes, RowPlaced, Plausible, PlacedAt

LEMMA DeferInv ==
    ASSUME GeoInv, NEW a \in Actors, Defer(a)
    PROVE  GeoInv'
<1>1. /\ lookup' = [lookup EXCEPT ![a] = Answered(NoAnswer)] /\ Asking(a)
      /\ UNCHANGED <<origin, row, payload, candidate, change, cache, unsaved, today, refused,
                    overtaken>>
  BY DEF Defer
<1>2. \A e, city, R : LookupFits(Answered(NoAnswer), e, city, R)
  BY NoAnswerFits DEF LookupFits, Answered
<1>3. Entries' /\ unsaved' = [b \in Actors |-> [q \in Queries |-> unsaved'[b][q]]]
  BY <1>1 DEF GeoInv, GeoTypes, Entries
<1>4. refused \subseteq refused' /\ today' = today
      /\ UNCHANGED <<origin, row, payload, candidate, change, overtaken>>
  BY <1>1
<1> QED BY <1>1, <1>2, <1>3, <1>4, AskerInv

LEMMA RestAsked ==
    ASSUME NEW r, NEW k, NEW q, NEW t, r = [stage |-> "asking", attempts |-> k, queries |-> q],
           NEW l, l = [stage |-> "asking", attempts |-> k, queries |-> t]
    PROVE  [r EXCEPT !.queries = t] = l
OBVIOUS

LEMMA AskingRecord ==
    ASSUME NEW l, NEW e, NEW city, NEW T, AskingFits(l, e, city, T)
    PROVE  /\ l.attempts = Variants(e.address, e.venue, city) /\ l.attempts # <<>>
           /\ l = [stage |-> "asking", attempts |-> l.attempts, queries |-> l.queries]
           /\ \/ l.queries = l.attempts
              \/ /\ l.queries = Tail(l.attempts) /\ Tail(l.attempts) # <<>>
                 /\ Head(l.attempts) \in T
<1>1. PICK all : all = Variants(e.address, e.venue, city)
  OBVIOUS
<1>2. /\ l = [stage |-> "asking", attempts |-> all, queries |-> l.queries] /\ all # <<>>
      /\ l.queries = all \/ (l.queries = Tail(all) /\ Tail(all) # <<>> /\ Head(all) \in T)
  BY <1>1 DEF AskingFits
<1>3. l.attempts = all
  BY <1>2
<1> QED BY <1>1, <1>2, <1>3

LEMMA AnsweredSame == \A x, y : Answered(x) = Answered(y) => x = y
BY DEF Answered

LEMMA AskInv ==
    ASSUME GeoInv, NEW a \in Actors, Ask(a)
    PROVE  GeoInv'
<1>1. PICK qs, all : qs = lookup[a].queries /\ all = lookup[a].attempts
  OBVIOUS
<1>2. /\ Asking(a) /\ refused \subseteq refused' /\ cache' = cache /\ today' = today
      /\ UNCHANGED <<origin, row, payload, candidate, change, overtaken>>
  BY DEF Ask
<1>3. PICK e, city : /\ IsEvent(e) /\ city \in Cities \cup {""}
                     /\ AskingFits(lookup[a], e, city, RefusedToday)
  BY <1>2, AskerHasPlace
<1>4. PICK key : key = Key(a) /\ key = Head(all)
  BY <1>1 DEF Key
<1>5. /\ all = Variants(e.address, e.venue, city) /\ all # <<>>
      /\ lookup[a] = [stage |-> "asking", attempts |-> all, queries |-> qs]
      /\ qs = all \/ (qs = Tail(all) /\ Tail(all) # <<>> /\ Head(all) \in RefusedToday)
  <2>1. AskingFits(lookup[a], e, city, RefusedToday)
    BY <1>3
  <2> QED BY <1>1, <2>1, AskingRecord
<1>6. /\ key \in Queries /\ PointFits(<<"found", key[1]>>, e)
      /\ Tail(all) # <<>> => Tail(all) = <<Head(Tail(all))>>
      /\ \A i \in DOMAIN all :
            all[i] = Head(all) \/ (Tail(all) # <<>> /\ all[i] = Head(Tail(all)))
  BY <1>3, <1>4, <1>5, VariantsShape
<1>7. RefusedToday \subseteq RefusedToday'
  BY <1>2, TodayStays
<1>8. CASE \E p \in {"poi", "street", "area"} :
              /\ lookup' = [lookup EXCEPT ![a] = Answered(Found(key[1], p))]
              /\ Keep(a, key, [precision |-> p, answer |-> Found(key[1], p)])
              /\ UNCHANGED refused
  <2>1. PICK p \in {"poi", "street", "area"} :
              /\ lookup' = [lookup EXCEPT ![a] = Answered(Found(key[1], p))]
              /\ Keep(a, key, [precision |-> p, answer |-> Found(key[1], p)])
    BY <1>8
  <2>2. EntryFits([precision |-> p, answer |-> Found(key[1], p)], key, refused')
    BY DEF EntryFits
  <2>3. Entries' /\ unsaved' = [b \in Actors |-> [q \in Queries |-> unsaved'[b][q]]]
    BY <1>2, <1>6, <2>1, <2>2, KeepFits DEF GeoInv
  <2>4. ASSUME NEW f, NEW c, AskingFits(lookup[a], f, c, RefusedToday), IsEvent(f),
               c \in Cities \cup {""}
        PROVE  LookupFits(Answered(Found(key[1], p)), f, c, RefusedToday')
    <3>1. PointFits(<<"found", key[1]>>, f)
      <4>1. all = Variants(f.address, f.venue, c) /\ all # <<>>
        <5>1. AskingFits(lookup[a], f, c, RefusedToday)
          BY <2>4
        <5> QED BY <1>1, <5>1, AskingRecord
      <4> QED BY <1>4, <2>4, <4>1, VariantsShape
    <3>2. AnswerFits(Found(key[1], p), f)
      BY <3>1, FoundFits
    <3> QED BY <3>2 DEF LookupFits, Answered
  <2>5. PICK l : l = Answered(Found(key[1], p))
    OBVIOUS
  <2>6. \A f, c : AskingFits(lookup[a], f, c, RefusedToday) /\ IsEvent(f) /\ c \in Cities \cup {""}
                     => LookupFits(l, f, c, RefusedToday')
    BY <2>4, <2>5
  <2>7. lookup' = [lookup EXCEPT ![a] = l]
    BY <2>1, <2>5
  <2> QED BY <1>2, <2>3, <2>6, <2>7, AskerInv
<1>9. CASE /\ refused' = refused \cup {<<Head(qs), today>>}
           /\ Tail(qs) # <<>>
           /\ lookup' = [lookup EXCEPT ![a].queries = Tail(qs)]
           /\ UNCHANGED <<usable, unsaved>>
  <2>1. PICK l : l = [stage |-> "asking", attempts |-> all, queries |-> Tail(qs)]
    OBVIOUS
  <2>2. lookup' = [lookup EXCEPT ![a] = l]
    <3>1. PICK r, t : r = lookup[a] /\ t = Tail(qs)
      OBVIOUS
    <3>2. lookup' = [lookup EXCEPT ![a] = [r EXCEPT !.queries = t]]
      BY <1>9, <3>1
    <3>3. r = [stage |-> "asking", attempts |-> all, queries |-> qs]
      BY <1>5, <3>1
    <3>4. l = [stage |-> "asking", attempts |-> all, queries |-> t]
      BY <2>1, <3>1
    <3>5. [r EXCEPT !.queries = t] = l
      BY <3>3, <3>4, RestAsked
    <3> QED BY <3>2, <3>5
  <2>3. qs = all /\ Head(all) \in RefusedToday'
    <3>1. \A y : Tail(<<y>>) = <<>>
      BY Singles
    <3>2. qs = all
      BY <1>5, <1>6, <1>9, <3>1
    <3>3. Head(all) \in Queries /\ <<Head(all), today'>> \in refused'
      BY <1>2, <1>4, <1>6, <1>9, <3>2
    <3> QED BY <3>2, <3>3 DEF RefusedToday
  <2>4. ASSUME NEW f, NEW c, AskingFits(lookup[a], f, c, RefusedToday), IsEvent(f),
               c \in Cities \cup {""}
        PROVE  LookupFits(l, f, c, RefusedToday')
    <3>1. all = Variants(f.address, f.venue, c) /\ all # <<>>
      <4>1. AskingFits(lookup[a], f, c, RefusedToday)
        BY <2>4
      <4> QED BY <1>1, <4>1, AskingRecord
    <3>2. l.queries = Tail(all) /\ l.stage = "asking" /\ Tail(all) # <<>>
      BY <1>9, <2>1, <2>3
    <3> QED BY <2>1, <2>3, <3>1, <3>2 DEF LookupFits, AskingFits
  <2>5. Entries' /\ unsaved' = [b \in Actors |-> [q \in Queries |-> unsaved'[b][q]]]
    BY <1>2, <1>9, RefusalsStay DEF GeoInv, GeoTypes, Entries
  <2> QED BY <1>2, <2>2, <2>4, <2>5, AskerInv
<1>10. CASE /\ refused' = refused \cup {<<Head(qs), today>>}
            /\ Tail(qs) = <<>>
            /\ lookup' = [lookup EXCEPT ![a] = Answered(NoAnswer)]
            /\ Keep(a, key, Failure(a))
  <2>1. PICK entry : entry = Failure(a)
    OBVIOUS
  <2>2. /\ entry.precision = "none" /\ entry.answer = NoAnswer
        /\ entry.day = today /\ entry.attempts = all
    BY <1>1, <2>1 DEF Failure
  <2>3. \A i \in DOMAIN all : <<all[i], today>> \in refused'
    <3>1. CASE qs = all
      BY <1>6, <1>10, <3>1
    <3>2. CASE qs = Tail(all) /\ Head(all) \in RefusedToday
      <4>1. <<Head(all), today>> \in refused
        BY <3>2 DEF RefusedToday
      <4> QED BY <1>6, <1>10, <3>2, <4>1
    <3> QED BY <1>5, <3>1, <3>2
  <2>4. <<key, today>> \in refused'
    <3>1. CASE qs = all
      BY <1>4, <1>10, <3>1
    <3>2. CASE Head(all) \in RefusedToday
      BY <1>4, <1>10, <3>2 DEF RefusedToday
    <3> QED BY <1>5, <3>1, <3>2
  <2>5. EntryFits(entry, key, refused')
    BY <1>4, <1>5, <2>2, <2>3, <2>4 DEF EntryFits, Refuted
  <2>6. Entries' /\ unsaved' = [b \in Actors |-> [q \in Queries |-> unsaved'[b][q]]]
    BY <1>2, <1>6, <1>10, <2>1, <2>5, KeepFits DEF GeoInv
  <2>7. \A f, c, T : LookupFits(Answered(NoAnswer), f, c, T)
    BY NoAnswerFits DEF LookupFits, Answered
  <2> QED BY <1>2, <1>10, <2>6, <2>7, AskerInv
<1> QED BY <1>1, <1>4, <1>8, <1>9, <1>10 DEF Ask

-----------------------------------------------------------------------------
LEMMA ObserveInv ==
    ASSUME GeoInv, Observe
    PROVE  GeoInv'
<1>1. PICK e : /\ \E listing \in ObservedListings : e = Normalized(origin, listing)
               /\ e # NoEvent /\ payload' = Coerced(e)
  BY DEF Observe
<1>2. /\ payload = NoRow
      /\ UNCHANGED <<origin, row, candidate, change, lookup, cache, unsaved, today, refused,
                     overtaken>>
  BY DEF Observe
<1>3. IsEvent(e) /\ Plausible(e)
  <2>1. Good(e)
    BY <1>1, NormalizedIsPlausible, GeocodingAssumption DEF GeoInv, GeoTypes
  <2> QED BY <1>1, <2>1 DEF Good
<1>4. ASSUME NEW d, d = Coerced(e) PROVE IsEvent(d) /\ Plausible(d)
  <2>1. CASE e.confidence # Missing
    BY <1>3, <1>4, <2>1 DEF Coerced
  <2>2. CASE e.confidence = Missing
    <3>1. d = [e EXCEPT !.confidence = 100]
      BY <1>4, <2>2 DEF Coerced
    <3>2. IsEvent(d) /\ d.point = e.point /\ d.venue = e.venue
      BY <1>3, <3>1, ConfidenceReplaced
    <3>3. e.confidence >= MinConfidence
      BY <2>2 DEF Missing, MinConfidence
    <3> QED BY <1>3, <3>2, <3>3 DEF Plausible
  <2> QED BY <2>1, <2>2
<1>5. IsEvent(payload') /\ Plausible(payload')
  BY <1>1, <1>4
<1>6. lookup'["cycle"] = Resting
  BY <1>2 DEF GeoInv, Lookups
<1>7. RefusedToday' = RefusedToday
  BY <1>2 DEF RefusedToday
<1>8. Lookups' /\ Changes' /\ Entries'
  BY <1>2, <1>6, <1>7 DEF GeoInv, Lookups, Changes, Entries, LookupFits
<1> QED BY <1>2, <1>5, <1>8 DEF GeoInv, GeoTypes, RowPlaced, PlacedAt

LEMMA EnrichStartsInv ==
    ASSUME GeoInv, EnrichStarts
    PROVE  GeoInv'
<1>1. /\ payload # NoRow /\ Resolve("cycle", payload.address, payload.venue, payload.city)
      /\ UNCHANGED <<origin, row, payload, candidate, change, cache, unsaved, today,
                     refused, overtaken>>
  BY DEF EnrichStarts
<1>2. PICK e, city : e = payload /\ city = payload.city
  OBVIOUS
<1>3. IsEvent(e) /\ city \in Cities \cup {""}
  BY <1>2 DEF GeoInv, GeoTypes, IsEvent
<1>4. PICK l : lookup' = [lookup EXCEPT !["cycle"] = l] /\ LookupFits(l, e, city, RefusedToday)
  <2>1. Resolve("cycle", e.address, e.venue, city) /\ "cycle" \in Actors
    BY <1>1, <1>2 DEF Actors
  <2> QED BY <1>3, <2>1, ResolveFits DEF GeoInv
<1>5. PICK a \in Actors : a = "cycle"
  BY DEF Actors
<1>6. /\ LookupFits(l, e, city, RefusedToday') /\ RefusedToday \subseteq RefusedToday'
      /\ payload' = payload /\ candidate' = candidate /\ change' = change
  BY <1>1, <1>4 DEF RefusedToday
<1>7. Lookups' /\ Changes' /\ lookup' = [b \in Actors |-> lookup'[b]]
  BY <1>1, <1>2, <1>4, <1>5, <1>6, LookupsAfter
<1> QED BY <1>1, <1>7 DEF GeoInv, GeoTypes, Entries, RowPlaced, Plausible, PlacedAt

LEMMA PlanStartsInv ==
    ASSUME GeoInv, PlanStarts
    PROVE  GeoInv'
<1>1. /\ candidate # NoRow /\ change = NoAnswer
      /\ Resolve("script", candidate.address, candidate.venue, "")
      /\ UNCHANGED <<origin, row, payload, candidate, change, cache, unsaved, today,
                     refused, overtaken>>
  BY DEF PlanStarts
<1>2. PICK e, city : e = candidate /\ city = ""
  OBVIOUS
<1>3. IsEvent(e) /\ city \in Cities \cup {""}
  BY <1>2 DEF GeoInv, GeoTypes
<1>4. PICK l : lookup' = [lookup EXCEPT !["script"] = l] /\ LookupFits(l, e, city, RefusedToday)
  <2>1. Resolve("script", e.address, e.venue, city) /\ "script" \in Actors
    BY <1>1, <1>2 DEF Actors
  <2> QED BY <1>3, <2>1, ResolveFits DEF GeoInv
<1>5. PICK a \in Actors : a = "script"
  BY DEF Actors
<1>6. /\ LookupFits(l, e, city, RefusedToday') /\ RefusedToday \subseteq RefusedToday'
      /\ payload' = payload /\ candidate' = candidate /\ change' = change
  BY <1>1, <1>4 DEF RefusedToday
<1>7. Lookups' /\ Changes' /\ lookup' = [b \in Actors |-> lookup'[b]]
  BY <1>1, <1>2, <1>4, <1>5, <1>6, LookupsAfter
<1> QED BY <1>1, <1>7 DEF GeoInv, GeoTypes, Entries, RowPlaced, Plausible, PlacedAt

\* A commit of an actor's entries, or their loss.
LEMMA EntriesMove ==
    ASSUME GeoTypes, Entries, NEW a \in Actors, refused' = refused,
           unsaved' = [unsaved EXCEPT ![a] = [q \in Queries |-> NotKept]],
           cache' = cache \/ cache' = [q \in Queries |-> Seen(a, q)]
    PROVE  /\ Entries'
           /\ unsaved' = [b \in Actors |-> [q \in Queries |-> unsaved'[b][q]]]
<1>1. \A b \in Actors, q \in Queries : unsaved'[b][q] = IF b = a THEN NotKept ELSE unsaved[b][q]
  BY DEF GeoTypes
<1>2. unsaved' = [b \in Actors |-> [q \in Queries |-> unsaved'[b][q]]]
  BY DEF GeoTypes
<1>3. ASSUME NEW q \in Queries
      PROVE  /\ EntryFits(cache'[q], q, refused')
             /\ \A b \in Actors : EntryFits(unsaved'[b][q], q, refused')
  <2>1. EntryFits(NotKept, q, refused)
    BY DEF EntryFits
  <2>2. cache'[q] \in {cache[q], unsaved[a][q]}
    BY DEF Seen
  <2>3. EntryFits(cache'[q], q, refused)
    BY <2>2 DEF Entries
  <2> QED BY <1>1, <2>1, <2>3 DEF Entries
<1> QED BY <1>2, <1>3 DEF Entries

LEMMA NoRowIsPlausible == IsEvent(NoRow) /\ Plausible(NoRow)
<1>1. IsEvent(NoRow) /\ NoRow.confidence = 0
  BY DEF IsEvent, NoRow
<1>2. ~(NoRow.confidence >= MinConfidence)
  BY <1>1 DEF MinConfidence
<1> QED BY <1>1, <1>2 DEF Plausible

\* A run is over, and nothing is being looked up.
LEMMA LookupEnds ==
    ASSUME GeoInv, NEW a \in Actors, GeocoderEnds(a)
    PROVE  /\ lookup' = [b \in Actors |-> lookup'[b]]
           /\ lookup'[a] = Resting
           /\ \A b \in Actors \ {a} : lookup'[b] = lookup[b]
BY DEF GeoInv, GeoTypes, GeocoderEnds

\* The end of a cycle, with or without its row.
LEMMA CycleEnds ==
    ASSUME GeoInv, GeocoderEnds("cycle"), payload' = NoRow, Entries',
           UNCHANGED <<candidate, change, today, refused>>
    PROVE  /\ Lookups' /\ Changes' /\ lookup' = [b \in Actors |-> lookup'[b]]
           /\ IsEvent(payload') /\ Plausible(payload')
<1>1. /\ lookup' = [b \in Actors |-> lookup'[b]]
      /\ lookup'["cycle"] = Resting /\ lookup'["script"] = lookup["script"]
  BY LookupEnds DEF Actors
<1>2. Lookups' /\ Changes'
  BY <1>1 DEF GeoInv, Lookups, Changes, LookupFits, RefusedToday
<1>3. IsEvent(NoRow) /\ Plausible(NoRow)
  BY NoRowIsPlausible
<1> QED BY <1>1, <1>2, <1>3

LEMMA StoreInv ==
    ASSUME GeoInv, Store
    PROVE  GeoInv'
<1>1. PICK new, m : new = EnrichedPayload /\ m = row'
  OBVIOUS
<1>2. /\ m = IF row = NoRow THEN new ELSE MergedRow(row, new)
      /\ overtaken' = (overtaken \/ (candidate # NoRow /\ m # row))
      /\ cache' = [q \in Queries |-> Seen("cycle", q)]
      /\ unsaved' = [unsaved EXCEPT !["cycle"] = [q \in Queries |-> NotKept]]
      /\ payload' = NoRow /\ GeocoderEnds("cycle")
      /\ UNCHANGED <<origin, candidate, change, today, refused>>
  BY <1>1 DEF Store
<1>3. IsEvent(new) /\ Placeable(new)
  BY <1>1, EnrichedIsPlaceable
<1>4. Entries' /\ unsaved' = [b \in Actors |-> [q \in Queries |-> unsaved'[b][q]]]
  <2>1. refused' = refused /\ "cycle" \in Actors
    BY <1>2 DEF Actors
  <2> QED BY <1>2, <2>1, EntriesMove DEF GeoInv
<1>5. /\ Lookups' /\ Changes' /\ lookup' = [b \in Actors |-> lookup'[b]]
      /\ IsEvent(payload') /\ Plausible(payload')
  BY <1>2, <1>4, CycleEnds
<1>6. IsEvent(m)
  <2>1. CASE row = NoRow
    BY <1>2, <1>3, <2>1
  <2>2. CASE row # NoRow
    BY <1>2, <1>3, <2>2, MergeIsEvent DEF GeoInv, GeoTypes
  <2> QED BY <2>1, <2>2
<1>7. ASSUME ~overtaken', m.confidence >= MinConfidence, m.point # MeetupCentroid,
             m.address \notin Placeholders
      PROVE  PlacedAt(m)
  <2>1. CASE row = NoRow
    <3>1. m = new
      BY <1>2, <2>1
    <3> QED BY <1>3, <1>7, <3>1, RowOfObservation DEF Placeable, Carries
  <2>2. CASE row # NoRow
    <3>1. ~overtaken
      BY <1>2, <1>7
    <3>2. PICK old : old = row
      OBVIOUS
    <3>3. IsEvent(old) /\ m = MergedRow(old, new)
          /\ (old.confidence >= MinConfidence =>
                 old.point = MeetupCentroid \/ old.address \in Placeholders \/ PlacedAt(old))
      BY <1>2, <2>2, <3>1, <3>2 DEF GeoInv, GeoTypes, RowPlaced
    <3> QED BY <1>3, <1>7, <3>3, MergeKeepsPlace
  <2> QED BY <2>1, <2>2
<1>8. RowPlaced'
  BY <1>1, <1>7 DEF RowPlaced
<1>9. candidate' # NoRow => overtaken' \/ row' = candidate'
  <2> SUFFICES ASSUME candidate' # NoRow, ~overtaken' PROVE row' = candidate'
    OBVIOUS
  <2>1. ~overtaken /\ m = row /\ candidate' = candidate
    BY <1>2
  <2> QED BY <1>1, <2>1 DEF GeoInv
<1>10. GeoTypes'
  BY <1>1, <1>2, <1>4, <1>5, <1>6 DEF GeoInv, GeoTypes
<1> QED BY <1>4, <1>5, <1>8, <1>9, <1>10 DEF GeoInv

LEMMA CycleFailsInv ==
    ASSUME GeoInv, CycleFails
    PROVE  GeoInv'
<1>1. /\ unsaved' = [unsaved EXCEPT !["cycle"] = [q \in Queries |-> NotKept]]
      /\ payload' = NoRow /\ GeocoderEnds("cycle")
      /\ UNCHANGED <<origin, row, candidate, change, cache, today, refused, overtaken>>
  BY DEF CycleFails
<1>2. Entries' /\ unsaved' = [b \in Actors |-> [q \in Queries |-> unsaved'[b][q]]]
  <2>1. refused' = refused /\ cache' = cache /\ "cycle" \in Actors
    BY <1>1 DEF Actors
  <2> QED BY <1>1, <2>1, EntriesMove DEF GeoInv
<1>3. /\ Lookups' /\ Changes' /\ lookup' = [b \in Actors |-> lookup'[b]]
      /\ IsEvent(payload') /\ Plausible(payload')
  BY <1>1, <1>2, CycleEnds
<1> QED BY <1>1, <1>2, <1>3 DEF GeoInv, GeoTypes, RowPlaced, PlacedAt

LEMMA FindCandidateInv ==
    ASSUME GeoInv, FindCandidate
    PROVE  GeoInv'
<1>1. /\ candidate = NoRow /\ row.confidence < MinConfidence
      /\ candidate' = row /\ row # NoRow
      /\ UNCHANGED <<origin, row, payload, change, lookup, cache, unsaved, today, refused>>
  BY DEF FindCandidate
<1>2. ~(row.confidence >= MinConfidence)
  <2>1. PICK c : c = row.confidence
    OBVIOUS
  <2>2. c \in Nat /\ c < MinConfidence
    BY <1>1, <2>1 DEF GeoInv, GeoTypes, IsEvent
  <2>3. ~(c >= MinConfidence)
    BY <2>2 DEF MinConfidence
  <2> QED BY <2>1, <2>3
<1>3. lookup'["script"] = Resting /\ change' = NoAnswer
  BY <1>1 DEF GeoInv, Lookups, Changes
<1>4. Lookups' /\ Changes' /\ Entries'
  BY <1>1, <1>3 DEF GeoInv, Lookups, Changes, LookupFits, Entries, RefusedToday
<1> QED BY <1>1, <1>2, <1>4 DEF GeoInv, GeoTypes, RowPlaced

LEMMA PlanEndsInv ==
    ASSUME GeoInv, PlanEnds
    PROVE  GeoInv'
<1>1. PICK ans : ans = lookup["script"].answer
  OBVIOUS
<1>2. /\ lookup["script"].stage = "answered"
      /\ cache' = [q \in Queries |-> Seen("script", q)]
      /\ unsaved' = [unsaved EXCEPT !["script"] = [q \in Queries |-> NotKept]]
      /\ GeocoderEnds("script")
      /\ \/ WorthWriting(ans, candidate.confidence) /\ change' = ans /\ candidate' = candidate
         \/ candidate' = NoRow /\ change' = change
      /\ UNCHANGED <<origin, row, payload, today, refused, overtaken>>
  BY <1>1 DEF PlanEnds
<1>3. Entries' /\ unsaved' = [b \in Actors |-> [q \in Queries |-> unsaved'[b][q]]]
  <2>1. refused' = refused /\ "script" \in Actors
    BY <1>2 DEF Actors
  <2> QED BY <1>2, <2>1, EntriesMove DEF GeoInv
<1>4. /\ lookup' = [b \in Actors |-> lookup'[b]]
      /\ lookup'["script"] = Resting /\ lookup'["cycle"] = lookup["cycle"]
  BY <1>2, LookupEnds DEF Actors
<1>5. lookup["script"] # Resting
  BY <1>2 DEF Resting
<1>6. candidate # NoRow /\ change = NoAnswer
  BY <1>5 DEF GeoInv, Lookups, Changes
<1>7. Lookups'
  BY <1>2, <1>4 DEF GeoInv, Lookups, LookupFits, RefusedToday
<1>8. Changes'
  <2>1. CASE candidate' = NoRow /\ change' = change
    BY <1>6, <2>1 DEF Changes
  <2>2. CASE WorthWriting(ans, candidate.confidence) /\ change' = ans /\ candidate' = candidate
    <3>1. AnswerFits(ans, candidate)
      BY <1>1, <1>2, AnsweredFits DEF GeoInv, Lookups
    <3>2. ans.precision \in Precisions \ {"area"}
      BY <2>2, <3>1 DEF WorthWriting, AnswerFits, Confidence, MinConfidence, Precisions
    <3>3. PointFits(ans.point, candidate)
      BY <3>1, <3>2 DEF AnswerFits, Precisions
    <3> QED BY <1>4, <1>6, <2>2, <3>2, <3>3 DEF Changes
  <2> QED BY <1>2, <2>1, <2>2
<1>9. IsEvent(candidate')
  BY <1>2, NoRowIsPlausible DEF GeoInv, GeoTypes
<1> QED BY <1>2, <1>3, <1>4, <1>7, <1>8, <1>9 DEF GeoInv, GeoTypes, RowPlaced, PlacedAt, Plausible

\* The script's change is of the row it has read, unless the row has moved.
LEMMA ApplyChangeInv ==
    ASSUME GeoInv, ApplyChange
    PROVE  GeoInv'
<1>1. /\ change # NoAnswer /\ candidate' = NoRow /\ change' = NoAnswer
      /\ \/ row' = [row EXCEPT !.point = change.point,
                                !.confidence = Confidence[change.precision]]
         \/ row' = row
      /\ UNCHANGED <<origin, payload, lookup, cache, unsaved, today, refused, overtaken>>
  BY DEF ApplyChange
<1>2. /\ candidate # NoRow /\ lookup["script"] = Resting
      /\ change.precision \in Precisions \ {"area"} /\ PointFits(change.point, candidate)
  BY <1>1 DEF GeoInv, Changes
<1>3. Lookups' /\ Changes' /\ Entries'
  BY <1>1, <1>2 DEF GeoInv, Lookups, Changes, LookupFits, Entries, RefusedToday
<1>4. IsEvent(row') /\ RowPlaced'
  <2>1. CASE row' = row
    BY <1>1, <2>1 DEF GeoInv, GeoTypes, RowPlaced, PlacedAt
  <2>2. CASE row' = [row EXCEPT !.point = change.point,
                                !.confidence = Confidence[change.precision]]
    <3>1. PICK old, m, n, p : old = row /\ m = row' /\ n = Confidence[change.precision]
                              /\ p = change.point
      OBVIOUS
    <3>2. n \in Nat
      BY <1>2, <3>1 DEF Confidence, Precisions
    <3>3. m = [old EXCEPT !.point = p, !.confidence = n]
      BY <2>2, <3>1
    <3>4. IsEvent(old)
      BY <3>1 DEF GeoInv, GeoTypes
    <3>5. /\ IsEvent(m) /\ m.venue = old.venue /\ m.address = old.address /\ m.point = p
      BY <3>2, <3>3, <3>4 DEF IsEvent
    <3>6. ASSUME ~overtaken, m.address \notin Placeholders PROVE PlacedAt(m)
      <4>1. old = candidate
        BY <1>2, <3>1, <3>6 DEF GeoInv
      <4>2. PointFits(p, old)
        BY <1>2, <3>1, <4>1
      <4>3. PointFits(m.point, m) /\ Carries(m, m)
        BY <3>5, <4>2 DEF PointFits, Carries
      <4> QED BY <3>6, <4>3, RowOfObservation
    <3>7. overtaken' = overtaken
      BY <1>1
    <3> QED BY <3>1, <3>5, <3>6, <3>7 DEF RowPlaced
  <2> QED BY <1>1, <2>1, <2>2
<1>5. IsEvent(candidate')
  BY <1>1, NoRowIsPlausible
<1> QED BY <1>1, <1>3, <1>4, <1>5 DEF GeoInv, GeoTypes, Plausible

LEMMA GeoStepInv == GeoInv /\ [GeocodingNext]_geoVars => GeoInv'
<1> SUFFICES ASSUME GeoInv, [GeocodingNext]_geoVars PROVE GeoInv'
  OBVIOUS
<1>1. CASE NextDay \/ GeocodingStops \/ UNCHANGED geoVars
  <2>1. UNCHANGED <<origin, row, payload, candidate, change, lookup, cache, unsaved, refused,
                    overtaken>>
    BY <1>1 DEF NextDay, GeocodingStops, geoVars
  <2>2. Lookups'
    <3>1. CASE today' = today
      BY <2>1, <3>1 DEF GeoInv, Lookups, RefusedToday
    <3>2. CASE payload = NoRow /\ candidate = NoRow
      BY <2>1, <3>2 DEF GeoInv, Lookups, LookupFits
    <3> QED BY <1>1, <3>1, <3>2 DEF NextDay, GeocodingStops, geoVars
  <2> QED BY <2>1, <2>2 DEF GeoInv, GeoTypes, Entries, Changes, RowPlaced, PlacedAt, Plausible
<1> QED BY <1>1, DeferInv, AskInv, ObserveInv, EnrichStartsInv, StoreInv, CycleFailsInv,
           FindCandidateInv, PlanStartsInv, PlanEndsInv, ApplyChangeInv DEF GeocodingNext

LEMMA GeoAlways == GeocodingSpec => []GeoInv
BY GeoInitInv, GeoStepInv, PTL DEF GeocodingSpec

\* Radius search finds an event only where it is, whichever connector, lookup,
\* merge or backfill placed it, apart from the three ways SearchableIsPlaced names:
\* for any places, listings, budgets and caches.  _merge_events, apply_changes.
THEOREM SearchFindsThePlace == GeocodingSpec => []SearchableIsPlaced
<1>1. GeoInv => SearchableIsPlaced
  BY DEF GeoInv, RowPlaced, SearchableIsPlaced
<1> QED BY <1>1, GeoAlways, PTL

\* A failure kept in the cache was answered by the provider for every query of the
\* lookup that left it there, on the day it is dated: an outage or an empty budget,
\* at whichever query, is never remembered.  resolve.
THEOREM FailuresAreAnswers == GeocodingSpec => []NegativesAreAnswers
<1>1. ASSUME GeoInv, NEW key \in Queries, NEW a \in Actors, Seen(a, key).precision = "none"
      PROVE  Refuted(Seen(a, key), key, refused)
  <2>1. PICK entry : entry = Seen(a, key)
    OBVIOUS
  <2>2. EntryFits(entry, key, refused)
    BY <1>1, <2>1 DEF GeoInv, Entries, Seen
  <2> QED BY <1>1, <2>1, <2>2 DEF EntryFits, NotKept
<1>2. GeoInv => NegativesAreAnswers
  BY <1>1 DEF NegativesAreAnswers, Refuted
<1> QED BY <1>2, GeoAlways, PTL

\* A lookup that ends before anything is asked, where there is something to ask.
LEMMA FoundIsAnswer == \A t, p : Found(t, p) = NoAnswer => p = "none"
<1>1. NoAnswer.precision = "none" /\ \A t, p : Found(t, p).precision = p
  BY DEF NoAnswer, Found
<1> QED BY <1>1

LEMMA GivenUp ==
    ASSUME GeoTypes, Entries, NEW a \in Actors, NEW e, IsEvent(e), NEW city \in Cities \cup {""},
           Resolve(a, e.address, e.venue, city), lookup'[a] = Answered(NoAnswer),
           NEW all, all = Variants(e.address, e.venue, city), all # <<>>
    PROVE  \E r \in refused : r[1] = Head(all) /\ today - r[2] < RetryDays
<1>1. \A l : lookup' = [lookup EXCEPT ![a] = l] => lookup'[a] = l
  BY DEF GeoTypes
<1>2. ~InTable(e.venue)
  <2>1. PICK ans : ans = [precision |-> "venue", point |-> TablePoint(e.venue)]
    OBVIOUS
  <2>2. InTable(e.venue) => lookup'[a] = Answered(ans)
    BY <1>1, <2>1 DEF Resolve
  <2>3. ans.precision # NoAnswer.precision
    BY <2>1 DEF NoAnswer
  <2>4. ans # NoAnswer
    BY <2>3
  <2> QED BY <2>2, <2>4, AnsweredSame
<1>3. PICK s : s = Seen(a, Head(all))
  OBVIOUS
<1>4. Hit(s) /\ s.answer = NoAnswer
  <2>1. PICK ask : ask = [stage |-> "asking", attempts |-> all, queries |-> all]
    OBVIOUS
  <2>2. \/ lookup' = [lookup EXCEPT ![a] = ask]
        \/ lookup' = [lookup EXCEPT ![a] = Answered(s.answer)] /\ Hit(s)
    BY <1>2, <1>3, <2>1 DEF Resolve
  <2>3. ask # Answered(NoAnswer)
    <3>1. ask.stage = "asking" /\ Answered(NoAnswer).stage = "answered"
      BY <2>1 DEF Answered
    <3> QED BY <3>1
  <2> QED BY <1>1, <2>2, <2>3, AnsweredSame
<1>5. Head(all) \in Queries
  BY VariantsShape
<1>6. EntryFits(s, Head(all), refused) /\ s # NotKept
  BY <1>3, <1>4, <1>5 DEF Seen, Entries, Hit
<1>7. s.precision \notin {"poi", "street", "area"}
  <2>1. s.precision \in {"poi", "street", "area"} => s.answer = Found(Head(all)[1], s.precision)
    BY <1>6 DEF EntryFits
  <2>2. "none" \notin {"poi", "street", "area"}
    OBVIOUS
  <2> QED BY <1>4, <2>1, <2>2, FoundIsAnswer, Zenon
<1>8. s.precision = "none" /\ <<Head(all), s.day>> \in refused
  BY <1>6, <1>7 DEF EntryFits, Refuted
<1>9. today - s.day < RetryDays
  BY <1>4, <1>8 DEF Hit
<1> QED BY <1>8, <1>9

\* A failure expires: a place that can be asked for is given up without asking only
\* if the provider refused its first query within the days of a retry.  _read_cache.
THEOREM FailuresAreAskedAgain == GeocodingSpec => FailuresExpire
<1>1. ASSUME GeoInv, [GeocodingNext]_geoVars, NEW a \in Actors,
             lookup[a] = Resting, lookup'[a] = Answered(NoAnswer), Wanted(a) # <<>>
      PROVE  \E r \in refused : r[1] = Head(Wanted(a)) /\ today - r[2] < RetryDays
  <2>1. PICK all : all = Wanted(a)
    OBVIOUS
  <2>2. Resting # Answered(NoAnswer) /\ ~Asking(a)
    BY <1>1 DEF Resting, Answered, Asking
  <2>3. lookup'[a] # Resting /\ lookup'[a] # lookup[a]
    BY <1>1, <2>2
  <2>4. CASE EnrichStarts
    <3>1. a = "cycle"
      <4>1. \E l : lookup' = [lookup EXCEPT !["cycle"] = l]
        BY <2>4 DEF EnrichStarts, Resolve
      <4> QED BY <2>3, <4>1 DEF GeoInv, GeoTypes
    <3>2. PICK e, city : e = payload /\ city = payload.city
      OBVIOUS
    <3>3. IsEvent(e) /\ city \in Cities \cup {""}
      BY <1>1, <3>2 DEF GeoInv, GeoTypes, IsEvent
    <3>4. Resolve(a, e.address, e.venue, city)
      BY <2>4, <3>1, <3>2 DEF EnrichStarts
    <3>5. all = Variants(e.address, e.venue, city)
      BY <2>1, <3>1, <3>2 DEF Wanted
    <3> QED BY <1>1, <2>1, <3>3, <3>4, <3>5, GivenUp DEF GeoInv
  <2>5. CASE PlanStarts
    <3>1. a = "script"
      <4>1. \E l : lookup' = [lookup EXCEPT !["script"] = l]
        BY <2>5 DEF PlanStarts, Resolve
      <4> QED BY <2>3, <4>1 DEF GeoInv, GeoTypes
    <3>2. PICK e, city : e = candidate /\ city = ""
      OBVIOUS
    <3>3. IsEvent(e) /\ city \in Cities \cup {""}
      BY <1>1, <3>2 DEF GeoInv, GeoTypes
    <3>4. Resolve(a, e.address, e.venue, city)
      BY <2>5, <3>1, <3>2 DEF PlanStarts
    <3>5. all = Variants(e.address, e.venue, city)
      BY <2>1, <3>1, <3>2 DEF Wanted
    <3> QED BY <1>1, <2>1, <3>3, <3>4, <3>5, GivenUp DEF GeoInv
  <2>6. ASSUME NEW b \in Actors, Defer(b) \/ Ask(b) PROVE FALSE
    <3>1. b # a
      BY <2>2, <2>6 DEF Defer, Ask
    <3>2. \E l : lookup' = [lookup EXCEPT ![b] = l]
      BY <2>6 DEF Defer, Ask
    <3>3. lookup'[a] = lookup[a]
      BY <3>1, <3>2 DEF GeoInv, GeoTypes
    <3> QED BY <2>3, <3>3
  <2>7. ASSUME NEW b \in Actors, GeocoderEnds(b) PROVE FALSE
    BY <1>1, <2>3, <2>7, LookupEnds
  <2>8. lookup' # lookup
    BY <2>3
  <2>9. ~Store /\ ~CycleFails /\ ~PlanEnds
    BY <2>7 DEF Store, CycleFails, PlanEnds, Actors
  <2>10. ~Observe /\ ~FindCandidate /\ ~ApplyChange /\ ~NextDay /\ ~GeocodingStops
         /\ ~UNCHANGED geoVars
    BY <2>8 DEF Observe, FindCandidate, ApplyChange, NextDay, GeocodingStops, geoVars
  <2> QED BY <1>1, <2>4, <2>5, <2>6, <2>9, <2>10 DEF GeocodingNext
<1>2. GeoInv /\ [GeocodingNext]_geoVars =>
         [\A a \in Actors :
             /\ lookup[a] = Resting /\ lookup'[a] = Answered(NoAnswer)
             /\ Wanted(a) # <<>>
             => \E r \in refused : r[1] = Head(Wanted(a)) /\ today - r[2] < RetryDays]_geoVars
  BY <1>1
<1> QED BY <1>2, GeoAlways, PTL DEF GeocodingSpec, FailuresExpire

-----------------------------------------------------------------------------
(***************************************************************************)
(* Outbound limiter: no period has more calls than the limit.              *)
(***************************************************************************)

\* Calls are in order, the limit many apart, and kept while they are of the last
\* period; a task sleeps at most until the oldest of them is a period old.
LimInv ==
    /\ now \in Nat
    /\ wakes \in [Callers -> Nat]
    /\ \E k \in 0..Len(granted) :
          /\ After(granted, k, calls)
          /\ \A i \in 1..k : granted[i] + Period <= now
    /\ \A i, j \in 1..Len(granted) : i <= j => granted[i] <= granted[j]
    /\ \A i \in 1..Len(granted) : granted[i] <= now
    /\ \A i, j \in 1..Len(granted) : j = i + MaxCalls => granted[i] + Period <= granted[j]
    /\ \A c \in Callers : wakes[c] > now =>
          \E i \in 1..Len(granted) :
             i = Len(granted) - MaxCalls + 1 /\ wakes[c] <= granted[i] + Period

LEMMA LimTypes ==
    ASSUME LimInv
    PROVE  /\ granted \in Seq(Nat) /\ Len(granted) \in Nat /\ now \in Nat
           /\ \A i \in 1..Len(granted) : granted[i] \in Nat
<1>1. granted \in Seq(Nat)
  BY DEF LimInv, After
<1> QED BY <1>1 DEF LimInv

\* The calls of the last period, as a part of all of them.
LEMMA RecentCalls ==
    ASSUME LimInv
    PROVE  \E k \in 0..Len(granted) :
              /\ After(granted, k, Recent)
              /\ \A i \in 1..k : granted[i] + Period <= now
              /\ \A i \in 1..Len(granted) : k < i => ~(granted[i] + Period <= now)
<1>1. PICK k \in 0..Len(granted) :
         After(granted, k, calls) /\ \A i \in 1..k : granted[i] + Period <= now
  BY DEF LimInv
<1>2. PICK old : old = {n \in 1..Len(calls) : \A m \in 1..n : calls[m] + Period <= now}
  OBVIOUS
<1>3. Recent = SubSeq(calls, Cardinality(old) + 1, Len(calls))
  BY <1>2 DEF Recent
<1>4. now \in Nat /\ Period \in Nat
  BY LimiterAssumption DEF LimInv
<1>5. PICK q \in k..Len(granted) :
         /\ After(granted, q, Recent)
         /\ \A i \in (k + 1)..q : granted[i] + Period <= now
         /\ q < Len(granted) => ~(granted[q + 1] + Period <= now)
  BY ZenonT(40), <1>1, <1>2, <1>3, <1>4, Popped
<1>6. k \in Nat /\ q \in Nat /\ Len(granted) \in Nat /\ k <= q /\ q <= Len(granted)
  BY <1>1, <1>5, LimTypes
<1>7. ASSUME NEW i \in 1..q PROVE granted[i] + Period <= now
  <2>1. CASE i <= k
    BY <1>1, <1>6, <2>1
  <2>2. CASE ~(i <= k)
    <3>1. i \in (k + 1)..q
      BY <1>6, <2>2
    <3> QED BY <1>5, <3>1
  <2> QED BY <2>1, <2>2
<1>8. ASSUME NEW i \in 1..Len(granted), q < i PROVE ~(granted[i] + Period <= now)
  <2>1. PICK p : p = q + 1
    OBVIOUS
  <2>2. p \in 1..Len(granted) /\ p <= i /\ q < Len(granted)
    BY <1>6, <1>8, <2>1
  <2>3. granted[p] <= granted[i]
    BY <2>2 DEF LimInv
  <2>4. ~(granted[p] + Period <= now) /\ granted[p] \in Nat /\ granted[i] \in Nat
    BY <1>5, <2>1, <2>2, LimTypes
  <2> QED BY <1>4, <2>3, <2>4
<1> QED BY <1>5, <1>6, <1>7, <1>8

LEMMA LimInitInv == LimiterInit => LimInv
<1> SUFFICES ASSUME LimiterInit PROVE LimInv
  OBVIOUS
<1>1. granted = <<>> /\ calls = <<>> /\ now = 0 /\ wakes = [c \in Callers |-> 0]
  BY DEF LimiterInit
<1>2. Len(granted) = 0 /\ 1..0 = {} /\ 0 \in 0..0
  BY <1>1
<1>3. granted \in Seq(Nat) /\ calls \in Seq(Nat) /\ Len(calls) = 0
  BY <1>1
<1>4. After(granted, 0, calls)
  BY <1>2, <1>3 DEF After
<1>5. \A c \in Callers : ~(wakes[c] > now)
  BY <1>1
<1>6. wakes \in [Callers -> Nat] /\ now \in Nat
  BY <1>1
<1> QED BY <1>2, <1>4, <1>5, <1>6 DEF LimInv

LEMMA AcquireInv ==
    ASSUME LimInv, NEW c \in Callers, Acquire(c)
    PROVE  LimInv'
<1>1. /\ Len(Recent) < MaxCalls /\ calls' = Append(Recent, now) /\ granted' = Append(granted, now)
      /\ now' = now /\ wakes' = wakes
  BY DEF Acquire
<1>2. PICK k \in 0..Len(granted) :
         /\ After(granted, k, Recent)
         /\ \A i \in 1..k : granted[i] + Period <= now
         /\ \A i \in 1..Len(granted) : k < i => ~(granted[i] + Period <= now)
  BY RecentCalls
<1>3. PICK n, g : n = Len(granted) /\ g = granted'
  OBVIOUS
<1>4. n \in Nat /\ k \in Nat /\ k <= n /\ now \in Nat /\ MaxCalls \in Nat /\ MaxCalls >= 1
      /\ Period \in Nat
  BY <1>2, <1>3, LimTypes, LimiterAssumption
<1>5. Len(g) = n + 1 /\ g[n + 1] = now /\ \A i \in 1..n : g[i] = granted[i]
  BY <1>1, <1>3, LimTypes, AppendProperties
<1>6. After(g, k, calls')
  BY <1>1, <1>2, <1>3, <1>4, BothGrow
<1>7. n - k < MaxCalls
  BY <1>1, <1>2, <1>3 DEF After
<1>8. \A i \in 1..n : granted[i] \in Nat /\ granted[i] <= now
  BY <1>3, LimTypes DEF LimInv
<1>9. \A i \in 1..k : g[i] + Period <= now
  BY <1>2, <1>4, <1>5
<1>10. ASSUME NEW i \in 1..(n + 1) PROVE g[i] \in Nat /\ g[i] <= now
  BY <1>4, <1>5, <1>8
<1>11. ASSUME NEW i \in 1..(n + 1), NEW j \in 1..(n + 1), i <= j PROVE g[i] <= g[j]
  <2>1. CASE j = n + 1
    BY <1>5, <1>10, <2>1
  <2>2. CASE j # n + 1
    <3>1. i \in 1..n /\ j \in 1..n
      BY <1>4, <1>11, <2>2
    <3>2. granted[i] <= granted[j]
      BY <1>3, <1>11, <3>1 DEF LimInv
    <3> QED BY <1>5, <3>1, <3>2
  <2> QED BY <2>1, <2>2
<1>12. ASSUME NEW i \in 1..(n + 1), NEW j \in 1..(n + 1), j = i + MaxCalls
       PROVE  g[i] + Period <= g[j]
  <2>1. CASE j = n + 1
    <3>1. i \in 1..k
      BY <1>4, <1>7, <1>12, <2>1
    <3> QED BY <1>5, <1>9, <2>1, <3>1
  <2>2. CASE j # n + 1
    <3>1. i \in 1..n /\ j \in 1..n
      BY <1>4, <1>12, <2>2
    <3>2. granted[i] + Period <= granted[j]
      BY <1>3, <1>12, <3>1 DEF LimInv
    <3> QED BY <1>5, <3>1, <3>2
  <2> QED BY <2>1, <2>2
<1>13. ASSUME NEW d \in Callers PROVE ~(wakes[d] > now)
  <2> SUFFICES ASSUME wakes[d] > now PROVE FALSE
    OBVIOUS
  <2>1. PICK i \in 1..n : i = n - MaxCalls + 1 /\ wakes[d] <= granted[i] + Period
    BY <1>3 DEF LimInv
  <2>2. i \in 1..k
    BY <1>4, <1>7, <2>1
  <2>3. granted[i] + Period <= now
    BY <1>2, <2>2
  <2>4. wakes[d] \in Nat /\ granted[i] \in Nat
    BY <1>8, <2>1 DEF LimInv
  <2> QED BY <1>4, <2>1, <2>3, <2>4
<1>14. k \in 0..(n + 1)
  BY <1>4
<1>15. now' \in Nat /\ wakes' \in [Callers -> Nat] /\ \A d \in Callers : ~(wakes'[d] > now')
  BY <1>1, <1>4, <1>13 DEF LimInv
<1>16. granted' = g /\ now' = now
  BY <1>1, <1>3
<1> QED BY <1>5, <1>6, <1>9, <1>10, <1>11, <1>12, <1>14, <1>15, <1>16 DEF LimInv

LEMMA WaitInv ==
    ASSUME LimInv, NEW c \in Callers, Wait(c)
    PROVE  LimInv'
<1>1. /\ Len(Recent) >= MaxCalls /\ calls' = Recent /\ granted' = granted /\ now' = now
      /\ wakes' = [wakes EXCEPT ![c] = Head(Recent) + Period]
  BY DEF Wait
<1>2. PICK k \in 0..Len(granted) :
         /\ After(granted, k, Recent)
         /\ \A i \in 1..k : granted[i] + Period <= now
         /\ \A i \in 1..Len(granted) : k < i => ~(granted[i] + Period <= now)
  BY RecentCalls
<1>3. PICK n, r : n = Len(granted) /\ r = Recent
  OBVIOUS
<1>4. n \in Nat /\ k \in Nat /\ k <= n /\ now \in Nat /\ MaxCalls \in Nat /\ MaxCalls >= 1
      /\ Period \in Nat
  BY <1>2, <1>3, LimTypes, LimiterAssumption
<1>5. Len(r) = n - k /\ r \in Seq(Nat) /\ \A i \in 1..Len(r) : r[i] = granted[k + i]
  BY <1>2, <1>3 DEF After
<1>6. n - k = MaxCalls
  <2> SUFFICES ASSUME n - k > MaxCalls PROVE FALSE
    BY <1>1, <1>3, <1>4, <1>5
  <2>1. PICK i : i = n - MaxCalls
    OBVIOUS
  <2>2. i \in 1..n /\ n \in 1..n /\ n = i + MaxCalls /\ k < i
    BY <1>4, <2>1
  <2>3. granted[i] + Period <= granted[n] /\ granted[n] <= now
    BY <1>3, <2>2 DEF LimInv
  <2>4. granted[i] \in Nat /\ granted[n] \in Nat
    BY <1>3, <2>2, LimTypes
  <2>5. ~(granted[i] + Period <= now)
    BY <1>2, <1>3, <2>2
  <2> QED BY <1>4, <2>3, <2>4, <2>5
<1>7. PICK h : h = k + 1
  OBVIOUS
<1>8. h \in 1..n /\ h = n - MaxCalls + 1 /\ 1 \in 1..Len(r)
  BY <1>4, <1>5, <1>6, <1>7
<1>9. Head(r) = granted[h] /\ granted[h] \in Nat
  <2>1. Head(r) = r[1]
    BY <1>5, <1>8
  <2>2. r[1] = granted[k + 1]
    BY <1>5, <1>8
  <2> QED BY <1>3, <1>7, <1>8, <2>1, <2>2, LimTypes
<1>10. wakes' = [wakes EXCEPT ![c] = granted[h] + Period] /\ granted[h] + Period \in Nat
  <2>1. granted[h] + Period \in Nat
    BY <1>4, <1>9
  <2>2. Head(Recent) = granted[h]
    BY <1>3, <1>9
  <2> QED BY <1>1, <2>1, <2>2
<1>11. wakes' \in [Callers -> Nat]
  BY <1>10 DEF LimInv
<1>12. ASSUME NEW d \in Callers, wakes'[d] > now
       PROVE  \E i \in 1..n : i = n - MaxCalls + 1 /\ wakes'[d] <= granted[i] + Period
  <2>1. CASE d = c
    <3>1. wakes'[d] = granted[h] + Period
      BY <1>10, <2>1 DEF LimInv
    <3> QED BY <1>8, <1>10, <3>1
  <2>2. CASE d # c
    BY <1>3, <1>10, <1>12, <2>2 DEF LimInv
  <2> QED BY <2>1, <2>2
<1>13. /\ \A i, j \in 1..Len(granted) : i <= j => granted[i] <= granted[j]
       /\ \A i \in 1..Len(granted) : granted[i] <= now
       /\ \A i, j \in 1..Len(granted) : j = i + MaxCalls => granted[i] + Period <= granted[j]
  BY DEF LimInv
<1> QED BY <1>1, <1>2, <1>3, <1>4, <1>11, <1>12, <1>13 DEF LimInv

LEMMA TimePassesInv ==
    ASSUME LimInv, TimePasses
    PROVE  LimInv'
<1>1. now' = now + 1 /\ calls' = calls /\ wakes' = wakes /\ granted' = granted
  BY DEF TimePasses
<1>2. PICK t, n : t = now' /\ n = Len(granted)
  OBVIOUS
<1>3. t \in Nat /\ now \in Nat /\ now < t /\ Period \in Nat
  BY <1>1, <1>2, LimiterAssumption DEF LimInv
<1>4. \A i \in 1..n : granted[i] \in Nat
  BY <1>2, LimTypes
<1>5. PICK k \in 0..n :
         After(granted, k, calls) /\ \A i \in 1..k : granted[i] + Period <= now
  BY <1>2 DEF LimInv
<1>6. \A i \in 1..k : granted[i] + Period <= t
  <2>1. \A i \in 1..k : i \in 1..n
    BY <1>2, <1>5, LimTypes
  <2> QED BY <1>3, <1>4, <1>5, <2>1
<1>7. \A i \in 1..n : granted[i] <= t
  <2>1. \A i \in 1..n : granted[i] <= now
    BY <1>2 DEF LimInv
  <2> QED BY <1>3, <1>4, <2>1
<1>8. ASSUME NEW d \in Callers, wakes[d] > t
      PROVE  \E i \in 1..n : i = n - MaxCalls + 1 /\ wakes[d] <= granted[i] + Period
  <2>1. wakes[d] > now
    BY <1>3, <1>8 DEF LimInv
  <2> QED BY <1>2, <2>1 DEF LimInv
<1>9. /\ \A i, j \in 1..n : i <= j => granted[i] <= granted[j]
      /\ \A i, j \in 1..n : j = i + MaxCalls => granted[i] + Period <= granted[j]
      /\ wakes \in [Callers -> Nat]
  BY <1>2 DEF LimInv
<1> QED BY <1>1, <1>2, <1>3, <1>5, <1>6, <1>7, <1>8, <1>9 DEF LimInv

LEMMA LimStepInv == LimInv /\ [LimiterNext]_limVars => LimInv'
<1> SUFFICES ASSUME LimInv, [LimiterNext]_limVars PROVE LimInv'
  OBVIOUS
<1>1. CASE UNCHANGED limVars
  BY <1>1 DEF limVars, LimInv
<1>2. CASE LimiterRest
  BY <1>2 DEF LimiterRest, limVars, LimInv
<1> QED BY <1>1, <1>2, AcquireInv, WaitInv, TimePassesInv DEF LimiterNext, LimiterStep

LEMMA LimInvBounds == LimInv => OutboundBounded
<1> SUFFICES ASSUME LimInv PROVE OutboundBounded
  OBVIOUS
<1>1. PICK n : n = Len(granted)
  OBVIOUS
<1>2. n \in Nat /\ now \in Nat /\ MaxCalls \in Nat /\ MaxCalls >= 1 /\ Period \in Nat
      /\ DOMAIN granted = 1..n
  BY <1>1, LimTypes, LimiterAssumption
<1>3. \A i \in 1..n : granted[i] \in Nat /\ granted[i] <= now
  BY <1>1, LimTypes DEF LimInv
<1>4. ASSUME NEW i \in 1..n
      PROVE  Cardinality({j \in i..n : granted[j] < granted[i] + Period}) <= MaxCalls
  <2>1. granted \in Seq(Nat) /\ MaxCalls \in Nat \ {0}
    BY <1>2, LimTypes
  <2>2. /\ \A k, j \in 1..Len(granted) : k <= j => granted[k] <= granted[j]
        /\ \A k, j \in 1..Len(granted) : j = k + MaxCalls => granted[k] + Period <= granted[j]
    BY DEF LimInv
  <2> QED BY <1>1, <1>2, <2>1, <2>2, FewInAWindow
<1>5. ASSUME NEW c \in Callers, wakes[c] > now
      PROVE  Cardinality({i \in 1..n : granted[i] + Period > now}) = MaxCalls
  <2>1. PICK h \in 1..n : h = n - MaxCalls + 1 /\ wakes[c] <= granted[h] + Period
    BY <1>1, <1>5 DEF LimInv
  <2>2. granted[h] + Period > now
    BY <1>2, <1>3, <1>5, <2>1 DEF LimInv
  <2>3. ASSUME NEW i \in 1..n PROVE granted[i] + Period > now <=> i \in h..n
    <3>1. CASE h <= i
      <4>1. granted[h] <= granted[i]
        BY <1>1, <3>1 DEF LimInv
      <4>2. granted[i] \in Nat /\ granted[h] \in Nat
        BY <1>3
      <4>3. granted[i] + Period > now
        BY <1>2, <2>2, <4>1, <4>2
      <4> QED BY <1>2, <2>1, <3>1, <4>3
    <3>2. CASE ~(h <= i)
      <4>1. PICK j : j = i + MaxCalls
        OBVIOUS
      <4>2. j \in 1..n
        BY <1>2, <2>1, <3>2, <4>1
      <4>3. granted[i] + Period <= granted[j] /\ granted[j] <= now
        BY <1>1, <4>1, <4>2 DEF LimInv
      <4>4. granted[i] \in Nat /\ granted[j] \in Nat
        BY <1>3, <4>2
      <4>5. ~(granted[i] + Period > now)
        BY <1>2, <4>3, <4>4
      <4> QED BY <1>2, <2>1, <3>2, <4>5
    <3> QED BY <3>1, <3>2
  <2>4. {i \in 1..n : granted[i] + Period > now} = h..n
    <3>1. \A i \in h..n : i \in 1..n
      BY <1>2, <2>1
    <3> QED BY <2>3, <3>1
  <2>5. h \in Int /\ n \in Int /\ ~(h > n) /\ n - h + 1 = MaxCalls
    BY <1>2, <2>1
  <2> QED BY <2>4, <2>5, FS_Interval
<1> QED BY <1>1, <1>2, <1>4, <1>5 DEF OutboundBounded

\* No period has more calls than the limit, and a task sleeps only while as many
\* are of the last period: AsyncRateLimiter.acquire, for any number of tasks.
THEOREM OutboundIsBounded == LimiterSpec => []OutboundBounded
<1>1. LimiterInit => LimInv
  BY LimInitInv
<1>2. LimInv /\ [LimiterNext]_limVars => LimInv'
  BY LimStepInv
<1>3. LimInv => OutboundBounded
  BY LimInvBounds
<1> QED BY <1>1, <1>2, <1>3, PTL DEF LimiterSpec

-----------------------------------------------------------------------------
(***************************************************************************)
(* Listing crawl: nothing is silently missed.                              *)
(***************************************************************************)

Pair == Nat \X Nat

\* What is owed of a unit of n pages is in F: all of it, or what is on the pages
\* before q.
Exempt(o, n, p) == (o = "repeats" /\ n = 2) \/ (o = "bare" /\ p > 1)

UnitRead(u, n, o, F) ==
    /\ \A p \in 1..n : ~Exempt(o, n, p) => <<u, p>> \in F
    /\ n >= 1 => Ongoing \in F

UnitPagesRead(u, n, o, q, F) ==
    /\ \A p \in 1..n : p < q /\ ~Exempt(o, n, p) /\ ~(o = "repeats" /\ p > 1) => <<u, p>> \in F
    /\ n >= 1 /\ q > 1 => Ongoing \in F

\* How far the crawl is.
CrawledTo(un, cal, q, n, o, F) ==
    /\ \A u \in 1..Units : u < un => UnitRead(u, n[u], o[u], F)
    /\ un \in 1..Units =>
         IF cal = "category" THEN UnitRead(un, n[un], o[un], F)
         ELSE UnitPagesRead(un, n[un], o[un], q, F)

CraTypes ==
    /\ site \in AllSites
    /\ length \in [1..Units -> Nat]
    /\ odd \in [1..Units -> Oddities[site]]
    /\ unit \in 1..(Units + 1)
    /\ page \in Nat \ {0}
    /\ merged \in Seq(Pair) /\ links \in Seq(Pair)
    /\ problem \in BOOLEAN

CraShape ==
    /\ site \in OnePage => \A u \in 1..Units : length[u] <= 1
    /\ calendar \in {"day", "category"}
    /\ calendar = "category" => site = "sfstation"
    /\ site # "funcheap" => links = <<>>
    /\ phase = "details" => site = "funcheap"
    /\ phase = "extract" => site # "funcheap"
    /\ phase = "crawl" /\ unit \in 1..Units /\ odd[unit] = "repeats" =>
          page = 1 \/ (page = 2 /\ {<<unit, 1>>, Ongoing} \subseteq sliceSeen)

\* What no page of a truncated source shows before its cut is not owed.
Beyond ==
    {e \in Pair : /\ site = "truncated"
                  /\ \A u \in 1..Units : e \notin ToSet(FirstOf(Listing(u, 1), SectionCap))}

Gathered == ToSet(merged) \cup ToSet(links) \cup Beyond

Due == Listed \ (Unannounced \cup CutOff)

CraProgress ==
    ~problem =>
      /\ phase = "crawl" => CrawledTo(unit, calendar, page, length, odd, Gathered)
      /\ phase = "details" => Due \subseteq Gathered \cup rejected
      /\ phase = "extract" => Due \subseteq ToSet(merged) \cup kept \cup rejected \cup failures
      /\ phase = "returned" => Due \subseteq kept \cup rejected

CraInv == CraTypes /\ CraShape /\ CraProgress

-----------------------------------------------------------------------------
(* Lists and what is in them. *)

LEMMA InAppended ==
    ASSUME NEW m \in Seq(Pair), NEW x \in Pair
    PROVE  Append(m, x) \in Seq(Pair) /\ ToSet(Append(m, x)) = ToSet(m) \cup {x}
<1>1. PICK a, n : a = Append(m, x) /\ n = Len(m)
  OBVIOUS
<1>2. /\ a \in Seq(Pair) /\ Len(a) = n + 1 /\ a[n + 1] = x /\ n \in Nat
      /\ \A i \in 1..n : a[i] = m[i]
  BY <1>1, AppendProperties
<1>3. DOMAIN a = 1..(n + 1) /\ DOMAIN m = 1..n
  BY <1>1, <1>2
<1>4. ASSUME NEW y \in ToSet(a) PROVE y \in ToSet(m) \cup {x}
  <2>1. PICK i \in 1..(n + 1) : y = a[i]
    BY <1>3 DEF ToSet
  <2>2. CASE i = n + 1
    BY <1>2, <2>1, <2>2
  <2>3. CASE i # n + 1
    <3>1. i \in 1..n
      BY <1>2, <2>3
    <3> QED BY <1>2, <1>3, <2>1, <3>1 DEF ToSet
  <2> QED BY <2>2, <2>3
<1>5. ASSUME NEW y \in ToSet(m) PROVE y \in ToSet(a)
  <2>1. PICK i \in 1..n : y = m[i]
    BY <1>3 DEF ToSet
  <2>2. i \in 1..(n + 1) /\ a[i] = y
    BY <1>2, <2>1
  <2> QED BY <1>3, <2>2 DEF ToSet
<1>6. x \in ToSet(a)
  <2>1. n + 1 \in 1..(n + 1)
    BY <1>2
  <2> QED BY <1>2, <1>3, <2>1 DEF ToSet
<1> QED BY <1>1, <1>2, <1>4, <1>5, <1>6

LEMMA InDefaulted ==
    ASSUME NEW m \in Seq(Pair), NEW x \in Pair
    PROVE  SetDefault(m, x) \in Seq(Pair) /\ ToSet(SetDefault(m, x)) = ToSet(m) \cup {x}
BY InAppended DEF SetDefault

\* The candidates of a page.
LEMMA PageOfListing ==
    ASSUME CraTypes, NEW u \in 1..Units, NEW p
    PROVE  \/ /\ p \notin 1..length[u] /\ Listing(u, p) = <<>>
           \/ /\ p \in 1..length[u] /\ p = 1 /\ Listing(u, p) = << <<u, 1>>, Ongoing>>
           \/ /\ p \in 1..length[u] /\ p # 1 /\ Listing(u, p) = << <<u, p>> >>
BY DEF Listing

LEMMA EmptyListing ==
    ASSUME CraTypes, NEW u \in 1..Units, NEW p, Listing(u, p) = <<>>
    PROVE  p \notin 1..length[u]
<1>1. \A a, b : Len(<<a, b>>) = 2 /\ Len(<<a>>) = 1
  OBVIOUS
<1>2. Len(Listing(u, p)) = 0
  OBVIOUS
<1>3. CASE p \in 1..length[u] /\ p = 1
  <2>1. Listing(u, p) = << <<u, 1>>, Ongoing>>
    BY <1>3, PageOfListing
  <2> QED BY <1>1, <1>2, <2>1
<1>4. CASE p \in 1..length[u] /\ p # 1
  <2>1. Listing(u, p) = << <<u, p>> >>
    BY <1>4, PageOfListing
  <2> QED BY <1>1, <1>2, <2>1
<1> QED BY <1>3, <1>4

LEMMA PairsOfUnits == Ongoing \in Pair /\ \A u, p \in Nat : <<u, p>> \in Pair
BY DEF Ongoing, Pair

LEMMA UnitsAreNumbers == \A u \in 1..Units : u \in Nat /\ u >= 1
BY CrawlAssumption

\* A page is merged into what was found.
LEMMA Absorbed ==
    ASSUME CraTypes, NEW m \in Seq(Pair), NEW u \in 1..Units, NEW p \in Nat
    PROVE  /\ Absorb(m, Listing(u, p)) \in Seq(Pair)
           /\ ToSet(m) \subseteq ToSet(Absorb(m, Listing(u, p)))
           /\ p \in 1..length[u] => <<u, p>> \in ToSet(Absorb(m, Listing(u, p)))
           /\ p \in 1..length[u] /\ p = 1 => Ongoing \in ToSet(Absorb(m, Listing(u, p)))
<1>1. PICK l, a : l = Listing(u, p) /\ a = Absorb(m, l)
  OBVIOUS
<1>2. u \in Nat /\ <<u, p>> \in Pair /\ Ongoing \in Pair
  BY UnitsAreNumbers, PairsOfUnits
<1>3. CASE p \notin 1..length[u]
  <2>1. l = <<>>
    BY <1>1, <1>3, PageOfListing
  <2>2. Len(l) = 0
    BY <2>1
  <2>3. a = m
    BY <1>1, <2>2 DEF Absorb
  <2> QED BY <1>1, <1>3, <2>3
<1>4. CASE p \in 1..length[u] /\ p = 1
  <2>1. l = << <<u, p>>, Ongoing>>
    BY <1>1, <1>4, PageOfListing
  <2>2. Len(l) = 2 /\ l[1] = <<u, p>> /\ l[2] = Ongoing
    BY <2>1
  <2>3. a = SetDefault(SetDefault(m, <<u, p>>), Ongoing)
    BY <1>1, <2>2 DEF Absorb
  <2>4. PICK b : b = SetDefault(m, <<u, p>>)
    OBVIOUS
  <2>5. b \in Seq(Pair) /\ ToSet(b) = ToSet(m) \cup {<<u, p>>}
    BY <1>2, <2>4, InDefaulted
  <2>6. a \in Seq(Pair) /\ ToSet(a) = ToSet(b) \cup {Ongoing}
    BY <1>2, <2>3, <2>4, <2>5, InDefaulted
  <2> QED BY <1>1, <2>5, <2>6
<1>5. CASE p \in 1..length[u] /\ p # 1
  <2>1. l = << <<u, p>> >>
    BY <1>1, <1>5, PageOfListing
  <2>2. Len(l) = 1 /\ l[1] = <<u, p>>
    BY <2>1
  <2>3. a = SetDefault(m, <<u, p>>)
    BY <1>1, <2>2 DEF Absorb
  <2>4. a \in Seq(Pair) /\ ToSet(a) = ToSet(m) \cup {<<u, p>>}
    BY <1>2, <2>3, InDefaulted
  <2> QED BY <1>1, <1>5, <2>4
<1> QED BY <1>3, <1>4, <1>5

\* A list and its first.
LEMMA HeadAndTail ==
    ASSUME NEW m \in Seq(Pair), m # <<>>
    PROVE  /\ Tail(m) \in Seq(Pair) /\ Head(m) \in Pair
           /\ ToSet(m) = {Head(m)} \cup ToSet(Tail(m))
<1>1. PICK t, n : t = Tail(m) /\ n = Len(m)
  OBVIOUS
<1>2. n \in Nat /\ n # 0
  BY <1>1, EmptySeq
<1>3. t \in Seq(Pair) /\ Len(t) = n - 1 /\ \A i \in 1..Len(t) : t[i] = m[i + 1]
  BY <1>1, HeadTailProperties
<1>4. Head(m) \in Pair /\ Head(m) = m[1]
  BY HeadTailProperties
<1>5. DOMAIN m = 1..n /\ DOMAIN t = 1..(n - 1)
  BY <1>1, <1>2, <1>3
<1>6. ASSUME NEW y \in ToSet(m) PROVE y \in {Head(m)} \cup ToSet(t)
  <2>1. PICK i \in 1..n : y = m[i]
    BY <1>5 DEF ToSet
  <2>2. CASE i = 1
    BY <1>4, <2>1, <2>2
  <2>3. CASE i # 1
    <3>1. PICK j : j = i - 1
      OBVIOUS
    <3>2. j \in 1..(n - 1) /\ j + 1 = i
      BY <1>2, <2>3, <3>1
    <3>3. t[j] = m[i]
      BY <1>3, <1>5, <3>2
    <3> QED BY <1>5, <2>1, <3>2, <3>3 DEF ToSet
  <2> QED BY <2>2, <2>3
<1>7. ASSUME NEW y \in ToSet(t) PROVE y \in ToSet(m)
  <2>1. PICK i \in 1..(n - 1) : y = t[i]
    BY <1>5 DEF ToSet
  <2>2. i + 1 \in 1..n /\ t[i] = m[i + 1]
    BY <1>2, <1>3, <1>5, <2>1
  <2> QED BY <1>5, <2>1, <2>2 DEF ToSet
<1>8. Head(m) \in ToSet(m)
  <2>1. 1 \in 1..n
    BY <1>2
  <2> QED BY <1>4, <1>5, <2>1 DEF ToSet
<1> QED BY <1>1, <1>3, <1>4, <1>6, <1>7, <1>8

LEMMA Joined ==
    ASSUME NEW m \in Seq(Pair), NEW l \in Seq(Pair)
    PROVE  /\ m \o l \in Seq(Pair) /\ ToSet(m) \subseteq ToSet(m \o l)
           /\ \A i \in 1..Len(l) : l[i] \in ToSet(m \o l)
<1>1. PICK c, n, k : c = m \o l /\ n = Len(m) /\ k = Len(l)
  OBVIOUS
<1>2. /\ c \in Seq(Pair) /\ n \in Nat /\ k \in Nat /\ Len(c) = n + k
      /\ \A i \in 1..(n + k) : c[i] = IF i <= n THEN m[i] ELSE l[i - n]
  BY <1>1, ConcatProperties
<1>3. DOMAIN m = 1..n /\ DOMAIN c = 1..(n + k)
  BY <1>1, <1>2
<1>4. ASSUME NEW y \in ToSet(m) PROVE y \in ToSet(c)
  <2>1. PICK i \in 1..n : y = m[i]
    BY <1>3 DEF ToSet
  <2>2. i \in 1..(n + k) /\ c[i] = m[i]
    BY <1>2
  <2> QED BY <1>3, <2>1, <2>2 DEF ToSet
<1>5. ASSUME NEW i \in 1..k PROVE l[i] \in ToSet(c)
  <2>1. PICK j : j = n + i
    OBVIOUS
  <2>2. j \in 1..(n + k) /\ ~(j <= n) /\ j - n = i
    BY <1>2, <2>1
  <2>3. c[j] = l[i]
    BY <1>2, <2>2
  <2> QED BY <1>3, <2>2, <2>3 DEF ToSet
<1> QED BY <1>1, <1>2, <1>4, <1>5

-----------------------------------------------------------------------------
(* The crawl. *)

LEMMA OddOnes ==
    ASSUME CraTypes, NEW u \in 1..Units
    PROVE  /\ odd[u] = "repeats" => site = "eventbrite"
           /\ odd[u] = "uncounted" => site = "eventbrite"
           /\ odd[u] = "bare" => site = "funcheap"
<1>1. PICK o, s : o = odd[u] /\ s = site
  OBVIOUS
<1>2. o \in Oddities[s] /\ s \in AllSites
  BY <1>1 DEF CraTypes
<1>3. CASE s = "eventbrite"
  BY <1>2, <1>3, <1>1 DEF Oddities, AllSites
<1>4. CASE s = "funcheap"
  BY <1>2, <1>4, <1>1 DEF Oddities, AllSites
<1>5. CASE s # "eventbrite" /\ s # "funcheap"
  BY <1>2, <1>5, <1>1 DEF Oddities, AllSites
<1> QED BY <1>3, <1>4, <1>5

LEMMA BeyondStays == UNCHANGED worldVars => Beyond' = Beyond
BY DEF worldVars, Beyond, Listing

LEMMA BeyondIsNotDue ==
    /\ \A e \in Due : e \notin Beyond
    /\ site # "truncated" => Beyond = {}
BY DEF Due, CutOff, Beyond

LEMMA MoreIsRead ==
    ASSUME NEW u, NEW n, NEW o, NEW q, NEW F, NEW G, F \subseteq G
    PROVE  /\ UnitRead(u, n, o, F) => UnitRead(u, n, o, G)
           /\ UnitPagesRead(u, n, o, q, F) => UnitPagesRead(u, n, o, q, G)
BY DEF UnitRead, UnitPagesRead

\* The unit has been read: the ones before it and it are.
LEMMA UnitDone ==
    ASSUME NEW un \in 1..Units, NEW cal, NEW q, NEW n, NEW o, NEW F, NEW G, F \subseteq G,
           CrawledTo(un, cal, q, n, o, F), UnitRead(un, n[un], o[un], G)
    PROVE  CrawledTo(un + 1, "day", 1, n, o, G) /\ CrawledTo(un, "category", 1, n, o, G)
<1>1. ASSUME NEW u \in 1..Units, u < un + 1 PROVE UnitRead(u, n[u], o[u], G)
  <2>1. CASE u = un
    BY <2>1
  <2>2. CASE u # un
    <3>1. u < un
      BY <1>1, <2>2
    <3>2. UnitRead(u, n[u], o[u], F)
      BY <3>1 DEF CrawledTo
    <3> QED BY <3>2, MoreIsRead
  <2> QED BY <2>1, <2>2
<1>2. ASSUME NEW u PROVE UnitPagesRead(u, n[u], o[u], 1, G)
  <2>1. \A p \in 1..n[u] : ~(p < 1)
    OBVIOUS
  <2> QED BY <2>1 DEF UnitPagesRead
<1>3. \A u \in 1..Units : u < un => UnitRead(u, n[u], o[u], G)
  BY <1>1
<1>4. CrawledTo(un + 1, "day", 1, n, o, G)
  BY <1>1, <1>2 DEF CrawledTo
<1>5. CrawledTo(un, "category", 1, n, o, G)
  BY <1>3 DEF CrawledTo
<1> QED BY <1>4, <1>5

\* One page more has been read.
LEMMA PageDone ==
    ASSUME NEW un \in 1..Units, NEW q \in Nat \ {0}, NEW n, NEW o, NEW F, NEW G,
           n[un] \in Nat, F \subseteq G, CrawledTo(un, "day", q, n, o, F),
           q \in 1..n[un] => \/ <<un, q>> \in G
                             \/ Exempt(o[un], n[un], q)
                             \/ o[un] = "repeats" /\ q > 1,
           n[un] >= 1 /\ q = 1 => Ongoing \in G
    PROVE  CrawledTo(un, "day", q + 1, n, o, G)
<1>1. UnitPagesRead(un, n[un], o[un], q, F)
  BY DEF CrawledTo
<1>2. \A u \in 1..Units : u < un => UnitRead(u, n[u], o[u], G)
  BY MoreIsRead DEF CrawledTo
<1>3. ASSUME NEW p \in 1..n[un], p < q + 1, ~Exempt(o[un], n[un], p),
             ~(o[un] = "repeats" /\ p > 1)
      PROVE  <<un, p>> \in G
  <2>1. CASE p = q
    BY <1>3, <2>1
  <2>2. CASE p # q
    <3>1. p < q
      BY <1>3, <2>2
    <3> QED BY <1>1, <1>3, <3>1 DEF UnitPagesRead
  <2> QED BY <2>1, <2>2
<1>4. ASSUME n[un] >= 1, q + 1 > 1 PROVE Ongoing \in G
  <2>1. CASE q = 1
    BY <1>4, <2>1
  <2>2. CASE q # 1
    <3>1. q > 1
      BY <2>2
    <3> QED BY <1>1, <1>4, <3>1 DEF UnitPagesRead
  <2> QED BY <2>1, <2>2
<1>5. UnitPagesRead(un, n[un], o[un], q + 1, G)
  BY <1>3, <1>4 DEF UnitPagesRead
<1> QED BY <1>2, <1>5 DEF CrawledTo

\* What a step of the crawl leaves of the types and the shape.
Stays ==
    /\ UNCHANGED worldVars
    /\ merged' \in Seq(Pair) /\ links' \in Seq(Pair)
    /\ site # "funcheap" => links' = links

LEMMA FinishUnitInv ==
    ASSUME CraInv, phase = "crawl", unit \in 1..Units, Stays, NEW wrong \in BOOLEAN,
           FinishUnit(wrong), Gathered \subseteq Gathered',
           ~problem /\ ~wrong => UnitRead(unit, length[unit], odd[unit], Gathered')
    PROVE  CraInv'
<1>1. /\ phase' = phase /\ page' = 1 /\ problem' = (problem \/ wrong)
      /\ site' = site /\ length' = length /\ odd' = odd
  BY DEF FinishUnit, Stays, worldVars
<1>2. \/ site = "sfstation" /\ calendar' = "category" /\ unit' = unit
      \/ calendar' = "day" /\ unit' = unit + 1
  BY DEF FinishUnit
<1>3. unit + 1 \in 1..(Units + 1) /\ unit \in 1..(Units + 1)
  BY CrawlAssumption
<1>4. CraTypes'
  BY <1>1, <1>2, <1>3 DEF CraInv, CraTypes, Stays
<1>5. CraShape'
  BY <1>1, <1>2 DEF CraInv, CraShape, Stays
<1>6. CraProgress'
  <2> SUFFICES ASSUME ~problem' PROVE CrawledTo(unit', calendar', page', length, odd, Gathered')
    BY <1>1 DEF CraProgress
  <2>1. PICK F, G : F = Gathered /\ G = Gathered'
    OBVIOUS
  <2>2. ~problem /\ ~wrong
    BY <1>1
  <2>3. CrawledTo(unit, calendar, page, length, odd, F)
    BY <2>1, <2>2 DEF CraInv, CraProgress
  <2>4. F \subseteq G /\ UnitRead(unit, length[unit], odd[unit], G)
    BY <2>1, <2>2
  <2>5. /\ CrawledTo(unit + 1, "day", 1, length, odd, G)
        /\ CrawledTo(unit, "category", 1, length, odd, G)
    BY <2>3, <2>4, UnitDone
  <2> QED BY <1>1, <1>2, <2>1, <2>5
<1> QED BY <1>4, <1>5, <1>6 DEF CraInv

LEMMA NextPageInv ==
    ASSUME CraInv, phase = "crawl", unit \in 1..Units, Stays, NextPage, Gathered \subseteq Gathered',
           odd[unit] # "repeats",
           page \in 1..length[unit] => \/ <<unit, page>> \in Gathered'
                                       \/ Exempt(odd[unit], length[unit], page),
           length[unit] >= 1 /\ page = 1 => Ongoing \in Gathered'
    PROVE  CraInv'
<1>1. /\ phase' = phase /\ page' = page + 1 /\ problem' = problem /\ unit' = unit
      /\ calendar' = calendar /\ sliceSeen' = sliceSeen
      /\ site' = site /\ length' = length /\ odd' = odd
  BY DEF NextPage, Stays, worldVars
<1>2. page \in Nat \ {0} /\ page + 1 \in Nat \ {0} /\ length[unit] \in Nat
  BY DEF CraInv, CraTypes
<1>3. CraTypes'
  BY <1>1, <1>2 DEF CraInv, CraTypes, Stays
<1>4. CraShape'
  BY <1>1 DEF CraInv, CraShape, Stays
<1>5. CraProgress'
  <2> SUFFICES ASSUME ~problem PROVE CrawledTo(unit, calendar, page + 1, length, odd, Gathered')
    BY <1>1 DEF CraProgress
  <2>1. PICK F, G : F = Gathered /\ G = Gathered'
    OBVIOUS
  <2>2. CrawledTo(unit, calendar, page, length, odd, F)
    BY <2>1 DEF CraInv, CraProgress
  <2>3. CASE calendar = "category"
    <3>1. \A u \in 1..Units : UnitRead(u, length[u], odd[u], F)
                              => UnitRead(u, length[u], odd[u], G)
      BY <2>1, MoreIsRead
    <3>2. CrawledTo(unit, "category", page + 1, length, odd, G)
      BY <2>2, <2>3, <3>1 DEF CrawledTo
    <3> QED BY <2>1, <2>3, <3>2
  <2>4. CASE calendar # "category"
    <3>1. CrawledTo(unit, "day", page, length, odd, F)
      BY <2>2, <2>4 DEF CrawledTo
    <3>2. CrawledTo(unit, "day", page + 1, length, odd, G)
      BY <1>2, <2>1, <3>1, PageDone
    <3>3. CrawledTo(unit, calendar, page + 1, length, odd, G)
      BY <2>4, <3>2 DEF CrawledTo
    <3> QED BY <2>1, <3>3
  <2> QED BY <2>3, <2>4
<1> QED BY <1>3, <1>4, <1>5 DEF CraInv

\* The last page of a unit completes it.
LEMMA LastPageRead ==
    ASSUME CraTypes, NEW u \in 1..Units, NEW o, NEW n \in Nat, NEW q \in Nat \ {0},
           NEW F, NEW G, F \subseteq G, UnitPagesRead(u, n, o, q, F), q >= n,
           q \in 1..n => <<u, q>> \in G \/ Exempt(o, n, q),
           n >= 1 /\ q = 1 => Ongoing \in G,
           o = "repeats" => q = 1 \/ n <= 2
    PROVE  UnitRead(u, n, o, G)
<1>1. ASSUME NEW p \in 1..n, ~Exempt(o, n, p) PROVE <<u, p>> \in G
  <2>1. CASE p = q
    BY <1>1, <2>1
  <2>2. CASE p # q
    <3>1. p < q
      BY <2>2
    <3>2. ~(o = "repeats" /\ p > 1)
      BY <1>1, <3>1 DEF Exempt
    <3> QED BY <1>1, <3>1, <3>2 DEF UnitPagesRead
  <2> QED BY <2>1, <2>2
<1>2. ASSUME n >= 1 PROVE Ongoing \in G
  <2>1. CASE q = 1
    BY <1>2, <2>1
  <2>2. CASE q # 1
    <3>1. q > 1
      BY <2>2
    <3> QED BY <1>2, <3>1 DEF UnitPagesRead
  <2> QED BY <2>1, <2>2
<1> QED BY <1>1, <1>2 DEF UnitRead

\* The unit that is being read.
LEMMA AtUnit ==
    ASSUME CraInv, NEW s, Crawling(s)
    PROVE  /\ phase = "crawl" /\ site = s /\ unit \in 1..Units /\ CraTypes
           /\ page \in Nat \ {0} /\ page \in Nat /\ length[unit] \in Nat
           /\ merged \in Seq(Pair) /\ links \in Seq(Pair)
           /\ ~problem => /\ CrawledTo(unit, calendar, page, length, odd, Gathered)
                          /\ calendar = "category" =>
                                UnitRead(unit, length[unit], odd[unit], Gathered)
                          /\ calendar # "category" =>
                                UnitPagesRead(unit, length[unit], odd[unit], page, Gathered)
BY DEF CraInv, CraTypes, CraProgress, Crawling, CrawledTo

\* What a page adds.
LEMMA PageMerged ==
    ASSUME CraInv, NEW s, Crawling(s), merged' = Absorb(merged, Listing(unit, page)),
           links' = links, UNCHANGED worldVars
    PROVE  /\ Stays /\ Gathered \subseteq Gathered'
           /\ page \in 1..length[unit] => <<unit, page>> \in Gathered'
           /\ length[unit] >= 1 /\ page = 1 => Ongoing \in Gathered'
<1>1. /\ unit \in 1..Units /\ CraTypes /\ page \in Nat /\ length[unit] \in Nat
      /\ merged \in Seq(Pair) /\ links \in Seq(Pair)
  BY AtUnit
<1>2. PICK m : m = Absorb(merged, Listing(unit, page))
  OBVIOUS
<1>3. /\ m \in Seq(Pair) /\ ToSet(merged) \subseteq ToSet(m)
      /\ page \in 1..length[unit] => <<unit, page>> \in ToSet(m)
      /\ page \in 1..length[unit] /\ page = 1 => Ongoing \in ToSet(m)
  BY <1>1, <1>2, Absorbed
<1>4. Gathered' = ToSet(m) \cup ToSet(links) \cup Beyond
  BY <1>2, BeyondStays DEF Gathered
<1>5. Stays
  BY <1>1, <1>2, <1>3 DEF Stays
<1>6. length[unit] >= 1 /\ page = 1 => page \in 1..length[unit]
  BY <1>1
<1> QED BY <1>3, <1>4, <1>5, <1>6 DEF Gathered

LEMMA CalendarPageInv == ASSUME CraInv, ReadCalendarPage PROVE CraInv'
<1>1. PICK s \in {"dothebay", "sfstation"} : Crawling(s)
  BY DEF ReadCalendarPage
<1>2. PICK next \in BOOLEAN :
         /\ calendar = "day" /\ page < length[unit] => next
         /\ IF next /\ page < PageCap THEN NextPage ELSE FinishUnit(next)
  BY DEF ReadCalendarPage
<1>3. merged' = Absorb(merged, Listing(unit, page)) /\ links' = links /\ UNCHANGED worldVars
  BY DEF ReadCalendarPage
<1>4. /\ Stays /\ Gathered \subseteq Gathered'
      /\ page \in 1..length[unit] => <<unit, page>> \in Gathered'
      /\ length[unit] >= 1 /\ page = 1 => Ongoing \in Gathered'
  BY <1>1, <1>3, PageMerged
<1>5. /\ phase = "crawl" /\ site = s /\ unit \in 1..Units /\ CraTypes
      /\ page \in Nat \ {0} /\ length[unit] \in Nat
  BY <1>1, AtUnit
<1>6. odd[unit] # "repeats"
  BY <1>1, <1>5, OddOnes
<1>7. CASE next /\ page < PageCap
  BY <1>2, <1>4, <1>5, <1>6, <1>7, NextPageInv
<1>8. CASE ~(next /\ page < PageCap)
  <2>1. FinishUnit(next)
    BY <1>2, <1>8
  <2>2. ASSUME ~problem, ~next PROVE UnitRead(unit, length[unit], odd[unit], Gathered')
    <3>1. PICK F, G : F = Gathered /\ G = Gathered'
      OBVIOUS
    <3>2. CASE calendar = "category"
      <4>1. UnitRead(unit, length[unit], odd[unit], F) /\ F \subseteq G
        BY <1>1, <1>4, <2>2, <3>1, <3>2, AtUnit
      <4> QED BY <3>1, <4>1, MoreIsRead
    <3>3. CASE calendar # "category"
      <4>1. UnitPagesRead(unit, length[unit], odd[unit], page, F) /\ F \subseteq G
        BY <1>1, <1>4, <2>2, <3>1, <3>3, AtUnit
      <4>2. calendar = "day"
        BY <3>3 DEF CraInv, CraShape
      <4>3. page >= length[unit]
        BY <1>2, <1>5, <2>2, <4>2
      <4> QED BY <1>4, <1>5, <1>6, <3>1, <4>1, <4>3, LastPageRead
    <3> QED BY <3>2, <3>3
  <2> QED BY <1>4, <1>5, <2>1, <2>2, FinishUnitInv
<1> QED BY <1>7, <1>8

LEMMA CapAndFailureInv ==
    ASSUME CraInv, RequestCapReached \/ RequestFails \/ SliceCapReached \/ IndexPageFails
    PROVE  CraInv'
<1>1. /\ merged' = merged /\ links' = links /\ UNCHANGED worldVars
      /\ phase = "crawl" /\ unit \in 1..Units
      /\ FinishUnit(TRUE) \/ Raise \/ CutShort
  BY DEF RequestCapReached, RequestFails, SliceCapReached, IndexPageFails, Crawling
<1>2. Stays /\ Gathered \subseteq Gathered'
  BY <1>1, BeyondStays DEF Stays, Gathered, CraInv, CraTypes
<1>3. site' = site /\ length' = length /\ odd' = odd
  BY <1>1 DEF worldVars
<1>4. CASE FinishUnit(TRUE)
  BY <1>1, <1>2, <1>4, FinishUnitInv
<1>5. CASE Raise
  <2>1. /\ phase' = "raised" /\ problem' = problem /\ page' = page /\ unit' = unit
        /\ calendar' = calendar /\ sliceSeen' = sliceSeen
    BY <1>5 DEF Raise
  <2> QED BY <1>2, <1>3, <2>1 DEF Stays, CraInv, CraTypes, CraShape, CraProgress
<1>6. CASE CutShort
  <2>1. /\ phase' = phase /\ problem' = TRUE /\ page' = page /\ unit' = Units + 1
        /\ calendar' = calendar /\ sliceSeen' = sliceSeen
    BY <1>6 DEF CutShort
  <2>2. Units + 1 \in 1..(Units + 1) /\ Units + 1 \notin 1..Units
    BY CrawlAssumption
  <2>3. CraTypes'
    BY <1>2, <1>3, <2>1, <2>2 DEF Stays, CraInv, CraTypes
  <2>4. CraShape'
    BY <1>2, <1>3, <2>1, <2>2 DEF Stays, CraInv, CraShape
  <2>5. CraProgress'
    BY <2>1 DEF CraProgress
  <2> QED BY <2>3, <2>4, <2>5 DEF CraInv
<1> QED BY <1>1, <1>4, <1>5, <1>6

\* A slice's page, which may be the first one again.
LEMMA SlicePageInv == ASSUME CraInv, ReadSlicePage PROVE CraInv'
<1>1. /\ Crawling("eventbrite") /\ merged' = Absorb(merged, SlicePage)
      /\ links' = links /\ UNCHANGED worldVars
  BY DEF ReadSlicePage
<1>2. /\ phase = "crawl" /\ site = "eventbrite" /\ unit \in 1..Units /\ CraTypes
      /\ page \in Nat \ {0} /\ page \in Nat /\ length[unit] \in Nat
      /\ merged \in Seq(Pair) /\ links \in Seq(Pair)
  BY <1>1, AtUnit
<1>3. PICK p, m : p = (IF odd[unit] = "repeats" THEN 1 ELSE page) /\ m = Absorb(merged, SlicePage)
  OBVIOUS
<1>4. p \in Nat /\ SlicePage = Listing(unit, p) /\ (odd[unit] # "repeats" => p = page)
      /\ (odd[unit] = "repeats" => p = 1) /\ (page = 1 => p = 1)
  BY <1>2, <1>3 DEF SlicePage
<1>5. /\ m \in Seq(Pair) /\ ToSet(merged) \subseteq ToSet(m)
      /\ p \in 1..length[unit] => <<unit, p>> \in ToSet(m)
      /\ p \in 1..length[unit] /\ p = 1 => Ongoing \in ToSet(m)
  BY <1>2, <1>3, <1>4, Absorbed
<1>6. Gathered' = ToSet(m) \cup ToSet(links) \cup Beyond
  BY <1>1, <1>3, BeyondStays DEF Gathered
<1>7. Stays /\ Gathered \subseteq Gathered'
  BY <1>1, <1>2, <1>3, <1>5, <1>6 DEF Stays, Gathered
<1>8. PICK F, G : F = Gathered /\ G = Gathered'
  OBVIOUS
<1>9. page \in 1..length[unit] => <<unit, page>> \in G \/ (odd[unit] = "repeats" /\ page > 1)
  <2>1. CASE odd[unit] # "repeats"
    BY <1>4, <1>5, <1>6, <1>8, <2>1
  <2>2. CASE odd[unit] = "repeats" /\ page = 1
    BY <1>4, <1>5, <1>6, <1>8, <2>2
  <2>3. CASE odd[unit] = "repeats" /\ page # 1
    BY <1>2, <2>3
  <2> QED BY <2>1, <2>2, <2>3
<1>10. length[unit] >= 1 /\ page = 1 => Ongoing \in G
  <2>1. length[unit] >= 1 /\ page = 1 => p = 1 /\ p \in 1..length[unit]
    BY <1>2, <1>4
  <2> QED BY <1>5, <1>6, <1>8, <2>1
<1>11. calendar = "day"
  BY <1>2 DEF CraInv, CraShape
<1>12. odd[unit] = "repeats" => page = 1 \/ (page = 2 /\ {<<unit, 1>>, Ongoing} \subseteq sliceSeen)
  BY <1>2 DEF CraInv, CraShape
<1>13. F \subseteq G /\ (~problem => CrawledTo(unit, "day", page, length, odd, F)
                                     /\ UnitPagesRead(unit, length[unit], odd[unit], page, F))
  BY <1>1, <1>7, <1>8, <1>11, AtUnit
<1>14. CASE FinishUnit(TRUE)
  BY <1>2, <1>7, <1>14, FinishUnitInv
<1>15. CASE FinishUnit(FALSE) /\ page >= length[unit]
  <2>1. ASSUME ~problem PROVE UnitRead(unit, length[unit], odd[unit], G)
    <3>1. odd[unit] = "repeats" => page = 1 \/ length[unit] <= 2
      BY <1>2, <1>12, <1>15
    <3>2. page \in 1..length[unit] =>
             <<unit, page>> \in G \/ Exempt(odd[unit], length[unit], page)
      <4>1. ASSUME odd[unit] = "repeats", page > 1, page \in 1..length[unit]
            PROVE  Exempt(odd[unit], length[unit], page)
        <5>1. page = 2 /\ length[unit] = 2
          BY <1>2, <1>12, <1>15, <4>1
        <5> QED BY <4>1, <5>1 DEF Exempt
      <4> QED BY <1>9, <4>1
    <3> QED BY <1>2, <1>10, <1>13, <1>15, <2>1, <3>1, <3>2, LastPageRead
  <2> QED BY <1>2, <1>7, <1>8, <1>15, <2>1, FinishUnitInv
<1>16. CASE /\ ~(page >= length[unit]) /\ ~(ToSet(SlicePage) \subseteq sliceSeen)
            /\ sliceSeen' = sliceSeen \cup ToSet(SlicePage)
            /\ page' = page + 1
            /\ UNCHANGED <<problem, calendar, unit, phase>>
  <2>1. site' = site /\ length' = length /\ odd' = odd
    BY <1>1 DEF worldVars
  <2>2. CraTypes'
    BY <1>2, <1>7, <1>16, <2>1 DEF Stays, CraInv, CraTypes
  <2>3. ASSUME odd[unit] = "repeats"
        PROVE  page + 1 = 2 /\ {<<unit, 1>>, Ongoing} \subseteq sliceSeen'
    <3>1. length[unit] >= 1 /\ 1 \in 1..length[unit]
      BY <1>2, <1>16
    <3>2. SlicePage = << <<unit, 1>>, Ongoing>>
      BY <1>2, <1>4, <2>3, <3>1, PageOfListing
    <3>3. ToSet(SlicePage) = {<<unit, 1>>, Ongoing}
      BY <3>2 DEF ToSet
    <3> QED BY <1>12, <1>16, <2>3, <3>3
  <2>4. CraShape'
    BY <1>2, <1>7, <1>11, <1>16, <2>1, <2>3 DEF Stays, CraInv, CraShape
  <2>5. CraProgress'
    <3> SUFFICES ASSUME ~problem PROVE CrawledTo(unit, "day", page + 1, length, odd, G)
      BY <1>2, <1>8, <1>11, <1>16, <2>1 DEF CraProgress
    <3> QED BY <1>2, <1>9, <1>10, <1>13, PageDone
  <2> QED BY <2>2, <2>4, <2>5 DEF CraInv
<1> QED BY <1>14, <1>15, <1>16 DEF ReadSlicePage

\* An index page: its events, or the links of a bare first page.
LEMMA IndexPageInv == ASSUME CraInv, ReadIndexPage PROVE CraInv'
<1>1. /\ Crawling("funcheap") /\ UNCHANGED worldVars
  BY DEF ReadIndexPage
<1>2. /\ phase = "crawl" /\ site = "funcheap" /\ unit \in 1..Units /\ CraTypes
      /\ page \in Nat \ {0} /\ page \in Nat /\ length[unit] \in Nat
      /\ merged \in Seq(Pair) /\ links \in Seq(Pair)
  BY <1>1, AtUnit
<1>3. PICK shown : shown = IF odd[unit] = "bare" THEN <<>> ELSE Listing(unit, page)
  OBVIOUS
<1>4. /\ merged' = Absorb(merged, shown)
      /\ IF shown = <<>>
         THEN /\ links' = IF page = 1 THEN Absorb(links, Listing(unit, 1)) ELSE links
              /\ FinishUnit(FALSE)
         ELSE /\ UNCHANGED links
              /\ \E next \in BOOLEAN :
                    /\ page < length[unit] => next
                    /\ IF next /\ page < UnitCap THEN NextPage ELSE FinishUnit(next)
  BY <1>3 DEF ReadIndexPage
<1>5. PICK F, G : F = Gathered /\ G = Gathered'
  OBVIOUS
<1>6. odd[unit] # "repeats"
  BY <1>2, OddOnes
<1>7. calendar # "category"
  BY <1>2 DEF CraInv, CraShape
<1>8. CASE shown = <<>>
  <2>1. merged' = merged
    <3>1. Len(shown) = 0
      BY <1>8
    <3> QED BY <1>4, <3>1 DEF Absorb
  <2>2. PICK l : l = Absorb(links, Listing(unit, 1))
    OBVIOUS
  <2>3. /\ l \in Seq(Pair) /\ ToSet(links) \subseteq ToSet(l)
        /\ 1 \in 1..length[unit] => <<unit, 1>> \in ToSet(l) /\ Ongoing \in ToSet(l)
    <3>1. 1 \in Nat
      OBVIOUS
    <3> QED BY <1>2, <2>2, <3>1, Absorbed
  <2>4. FinishUnit(FALSE) /\ (page = 1 => links' = l) /\ (page # 1 => links' = links)
    BY <1>4, <1>8, <2>2
  <2>5. links' \in Seq(Pair) /\ ToSet(links) \subseteq ToSet(links')
    BY <1>2, <2>3, <2>4
  <2>6. Stays /\ Gathered \subseteq Gathered'
    BY <1>1, <1>2, <2>1, <2>5, BeyondStays DEF Stays, Gathered
  <2>7. ASSUME ~problem PROVE UnitRead(unit, length[unit], odd[unit], G)
    <3>1. UnitPagesRead(unit, length[unit], odd[unit], page, F) /\ F \subseteq G
      BY <1>1, <1>5, <1>7, <2>6, <2>7, AtUnit
    <3>2. PICK n, o : n = length[unit] /\ o = odd[unit]
      OBVIOUS
    <3>3. CASE page = 1
      <4>1. 1 \in 1..n => <<unit, 1>> \in G /\ Ongoing \in G
        BY <1>5, <2>3, <2>4, <3>2, <3>3 DEF Gathered
      <4>2. o = "bare" \/ n = 0
        <5>1. ASSUME o # "bare" PROVE page \notin 1..n
          <6>1. odd[unit] # "bare"
            BY <3>2, <5>1
          <6>2. Listing(unit, page) = <<>>
            BY <1>3, <1>8, <6>1
          <6>3. page \notin 1..length[unit]
            BY <1>2, <6>2, EmptyListing
          <6> QED BY <3>2, <6>3
        <5> QED BY <1>2, <3>2, <3>3, <5>1
      <4>3. ASSUME NEW p \in 1..n, ~Exempt(o, n, p) PROVE p = 1 /\ 1 \in 1..n
        BY <1>2, <3>2, <4>2, <4>3 DEF Exempt
      <4>4. n >= 1 => 1 \in 1..n
        BY <1>2, <3>2
      <4> QED BY <3>2, <4>1, <4>3, <4>4 DEF UnitRead
    <3>4. CASE page # 1
      <4>1. page > 1 /\ n \in Nat
        BY <1>2, <3>2, <3>4
      <4>2. ASSUME NEW p \in 1..n, ~Exempt(o, n, p) PROVE <<unit, p>> \in G
        <5>1. CASE o = "bare"
          <6>1. ~(p > 1)
            BY <4>2, <5>1 DEF Exempt
          <6>2. p < page
            BY <4>1, <6>1
          <6> QED BY <1>6, <3>1, <3>2, <4>2, <6>2 DEF UnitPagesRead
        <5>2. CASE o # "bare"
          <6>1. page \notin 1..n
            <7>1. odd[unit] # "bare"
              BY <3>2, <5>2
            <7>2. Listing(unit, page) = <<>>
              BY <1>3, <1>8, <7>1
            <7>3. page \notin 1..length[unit]
              BY <1>2, <7>2, EmptyListing
            <7> QED BY <3>2, <7>3
          <6>2. p < page
            BY <1>2, <4>1, <6>1
          <6> QED BY <1>6, <3>1, <3>2, <4>2, <6>2 DEF UnitPagesRead
        <5> QED BY <5>1, <5>2
      <4>3. n >= 1 => Ongoing \in G
        BY <3>1, <3>2, <4>1 DEF UnitPagesRead
      <4> QED BY <3>2, <4>2, <4>3 DEF UnitRead
    <3> QED BY <3>3, <3>4
  <2> QED BY <1>2, <1>5, <2>4, <2>6, <2>7, FinishUnitInv
<1>9. CASE shown # <<>>
  <2>1. shown = Listing(unit, page) /\ odd[unit] # "bare"
    BY <1>3, <1>9
  <2>2. /\ Stays /\ Gathered \subseteq Gathered'
        /\ page \in 1..length[unit] => <<unit, page>> \in Gathered'
        /\ length[unit] >= 1 /\ page = 1 => Ongoing \in Gathered'
    BY <1>1, <1>4, <1>9, <2>1, PageMerged
  <2>3. PICK next \in BOOLEAN :
           /\ page < length[unit] => next
           /\ IF next /\ page < UnitCap THEN NextPage ELSE FinishUnit(next)
    BY <1>4, <1>9
  <2>4. CASE next /\ page < UnitCap
    BY <1>2, <1>6, <2>2, <2>3, <2>4, NextPageInv
  <2>5. CASE ~(next /\ page < UnitCap)
    <3>1. FinishUnit(next)
      BY <2>3, <2>5
    <3>2. ASSUME ~problem, ~next PROVE UnitRead(unit, length[unit], odd[unit], G)
      <4>1. UnitPagesRead(unit, length[unit], odd[unit], page, F) /\ F \subseteq G
        BY <1>1, <1>5, <1>7, <2>2, <3>2, AtUnit
      <4>2. page >= length[unit]
        BY <1>2, <2>3, <3>2
      <4> QED BY <1>2, <1>5, <1>6, <2>2, <4>1, <4>2, LastPageRead
    <3> QED BY <1>2, <1>5, <2>2, <3>1, <3>2, FinishUnitInv
  <2> QED BY <2>4, <2>5
<1> QED BY <1>8, <1>9

\* A pair that is cut after its first.
LEMMA FirstOfPair ==
    ASSUME NEW a, NEW b
    PROVE  FirstOf(<<a, b>>, 1) = <<a>>
<1>1. PICK s, t : s = <<a, b>> /\ t = SubSeq(s, 1, 1)
  OBVIOUS
<1>2. s \in Seq({a, b}) /\ Len(s) = 2 /\ s[1] = a
  BY <1>1
<1>3. 1 \in Int /\ \A i \in 1..1 : s[i] \in {a, b}
  BY <1>1
<1>4. t \in Seq({a, b}) /\ Len(t) = 1 /\ t[1] = a
  BY <1>1, <1>2, <1>3, SubSeqProperties
<1>5. t \in [1..1 -> {a, b}] /\ <<a>>[1] = a
  BY <1>4, LenProperties
<1>6. t = [i \in 1..1 |-> t[i]] /\ <<a>> = [i \in 1..1 |-> <<a>>[i]]
  BY <1>5
<1>7. \A i \in 1..1 : t[i] = <<a>>[i]
  BY <1>4, <1>5
<1>8. t = <<a>>
  BY <1>6, <1>7, Zenon
<1>9. FirstOf(s, 1) = t
  BY <1>1, <1>2 DEF FirstOf
<1> QED BY <1>1, <1>8, <1>9

\* What is left of a page that is cut after its first.
LEMMA FirstOne ==
    ASSUME CraTypes, NEW u \in 1..Units, SectionCap = 1
    PROVE  \/ FirstOf(Listing(u, 1), SectionCap) = <<>>
           \/ FirstOf(Listing(u, 1), SectionCap) = << <<u, 1>> >>
<1>1. CASE Listing(u, 1) = <<>>
  <2>1. Len(Listing(u, 1)) = 0
    BY <1>1
  <2> QED BY <1>1, <2>1 DEF FirstOf
<1>2. CASE Listing(u, 1) = << <<u, 1>>, Ongoing>>
  BY <1>2, FirstOfPair
<1> QED BY <1>1, <1>2, PageOfListing

\* A section's page is whole, or what it lacks is beyond the cut of every page.
LEMMA SectionShown ==
    ASSUME CraTypes, site \in OnePage, unit \in 1..Units
    PROVE  \/ SectionPage = <<>> /\ 1 \notin 1..length[unit]
           \/ SectionPage = << <<unit, 1>>, Ongoing>>
           \/ SectionPage = << <<unit, 1>> >> /\ Ongoing \in Beyond
<1>1. PICK l : l = Listing(unit, 1)
  OBVIOUS
<1>2. \/ l = <<>> /\ 1 \notin 1..length[unit]
      \/ l = << <<unit, 1>>, Ongoing>> /\ 1 \in 1..length[unit]
  BY <1>1, PageOfListing
<1>3. CASE site # "truncated"
  BY <1>1, <1>2, <1>3 DEF SectionPage
<1>4. CASE site = "truncated"
  <2>1. SectionPage = FirstOf(l, SectionCap) /\ SectionCap \in Nat \ {0}
    BY <1>1, <1>4, CrawlAssumption DEF SectionPage
  <2>2. CASE l = <<>> /\ 1 \notin 1..length[unit]
    <3>1. Len(l) = 0
      BY <2>2
    <3> QED BY <2>1, <2>2, <3>1 DEF FirstOf
  <2>3. CASE l = << <<unit, 1>>, Ongoing>> /\ SectionCap # 1
    <3>1. Len(l) = 2
      BY <2>3
    <3>2. ~(Len(l) > SectionCap)
      BY <2>1, <2>3, <3>1
    <3> QED BY <2>1, <2>3, <3>2 DEF FirstOf
  <2>4. CASE l = << <<unit, 1>>, Ongoing>> /\ SectionCap = 1
    <3>1. SectionPage = << <<unit, 1>> >>
      BY <2>1, <2>4, FirstOfPair
    <3>2. ASSUME NEW u \in 1..Units PROVE Ongoing \notin ToSet(FirstOf(Listing(u, 1), SectionCap))
      <4>1. PICK a : a = <<u, 1>>
        OBVIOUS
      <4>2. a # Ongoing
        BY <4>1, UnitsAreNumbers DEF Ongoing
      <4>3. ToSet(<<a>>) = {a} /\ ToSet(<<>>) = {}
        BY DEF ToSet
      <4> QED BY <2>4, <4>1, <4>2, <4>3, FirstOne
    <3> QED BY <1>4, <3>1, <3>2, PairsOfUnits DEF Beyond
  <2> QED BY <1>2, <2>2, <2>3, <2>4
<1> QED BY <1>3, <1>4

\* A section is one page.
LEMMA SectionInv == ASSUME CraInv, ReadSection PROVE CraInv'
<1>1. /\ Crawling("truncated") \/ Crawling("single")
      /\ UNCHANGED worldVars /\ links' = links
      /\ \/ merged' = merged \o SectionPage /\ FinishUnit(FALSE)
         \/ merged' = merged /\ Raise
  BY DEF ReadSection
<1>2. /\ phase = "crawl" /\ site \in OnePage /\ unit \in 1..Units /\ CraTypes
      /\ length[unit] \in Nat /\ unit \in Nat
      /\ merged \in Seq(Pair) /\ links \in Seq(Pair)
  BY <1>1, AtUnit, UnitsAreNumbers DEF OnePage
<1>3. CASE merged' = merged /\ Raise
  <2>1. /\ phase' = "raised" /\ problem' = problem /\ page' = page /\ unit' = unit
        /\ calendar' = calendar /\ sliceSeen' = sliceSeen
        /\ site' = site /\ length' = length /\ odd' = odd
    BY <1>1, <1>3 DEF Raise, worldVars
  <2> QED BY <1>1, <1>2, <1>3, <2>1 DEF CraInv, CraTypes, CraShape, CraProgress
<1>4. CASE merged' = merged \o SectionPage /\ FinishUnit(FALSE)
  <2>1. PICK l : l = SectionPage
    OBVIOUS
  <2>2. \/ l = <<>> /\ 1 \notin 1..length[unit]
        \/ l = << <<unit, 1>>, Ongoing>>
        \/ l = << <<unit, 1>> >> /\ Ongoing \in Beyond
    BY <1>2, <2>1, SectionShown
  <2>3. l \in Seq(Pair)
    <3>1. <<unit, 1>> \in Pair /\ Ongoing \in Pair
      BY <1>2, PairsOfUnits
    <3>2. \A a, b \in Pair : <<a, b>> \in Seq(Pair) /\ <<a>> \in Seq(Pair)
      OBVIOUS
    <3>3. << <<unit, 1>>, Ongoing>> \in Seq(Pair) /\ << <<unit, 1>> >> \in Seq(Pair)
      BY <3>1, <3>2
    <3>4. <<>> \in Seq(Pair)
      OBVIOUS
    <3> QED BY <2>2, <3>3, <3>4
  <2>4. /\ merged \o l \in Seq(Pair) /\ ToSet(merged) \subseteq ToSet(merged \o l)
        /\ \A i \in 1..Len(l) : l[i] \in ToSet(merged \o l)
    BY <1>2, <2>3, Joined
  <2>5. merged' = merged \o l
    BY <1>4, <2>1
  <2>6. Stays /\ Gathered \subseteq Gathered'
    BY <1>1, <1>2, <2>4, <2>5, BeyondStays DEF Stays, Gathered
  <2>7. PICK G : G = Gathered'
    OBVIOUS
  <2>8. UnitRead(unit, length[unit], odd[unit], G)
    <3>1. PICK n : n = length[unit]
      OBVIOUS
    <3>2. n \in Nat /\ n <= 1
      BY <1>2, <3>1 DEF CraInv, CraShape
    <3>3. ASSUME n >= 1 PROVE <<unit, 1>> \in G /\ Ongoing \in G
      <4>1. 1 \in 1..length[unit]
        BY <3>1, <3>2, <3>3
      <4>2. CASE l = << <<unit, 1>>, Ongoing>>
        <5>1. Len(l) = 2 /\ l[1] = <<unit, 1>> /\ l[2] = Ongoing
          BY <4>2
        <5>2. <<unit, 1>> \in ToSet(merged \o l) /\ Ongoing \in ToSet(merged \o l)
          BY <2>4, <5>1
        <5> QED BY <2>5, <2>7, <5>2 DEF Gathered
      <4>3. CASE l = << <<unit, 1>> >> /\ Ongoing \in Beyond
        <5>1. Len(l) = 1 /\ l[1] = <<unit, 1>>
          BY <4>3
        <5>2. <<unit, 1>> \in ToSet(merged \o l)
          BY <2>4, <5>1
        <5> QED BY <1>1, <2>5, <2>7, <4>3, <5>2, BeyondStays DEF Gathered
      <4> QED BY <2>2, <4>1, <4>2, <4>3
    <3>4. \A p \in 1..n : p = 1 /\ n >= 1
      BY <3>2
    <3> QED BY <3>1, <3>3, <3>4 DEF UnitRead
  <2> QED BY <1>2, <1>4, <2>6, <2>7, <2>8, FinishUnitInv
<1> QED BY <1>1, <1>3, <1>4

-----------------------------------------------------------------------------
(* After the crawl. *)

\* When every unit has been read, everything that is due is found.
LEMMA AllFound ==
    ASSUME CraInv, phase = "crawl", unit = Units + 1, ~problem
    PROVE  Due \subseteq Gathered
<1>1. \A u \in 1..Units : u < unit
  BY CrawlAssumption
<1>2. \A u \in 1..Units : UnitRead(u, length[u], odd[u], Gathered)
  BY <1>1 DEF CraInv, CraProgress, CrawledTo
<1>3. SUFFICES ASSUME NEW e \in Due PROVE e \in Gathered
  OBVIOUS
<1>4. e \in Listed /\ e \notin Unannounced
  BY DEF Due
<1>5. PICK u \in 1..Units, q \in 1..MaxPages : e \in ToSet(Listing(u, q))
  BY <1>4 DEF Listed
<1>6. CraTypes /\ u \in Nat /\ u >= 1 /\ length[u] \in Nat
  BY UnitsAreNumbers DEF CraInv, CraTypes
<1>7. q \in 1..length[u] /\ (e = Ongoing \/ e = <<u, q>>)
  <2>1. CASE Listing(u, q) = <<>>
    BY <1>5, <2>1 DEF ToSet
  <2>2. CASE Listing(u, q) = << <<u, 1>>, Ongoing>> /\ q = 1 /\ q \in 1..length[u]
    BY <1>5, <2>2 DEF ToSet
  <2>3. CASE Listing(u, q) = << <<u, q>> >> /\ q \in 1..length[u]
    BY <1>5, <2>3 DEF ToSet
  <2> QED BY <1>6, <2>1, <2>2, <2>3, PageOfListing
<1>8. CASE e = Ongoing
  <2>1. length[u] >= 1
    BY <1>6, <1>7
  <2> QED BY <1>2, <1>8, <2>1 DEF UnitRead
<1>9. CASE e # Ongoing
  <2>1. e = <<u, q>> /\ e[1] = u /\ e[2] = q
    BY <1>7, <1>9
  <2>2. ~(odd[e[1]] = "repeats" /\ length[e[1]] = 2) /\ ~(odd[e[1]] = "bare" /\ e[2] > 1)
    BY <1>4, <1>9 DEF Unannounced
  <2>3. ~Exempt(odd[u], length[u], q)
    BY <2>1, <2>2 DEF Exempt
  <2> QED BY <1>2, <1>7, <2>1, <2>3 DEF UnitRead
<1> QED BY <1>8, <1>9

LEMMA DueShrinks ==
    ASSUME UNCHANGED worldVars, swallowed \subseteq swallowed'
    PROVE  Due' \subseteq Due /\ \A e \in Due' : e \notin swallowed'
<1>1. length' = length /\ odd' = odd
  BY DEF worldVars
<1>2. Listed' = Listed
  BY <1>1 DEF Listed, Listing
<1>3. Unannounced \subseteq Unannounced' /\ swallowed' \subseteq Unannounced'
  BY <1>1, <1>2 DEF Unannounced
<1>4. CutOff' = CutOff
  BY <1>2 DEF CutOff, Listing, worldVars
<1> QED BY <1>2, <1>3, <1>4 DEF Due

LEMMA EndIndexesInv == ASSUME CraInv, EndIndexes PROVE CraInv'
<1>1. /\ phase = "crawl" /\ site = "funcheap" /\ unit = Units + 1
      /\ phase' = (IF merged = <<>> /\ links = <<>> THEN "returned" ELSE "details")
      /\ UNCHANGED worldVars /\ unit' = unit /\ calendar' = calendar /\ page' = page
      /\ merged' = merged /\ links' = links /\ problem' = problem /\ swallowed' = swallowed
      /\ kept' = kept /\ rejected' = rejected /\ sliceSeen' = sliceSeen
      /\ site' = site /\ length' = length /\ odd' = odd
  BY DEF EndIndexes, foundVars, worldVars
<1>2. CraTypes' /\ CraShape'
  BY <1>1 DEF CraInv, CraTypes, CraShape
<1>3. Due' \subseteq Due
  BY <1>1, DueShrinks
<1>4. CraProgress'
  <2> SUFFICES ASSUME ~problem
               PROVE  /\ phase' = "details" => Due' \subseteq Gathered' \cup rejected'
                      /\ phase' = "returned" => Due' \subseteq kept' \cup rejected'
    BY <1>1 DEF CraProgress
  <2>1. Due' \subseteq Gathered
    BY <1>1, <1>3, AllFound
  <2>2. Gathered' = Gathered
    BY <1>1, BeyondStays DEF Gathered
  <2>3. merged = <<>> /\ links = <<>> => Gathered = {}
    BY <1>1, BeyondIsNotDue DEF Gathered, ToSet
  <2> QED BY <1>1, <2>1, <2>2, <2>3
<1> QED BY <1>2, <1>4 DEF CraInv

LEMMA SkipDetailInv == ASSUME CraInv, SkipDetail PROVE CraInv'
<1>1. /\ phase = "details" /\ links # <<>> /\ Head(links) \in ToSet(merged)
      /\ links' = Tail(links) /\ UNCHANGED worldVars /\ unit' = unit /\ calendar' = calendar
      /\ page' = page /\ merged' = merged /\ problem' = problem /\ swallowed' = swallowed
      /\ phase' = phase /\ rejected' = rejected /\ sliceSeen' = sliceSeen
      /\ site' = site /\ length' = length /\ odd' = odd
  BY DEF SkipDetail, Known, foundVars, worldVars
<1>2. Tail(links) \in Seq(Pair) /\ ToSet(links) = {Head(links)} \cup ToSet(Tail(links))
  BY <1>1, HeadAndTail DEF CraInv, CraTypes
<1>3. CraTypes' /\ CraShape'
  BY <1>1, <1>2 DEF CraInv, CraTypes, CraShape
<1>4. Due' \subseteq Due /\ Gathered' = Gathered
  BY <1>1, <1>2, DueShrinks, BeyondStays DEF Gathered
<1>5. CraProgress'
  BY <1>1, <1>4 DEF CraInv, CraProgress
<1> QED BY <1>3, <1>5 DEF CraInv

LEMMA VisitDetailInv == ASSUME CraInv, VisitDetail PROVE CraInv'
<1>1. /\ phase = "details" /\ links # <<>>
      /\ links' = Tail(links) /\ UNCHANGED worldVars /\ unit' = unit /\ calendar' = calendar
      /\ page' = page /\ problem' = problem /\ phase' = phase /\ sliceSeen' = sliceSeen
      /\ site' = site /\ length' = length /\ odd' = odd
  BY DEF VisitDetail, worldVars
<1>2. PICK x : x = Head(links)
  OBVIOUS
<1>3. \/ merged' = Append(merged, x) /\ rejected' = rejected /\ swallowed' = swallowed
      \/ rejected' = rejected \cup {x} /\ merged' = merged /\ swallowed' = swallowed
      \/ swallowed' = swallowed \cup {x} /\ merged' = merged /\ rejected' = rejected
  BY <1>2 DEF VisitDetail
<1>4. /\ Tail(links) \in Seq(Pair) /\ x \in Pair
      /\ ToSet(links) = {x} \cup ToSet(Tail(links))
  BY <1>1, <1>2, HeadAndTail DEF CraInv, CraTypes
<1>5. Append(merged, x) \in Seq(Pair) /\ ToSet(Append(merged, x)) = ToSet(merged) \cup {x}
  BY <1>4, InAppended DEF CraInv, CraTypes
<1>6. merged' \in Seq(Pair)
  BY <1>3, <1>5 DEF CraInv, CraTypes
<1>7. CraTypes' /\ CraShape'
  BY <1>1, <1>4, <1>6 DEF CraInv, CraTypes, CraShape
<1>8. Due' \subseteq Due /\ \A e \in Due' : e \notin swallowed'
  BY <1>1, <1>3, DueShrinks
<1>9. Gathered \cup rejected \subseteq Gathered' \cup rejected' \cup swallowed'
  BY <1>1, <1>3, <1>4, <1>5, BeyondStays DEF Gathered
<1>10. CraProgress'
  BY <1>1, <1>8, <1>9 DEF CraInv, CraProgress
<1> QED BY <1>7, <1>10 DEF CraInv

\* A list under its cap is returned whole.
LEMMA EndDetailsInv == ASSUME CraInv, EndDetails PROVE CraInv'
<1>1. /\ phase = "details" /\ phase' = "returned"
      /\ problem' = (problem \/ links # <<>> \/ Len(merged) > CandidateCap)
      /\ kept' = ToSet(FirstOf(merged, CandidateCap)) /\ rejected' = rejected
      /\ UNCHANGED worldVars /\ unit' = unit /\ calendar' = calendar /\ page' = page
      /\ merged' = merged /\ links' = links /\ swallowed' = swallowed /\ sliceSeen' = sliceSeen
      /\ site' = site /\ length' = length /\ odd' = odd
  BY DEF EndDetails, worldVars
<1>2. problem' \in BOOLEAN
  BY <1>1 DEF CraInv, CraTypes
<1>3. CraTypes' /\ CraShape'
  BY <1>1, <1>2 DEF CraInv, CraTypes, CraShape
<1>4. Due' \subseteq Due
  BY <1>1, DueShrinks
<1>5. CraProgress'
  <2> SUFFICES ASSUME ~problem' PROVE Due' \subseteq kept' \cup rejected'
    BY <1>1 DEF CraProgress
  <2>1. ~problem /\ links = <<>> /\ ~(Len(merged) > CandidateCap)
    BY <1>1
  <2>2. kept' = ToSet(merged)
    BY <1>1, <2>1 DEF FirstOf
  <2>3. ToSet(links) = {}
    BY <2>1 DEF ToSet
  <2> QED BY <1>1, <1>4, <2>1, <2>2, <2>3, BeyondIsNotDue DEF CraInv, CraProgress, Gathered
<1> QED BY <1>3, <1>5 DEF CraInv

LEMMA EndCrawlInv == ASSUME CraInv, EndCrawl PROVE CraInv'
<1>1. /\ phase = "crawl" /\ site # "funcheap" /\ unit = Units + 1 /\ phase' = "extract"
      /\ UNCHANGED worldVars /\ unit' = unit /\ calendar' = calendar /\ page' = page
      /\ links' = links /\ swallowed' = swallowed /\ kept' = kept /\ rejected' = rejected
      /\ failures' = failures /\ sliceSeen' = sliceSeen
      /\ site' = site /\ length' = length /\ odd' = odd
  BY DEF EndCrawl, foundVars, worldVars
<1>2. \/ problem' = TRUE /\ Len(merged) > CandidateCap /\ merged' = FirstOf(merged, CandidateCap)
      \/ problem' = problem /\ merged' = merged
  BY DEF EndCrawl
<1>3. merged' \in Seq(Pair)
  <2>1. CASE merged' = merged
    BY <2>1 DEF CraInv, CraTypes
  <2>2. CASE Len(merged) > CandidateCap /\ merged' = FirstOf(merged, CandidateCap)
    <3>1. merged' = SubSeq(merged, 1, CandidateCap)
      BY <2>2 DEF FirstOf
    <3>2. CandidateCap \in Nat
      BY CrawlAssumption
    <3>3. merged \in Seq(Pair)
      BY DEF CraInv, CraTypes
    <3>4. \A i \in 1..CandidateCap : merged[i] \in Pair
      <4>1. \A i \in 1..CandidateCap : i \in 1..Len(merged)
        BY <2>2, <3>2, <3>3
      <4> QED BY <3>3, <4>1
    <3>5. 1 \in Int /\ CandidateCap \in Int
      BY <3>2
    <3> QED BY <3>1, <3>4, <3>5, SubSeqProperties
  <2> QED BY <1>2, <2>1, <2>2
<1>4. CraTypes' /\ CraShape'
  BY <1>1, <1>2, <1>3 DEF CraInv, CraTypes, CraShape
<1>5. Due' \subseteq Due
  BY <1>1, DueShrinks
<1>6. CraProgress'
  <2> SUFFICES ASSUME ~problem' PROVE Due' \subseteq ToSet(merged')
    BY <1>1 DEF CraProgress
  <2>1. ~problem /\ merged' = merged
    BY <1>2
  <2>2. links = <<>>
    BY <1>1 DEF CraInv, CraShape
  <2>3. Gathered = ToSet(merged) \cup Beyond
    BY <2>2 DEF Gathered, ToSet
  <2> QED BY <1>1, <1>5, <2>1, <2>3, AllFound, BeyondIsNotDue
<1> QED BY <1>4, <1>6 DEF CraInv

LEMMA ExtractInv == ASSUME CraInv, ExtractCandidate PROVE CraInv'
<1>1. /\ phase = "extract" /\ merged # <<>>
      /\ merged' = Tail(merged) /\ UNCHANGED worldVars /\ unit' = unit /\ calendar' = calendar
      /\ page' = page /\ problem' = problem /\ phase' = phase /\ sliceSeen' = sliceSeen
      /\ links' = links /\ swallowed' = swallowed
      /\ site' = site /\ length' = length /\ odd' = odd
  BY DEF ExtractCandidate, worldVars
<1>2. PICK x : x = Head(merged)
  OBVIOUS
<1>3. kept \cup rejected \cup failures \cup {x} \subseteq kept' \cup rejected' \cup failures'
  BY <1>2 DEF ExtractCandidate
<1>4. Tail(merged) \in Seq(Pair) /\ ToSet(merged) = {x} \cup ToSet(Tail(merged))
  BY <1>1, <1>2, HeadAndTail DEF CraInv, CraTypes
<1>5. CraTypes' /\ CraShape'
  BY <1>1, <1>4 DEF CraInv, CraTypes, CraShape
<1>6. Due' \subseteq Due
  BY <1>1, DueShrinks
<1>7. CraProgress'
  BY <1>1, <1>3, <1>4, <1>6 DEF CraInv, CraProgress
<1> QED BY <1>5, <1>7 DEF CraInv

LEMMA EndExtractionInv == ASSUME CraInv, EndExtraction PROVE CraInv'
<1>1. /\ phase = "extract" /\ merged = <<>> /\ phase' = "returned"
      /\ problem' = (problem \/ failures # {})
      /\ kept' = kept /\ rejected' = rejected
      /\ UNCHANGED worldVars /\ unit' = unit /\ calendar' = calendar /\ page' = page
      /\ merged' = merged /\ links' = links /\ swallowed' = swallowed /\ sliceSeen' = sliceSeen
      /\ site' = site /\ length' = length /\ odd' = odd
  BY DEF EndExtraction, foundVars, worldVars
<1>2. problem' \in BOOLEAN
  BY <1>1 DEF CraInv, CraTypes
<1>3. CraTypes' /\ CraShape'
  BY <1>1, <1>2 DEF CraInv, CraTypes, CraShape
<1>4. Due' \subseteq Due
  BY <1>1, DueShrinks
<1>5. CraProgress'
  <2> SUFFICES ASSUME ~problem' PROVE Due' \subseteq kept' \cup rejected'
    BY <1>1 DEF CraProgress
  <2>1. ~problem /\ failures = {}
    BY <1>1
  <2>2. ToSet(merged) = {}
    BY <1>1 DEF ToSet
  <2> QED BY <1>1, <1>4, <2>1, <2>2 DEF CraInv, CraProgress
<1> QED BY <1>3, <1>5 DEF CraInv

-----------------------------------------------------------------------------
LEMMA CraInitInv == CrawlInit => CraInv
<1> SUFFICES ASSUME CrawlInit PROVE CraInv
  OBVIOUS
<1>1. /\ site \in Sites /\ odd \in [1..Units -> Oddities[site]]
      /\ length \in [1..Units -> 0..(IF site \in OnePage THEN 1 ELSE MaxPages)]
      /\ unit = 1 /\ calendar = "day" /\ page = 1 /\ merged = <<>> /\ links = <<>>
      /\ phase = "crawl" /\ problem = FALSE
  BY DEF CrawlInit
<1>2. PICK most : most = (IF site \in OnePage THEN 1 ELSE MaxPages)
  OBVIOUS
<1>3. most \in Nat /\ length \in [1..Units -> 0..most]
  BY <1>1, <1>2, CrawlAssumption
<1>4. \A u \in 1..Units : length[u] \in Nat /\ length[u] <= most
  BY <1>3
<1>5. CraTypes
  <2>1. length \in [1..Units -> Nat]
    BY <1>3, <1>4
  <2>2. 1 \in 1..(Units + 1)
    BY CrawlAssumption
  <2>3. <<>> \in Seq(Pair)
    OBVIOUS
  <2>4. site \in AllSites
    BY <1>1, CrawlAssumption
  <2>5. odd \in [1..Units -> Oddities[site]]
    BY <1>1
  <2>6. unit \in 1..(Units + 1)
    BY <1>1, <2>2
  <2>7. page \in Nat \ {0}
    <3>1. page = 1
      BY <1>1
    <3> QED BY <3>1
  <2>9. problem \in BOOLEAN
    <3>1. problem = FALSE
      BY <1>1
    <3> QED BY <3>1
  <2>8. merged \in Seq(Pair) /\ links \in Seq(Pair)
    BY <1>1, <2>3
  <2> QED BY <2>1, <2>4, <2>5, <2>6, <2>7, <2>8, <2>9 DEF CraTypes
<1>6. CraShape
  <2>1. site \in OnePage => \A u \in 1..Units : length[u] <= 1
    BY <1>2, <1>4
  <2> QED BY <1>1, <2>1 DEF CraShape
<1>7. CrawledTo(unit, calendar, page, length, odd, Gathered)
  <2>1. \A u \in 1..Units : ~(u < 1)
    BY UnitsAreNumbers
  <2>2. \A u : UnitPagesRead(u, length[u], odd[u], 1, Gathered)
    <3>1. \A u : \A p \in 1..length[u] : ~(p < 1)
      OBVIOUS
    <3> QED BY <3>1 DEF UnitPagesRead
  <2> QED BY <1>1, <2>1, <2>2 DEF CrawledTo
<1> QED BY <1>1, <1>5, <1>6, <1>7 DEF CraInv, CraProgress

LEMMA CraStepInv == CraInv /\ [CrawlNext]_craVars => CraInv'
<1> SUFFICES ASSUME CraInv, [CrawlNext]_craVars PROVE CraInv'
  OBVIOUS
<1>1. CASE UNCHANGED craVars
  <2>1. /\ site' = site /\ length' = length /\ odd' = odd /\ unit' = unit
        /\ calendar' = calendar /\ page' = page /\ sliceSeen' = sliceSeen
        /\ merged' = merged /\ links' = links /\ phase' = phase /\ problem' = problem
        /\ kept' = kept /\ rejected' = rejected /\ failures' = failures
        /\ swallowed' = swallowed /\ UNCHANGED worldVars
    BY <1>1 DEF craVars, worldVars
  <2>2. CraTypes' /\ CraShape'
    BY <2>1 DEF CraInv, CraTypes, CraShape
  <2>3. Due' \subseteq Due /\ Gathered' = Gathered
    BY <2>1, DueShrinks, BeyondStays DEF Gathered
  <2>4. CraProgress'
    BY <2>1, <2>3 DEF CraInv, CraProgress
  <2> QED BY <2>2, <2>4 DEF CraInv
<1>2. CASE CrawlEnded
  BY <1>1, <1>2 DEF CrawlEnded
<1>3. CASE CrawlStep
  BY <1>3, CalendarPageInv, CapAndFailureInv, SlicePageInv, IndexPageInv, SectionInv,
     EndIndexesInv, SkipDetailInv, VisitDetailInv, EndDetailsInv, EndCrawlInv, ExtractInv,
     EndExtractionInv DEF CrawlStep
<1> QED BY <1>1, <1>2, <1>3 DEF CrawlNext

LEMMA CraInvTells == CraInv => NothingSilentlyMissed
BY DEF CraInv, CraProgress, NothingSilentlyMissed, Due

\* A fetch that returns without an error has seen every event that its listings
\* show, but for the exceptions that Unannounced and CutOff name: _crawl_day_pages,
\* _crawl_day_calendars, _crawl_listing_slices, _crawl_day_indexes, fetch_events.
THEOREM NothingIsSilentlyMissed == CrawlSpec => []NothingSilentlyMissed
<1>1. CrawlInit => CraInv
  BY CraInitInv
<1>2. CraInv /\ [CrawlNext]_craVars => CraInv'
  BY CraStepInv
<1>3. CraInv => NothingSilentlyMissed
  BY CraInvTells
<1> QED BY <1>1, <1>2, <1>3, PTL DEF CrawlSpec

-----------------------------------------------------------------------------
(***************************************************************************)
(* Ticketmaster: a fetch is complete or reported.                          *)
(***************************************************************************)

Window == Nat \X Nat

\* The hits of a query, and how many of them stand before one.
HitsOf(st, wd, w) ==
    IF st = "windows" THEN {i \in Catalog : w[i] \in wd[1]..wd[2]}
    ELSE {i \in Catalog : w[i] = Undated[st]}

Ahead(H, w, i) == Cardinality({j \in H : w[j] < w[i] \/ (w[j] = w[i] /\ j < i)})

\* The first q hits have been got.
FirstRead(H, w, q, G) == \A i \in H : Ahead(H, w, i) < q => i \in G

ResultPagesRead(st, wd, w, c, G) ==
    st \in {"tba", "tbd"} \/ (st = "windows" /\ wd # <<>>) =>
        FirstRead(HitsOf(st, wd, w), w, c * PerPage, G)

\* An hour is in a window, in one of a stack.
InWindow(wd, h) == \E a, b \in Nat : wd = <<a, b>> /\ h \in a..b

InStack(ws, h) == \E k \in 1..Len(ws) : InWindow(ws[k], h)

\* A dated listing has been got or is still to be read.
DatedCovered(st, ws, wd, w, G) ==
    \A i \in Catalog : w[i] \in Hours =>
        i \in G \/ (st = "windows" /\ (InStack(ws, w[i]) \/ InWindow(wd, w[i])))

UndatedCovered(st, w, G) ==
    /\ st \in {"tbd", "ended"} => \A i \in Catalog : w[i] = Tba => i \in G
    /\ st = "ended" => \A i \in Catalog : w[i] = Tbd => i \in G

FetTypes ==
    /\ when \in [Catalog -> Nat]
    /\ windows \in Seq(Window)
    /\ window = <<>> \/ window \in Window
    /\ stage \in {"windows", "tba", "tbd", "ended"}
    /\ current \in Nat
    /\ shifts \in Nat
    /\ got \subseteq Catalog

FetShape ==
    /\ fetchError => stage = "ended"
    /\ pending => stage = "ended" /\ ~fetchError

FetProgress ==
    shifts = 0 /\ ~fetchError =>
      /\ when \in [Catalog -> Hours \cup {Tba, Tbd}]
      /\ DatedCovered(stage, windows, window, when, got)
      /\ UndatedCovered(stage, when, got)
      /\ ResultPagesRead(stage, window, when, current, got)

FetInv == FetTypes /\ FetShape /\ FetProgress

-----------------------------------------------------------------------------
\* Fewer hits stand before a hit than there are.
LEMMA AheadBounded ==
    ASSUME NEW H \in SUBSET Catalog, NEW w \in [Catalog -> Nat], NEW i \in H
    PROVE  /\ Ahead(H, w, i) \in Nat /\ Cardinality(H) \in Nat
           /\ Ahead(H, w, i) < Cardinality(H)
<1>1. PICK B : B = {j \in H : w[j] < w[i] \/ (w[j] = w[i] /\ j < i)}
  OBVIOUS
<1>2. IsFiniteSet(H)
  BY FetchAssumption, FS_Subset
<1>3. i \in Nat /\ w[i] \in Nat
  BY FetchAssumption
<1>4. ~(w[i] < w[i]) /\ ~(i < i)
  BY <1>3
<1>5. i \notin B
  BY <1>1, <1>4
<1>6. B \subseteq H \ {i}
  BY <1>1, <1>5
<1>7. IsFiniteSet(H \ {i}) /\ Cardinality(H \ {i}) = Cardinality(H) - 1
  BY <1>2, FS_RemoveElement
<1>8. Cardinality(H) \in Nat /\ Cardinality(H \ {i}) \in Nat
  BY <1>2, <1>7, FS_CardinalityType
<1>9. IsFiniteSet(B) /\ Cardinality(B) <= Cardinality(H \ {i})
  BY <1>6, <1>7, FS_Subset
<1>10. Cardinality(B) \in Nat
  BY <1>9, FS_CardinalityType
<1> QED BY <1>1, <1>7, <1>8, <1>9, <1>10 DEF Ahead

\* A page more, and the last page.
LEMMA NextPageRead ==
    ASSUME NEW H \in SUBSET Catalog, NEW w \in [Catalog -> Nat], NEW c \in Nat, NEW G,
           FirstRead(H, w, c * PerPage, G)
    PROVE  FirstRead(H, w, (c + 1) * PerPage,
               G \cup {i \in H : Ahead(H, w, i) \in c * PerPage..((c + 1) * PerPage - 1)})
<1>1. PICK a, b \in Nat : a = c * PerPage /\ b = (c + 1) * PerPage
  BY FetchAssumption
<1>2. ASSUME NEW i \in H, Ahead(H, w, i) < b, ~(Ahead(H, w, i) < a)
      PROVE  Ahead(H, w, i) \in a..(b - 1)
  <2>1. PICK n \in Nat : n = Ahead(H, w, i)
    BY AheadBounded
  <2>2. n \in a..(b - 1)
    BY <1>2, <2>1
  <2> QED BY <2>1, <2>2
<1> QED BY <1>1, <1>2 DEF FirstRead

LEMMA PagesCover ==
    ASSUME NEW n \in Nat, NEW k \in Nat, k >= CeilDiv(n, PerPage)
    PROVE  n <= k * PerPage
<1>1. PICK p \in Nat : p = PerPage /\ p >= 1
  BY FetchAssumption
<1>2. k >= (n + p - 1) \div p
  BY <1>1 DEF CeilDiv
<1>3. PICK q \in Nat : q = (n + p - 1) \div p
  BY <1>1
<1>4. q * p > n - 1
  BY <1>1, <1>3
<1>5. k * p >= q * p
  BY <1>1, <1>2, <1>3
<1>6. k * p \in Nat /\ q * p \in Nat
  BY <1>1, <1>3
<1> QED BY <1>1, <1>4, <1>5, <1>6

LEMMA LastPageIsAll ==
    ASSUME NEW H \in SUBSET Catalog, NEW w \in [Catalog -> Nat], NEW k \in Nat, NEW G,
           FirstRead(H, w, k * PerPage, G), k >= CeilDiv(Cardinality(H), PerPage)
    PROVE  H \subseteq G
<1> SUFFICES ASSUME NEW i \in H PROVE i \in G
  OBVIOUS
<1>1. PICK n \in Nat, a \in Nat : n = Cardinality(H) /\ a = Ahead(H, w, i) /\ a < n
  BY AheadBounded
<1>2. n <= k * PerPage
  BY <1>1, PagesCover
<1>3. k * PerPage \in Nat
  BY FetchAssumption
<1>4. a < k * PerPage
  BY <1>1, <1>2, <1>3
<1> QED BY <1>1, <1>4 DEF FirstRead

LEMMA HitsAreListings == HitsOf(stage, window, when) \in SUBSET Catalog /\ Hits = HitsOf(stage, window, when)
BY DEF Hits, HitsOf

LEMMA NothingReadYet ==
    ASSUME NEW st, NEW wd, NEW w \in [Catalog -> Nat], NEW G
    PROVE  ResultPagesRead(st, wd, w, 0, G)
<1>1. 0 * PerPage = 0
  BY FetchAssumption
<1>2. PICK H : H = HitsOf(st, wd, w)
  OBVIOUS
<1>3. H \in SUBSET Catalog
  BY <1>2 DEF HitsOf
<1>4. \A i \in H : ~(Ahead(H, w, i) < 0)
  BY SMTT(30), <1>3, AheadBounded
<1> QED BY <1>1, <1>2, <1>4 DEF ResultPagesRead, FirstRead

LEMMA NoHourInNoWindow == \A h : ~InWindow(<<>>, h)
<1>1. \A a, b : Len(<<a, b>>) = 2
  OBVIOUS
<1>2. Len(<<>>) = 0
  OBVIOUS
<1> QED BY <1>1, <1>2 DEF InWindow

LEMMA WithinWindow ==
    ASSUME NEW wd \in Window, NEW h, InWindow(wd, h)
    PROVE  h \in wd[1]..wd[2]
BY DEF InWindow

-----------------------------------------------------------------------------
(* The windows. *)

\* The window on top of the stack.
LEMMA WindowPopped ==
    ASSUME NEW ws \in Seq(Window), ws # <<>>
    PROVE  /\ Last(ws) \in Window /\ Front(ws) \in Seq(Window)
           /\ \A h : InStack(ws, h) => InStack(Front(ws), h) \/ InWindow(Last(ws), h)
<1>1. PICK n \in Nat : n = Len(ws) /\ n > 0
  BY EmptySeq
<1>2. PICK f : f = Front(ws)
  OBVIOUS
<1>3. n - 1 \in Nat /\ 1 <= 1 /\ n - 1 <= n
  BY <1>1
<1>4. f \in Seq(Window) /\ Len(f) = n - 1 /\ \A k \in 1..(n - 1) : f[k] = ws[k]
  <2>1. f = SubSeq(ws, 1, n - 1)
    BY <1>1, <1>2 DEF Front
  <2>2. \A k \in 1..(n - 1) : ws[k] \in Window
    BY <1>1
  <2> QED BY <1>1, <1>3, <2>1, <2>2
<1>5. Last(ws) = ws[n] /\ ws[n] \in Window
  BY <1>1 DEF Last
<1>6. ASSUME NEW h, InStack(ws, h) PROVE InStack(f, h) \/ InWindow(Last(ws), h)
  <2>1. PICK k \in 1..n : InWindow(ws[k], h)
    BY <1>1, <1>6 DEF InStack
  <2>2. CASE k = n
    BY <1>5, <2>1, <2>2
  <2>3. CASE k # n
    <3>1. k \in 1..(n - 1)
      BY <1>1, <2>3
    <3> QED BY <1>4, <2>1, <3>1 DEF InStack
  <2> QED BY <2>2, <2>3
<1> QED BY <1>2, <1>4, <1>5, <1>6

\* The two halves of a window.
LEMMA Pushed ==
    ASSUME NEW ws \in Seq(Window), NEW x \in Window, NEW y \in Window
    PROVE  /\ ws \o <<x, y>> \in Seq(Window)
           /\ \A h : InStack(ws, h) => InStack(ws \o <<x, y>>, h)
           /\ \A h : InWindow(x, h) \/ InWindow(y, h) => InStack(ws \o <<x, y>>, h)
<1>1. PICK s : s = ws \o <<x, y>>
  OBVIOUS
<1>2. PICK n \in Nat : n = Len(ws)
  OBVIOUS
<1>3. <<x, y>> \in Seq(Window) /\ Len(<<x, y>>) = 2
  OBVIOUS
<1>4. s \in Seq(Window) /\ Len(s) = n + 2
  BY <1>1, <1>2, <1>3, ConcatProperties
<1>5. \A k \in 1..n : s[k] = ws[k]
  BY <1>1, <1>2, <1>3, ConcatProperties
<1>6. s[n + 1] = x /\ s[n + 2] = y
  BY <1>1, <1>2
<1>7. n + 1 \in 1..(n + 2) /\ n + 2 \in 1..(n + 2) /\ \A k \in 1..n : k \in 1..(n + 2)
  BY <1>2
<1>8. ASSUME NEW h, InStack(ws, h) PROVE InStack(s, h)
  BY <1>2, <1>4, <1>5, <1>7, <1>8 DEF InStack
<1>9. ASSUME NEW h, InWindow(x, h) \/ InWindow(y, h) PROVE InStack(s, h)
  BY <1>4, <1>6, <1>7, <1>9 DEF InStack
<1> QED BY <1>1, <1>4, <1>8, <1>9

LEMMA Halves ==
    ASSUME NEW a \in Nat, NEW b \in Nat, b - a > MinWindow
    PROVE  \E m \in Nat : /\ m = a + (b - a) \div 2
                          /\ \A h \in a..b : h \in a..m \/ h \in m..b
<1>1. b > a
  BY FetchAssumption
<1>2. PICK m \in Nat : m = a + (b - a) \div 2 /\ a <= m /\ m <= b
  BY <1>1
<1> QED BY <1>2

-----------------------------------------------------------------------------
LEMMA FetInitInv == FetchInit => FetInv
<1> SUFFICES ASSUME FetchInit PROVE FetInv
  OBVIOUS
<1>1. /\ when \in [Catalog -> Hours \cup {Tba, Tbd}] /\ windows = << <<0, Horizon>> >>
      /\ stage = "windows" /\ window = <<>> /\ current = 0 /\ got = {} /\ shifts = 0
      /\ fetchError = FALSE /\ pending = FALSE
  BY DEF FetchInit
<1>2. when \in [Catalog -> Nat]
  <2>1. \A h \in Hours \cup {Tba, Tbd} : h \in Nat
    BY FetchAssumption DEF Hours, Tba, Tbd
  <2> QED BY <1>1, <2>1
<1>3. <<0, Horizon>> \in Window /\ 0 \in Nat /\ Horizon \in Nat
  BY FetchAssumption DEF Window
<1>4. windows \in Seq(Window) /\ Len(windows) = 1 /\ windows[1] = <<0, Horizon>>
  BY <1>1, <1>3
<1>5. FetTypes
  BY <1>1, <1>2, <1>4 DEF FetTypes
<1>6. DatedCovered(stage, windows, window, when, got)
  <2>1. \A h \in Hours : InWindow(<<0, Horizon>>, h)
    BY <1>3 DEF InWindow, Hours
  <2>2. 1 \in 1..1
    OBVIOUS
  <2>3. \A h \in Hours : InStack(windows, h)
    BY <1>4, <2>1, <2>2 DEF InStack
  <2> QED BY <1>1, <2>3 DEF DatedCovered
<1>7. UndatedCovered(stage, when, got)
  BY <1>1 DEF UndatedCovered
<1>8. ResultPagesRead(stage, window, when, current, got)
  BY <1>1, <1>2, NothingReadYet
<1> QED BY <1>1, <1>5, <1>6, <1>7, <1>8 DEF FetInv, FetShape, FetProgress

LEMMA PopInv == ASSUME FetInv, PopWindow PROVE FetInv'
<1>1. /\ stage = "windows" /\ window = <<>> /\ windows # <<>>
      /\ window' = Last(windows) /\ windows' = Front(windows) /\ current' = 0
      /\ when' = when /\ stage' = stage /\ got' = got /\ fetchError' = fetchError
      /\ pending' = pending /\ shifts' = shifts
  BY DEF PopWindow
<1>2. windows \in Seq(Window) /\ when \in [Catalog -> Nat]
  BY DEF FetInv, FetTypes
<1>3. /\ window' \in Window /\ windows' \in Seq(Window)
      /\ \A h : InStack(windows, h) => InStack(windows', h) \/ InWindow(window', h)
  BY <1>1, <1>2, WindowPopped
<1>4. FetTypes' /\ FetShape'
  BY <1>1, <1>3 DEF FetInv, FetTypes, FetShape
<1>5. FetProgress'
  <2> SUFFICES ASSUME shifts' = 0, ~fetchError'
               PROVE  /\ when' \in [Catalog -> Hours \cup {Tba, Tbd}]
                      /\ DatedCovered(stage', windows', window', when', got')
                      /\ UndatedCovered(stage', when', got')
                      /\ ResultPagesRead(stage', window', when', current', got')
    BY DEF FetProgress, Hours, Tba, Tbd
  <2>1. /\ when \in [Catalog -> Hours \cup {Tba, Tbd}]
        /\ DatedCovered(stage, windows, window, when, got)
        /\ UndatedCovered(stage, when, got)
    BY <1>1 DEF FetInv, FetProgress
  <2>2. DatedCovered(stage', windows', window', when', got')
    BY <1>1, <1>3, <2>1, NoHourInNoWindow DEF DatedCovered
  <2> QED BY <1>1, <1>2, <2>1, <2>2, NothingReadYet
<1> QED BY <1>4, <1>5 DEF FetInv

LEMMA FailInv == ASSUME FetInv, ReadFails PROVE FetInv'
<1>1. /\ fetchError' = TRUE /\ window' = <<>> /\ current' = 0 /\ stage' = "ended"
      /\ pending' = FALSE /\ when' = when /\ windows' = windows /\ got' = got
      /\ shifts' = shifts
  BY DEF ReadFails, Advance
<1>2. FetTypes'
  BY <1>1 DEF FetInv, FetTypes
<1> QED BY <1>1, <1>2 DEF FetInv, FetShape, FetProgress

LEMMA SplitInv == ASSUME FetInv, SplitWindow PROVE FetInv'
<1>1. PICK m : m = window[1] + (window[2] - window[1]) \div 2
  OBVIOUS
<1>2. /\ Reading /\ stage = "windows" /\ window[2] - window[1] > MinWindow
      /\ windows' = windows \o << <<m, window[2]>>, <<window[1], m>> >>
      /\ window' = <<>> /\ when' = when /\ stage' = stage /\ current' = current
      /\ got' = got /\ fetchError' = fetchError /\ pending' = pending /\ shifts' = shifts
  BY <1>1 DEF SplitWindow, Splits
<1>3. window \in Window /\ window # <<>> /\ windows \in Seq(Window)
  BY <1>2 DEF FetInv, FetTypes, Reading, Undated
<1>4. PICK a, b \in Nat : window = <<a, b>> /\ window[1] = a /\ window[2] = b
  BY <1>3 DEF Window
<1>5. m \in Nat /\ \A h \in a..b : h \in a..m \/ h \in m..b
  BY <1>1, <1>2, <1>4, Halves
<1>6. <<m, b>> \in Window /\ <<a, m>> \in Window
  BY <1>4, <1>5 DEF Window
<1>7. /\ windows' \in Seq(Window)
      /\ \A h : InStack(windows, h) => InStack(windows', h)
      /\ \A h : InWindow(<<m, b>>, h) \/ InWindow(<<a, m>>, h) => InStack(windows', h)
  BY <1>2, <1>3, <1>4, <1>6, Pushed
<1>8. ASSUME NEW h, InWindow(window, h) PROVE InStack(windows', h)
  <2>1. h \in a..b
    BY <1>3, <1>4, <1>8, WithinWindow
  <2>2. InWindow(<<m, b>>, h) \/ InWindow(<<a, m>>, h)
    BY <1>4, <1>5, <2>1 DEF InWindow
  <2> QED BY <1>7, <2>2
<1>9. FetTypes' /\ FetShape'
  BY <1>2, <1>7 DEF FetInv, FetTypes, FetShape
<1>10. FetProgress'
  <2> SUFFICES ASSUME shifts' = 0, ~fetchError'
               PROVE  /\ when' \in [Catalog -> Hours \cup {Tba, Tbd}]
                      /\ DatedCovered(stage', windows', window', when', got')
                      /\ UndatedCovered(stage', when', got')
                      /\ ResultPagesRead(stage', window', when', current', got')
    BY DEF FetProgress, Hours, Tba, Tbd
  <2>1. /\ when \in [Catalog -> Hours \cup {Tba, Tbd}]
        /\ DatedCovered(stage, windows, window, when, got)
        /\ UndatedCovered(stage, when, got)
    BY <1>2 DEF FetInv, FetProgress
  <2>2. DatedCovered(stage', windows', window', when', got')
    BY <1>2, <1>7, <1>8, <2>1 DEF DatedCovered
  <2>3. ResultPagesRead(stage', window', when', current', got')
    BY <1>2 DEF ResultPagesRead
  <2> QED BY <1>2, <2>1, <2>2, <2>3
<1> QED BY <1>9, <1>10 DEF FetInv

-----------------------------------------------------------------------------
(* The pages of a result. *)

\* The result has been read to its end, and what is read next is said.
LEMMA ResultRead ==
    ASSUME FetInv, Reading, Advance(FALSE), NEW G, got' = got \cup G, G \subseteq Catalog,
           when' = when, windows' = windows, shifts' = shifts,
           shifts = 0 /\ ~fetchError => HitsOf(stage, window, when) \subseteq got'
    PROVE  FetInv'
<1>1. /\ fetchError' = FALSE /\ window' = <<>> /\ current' = 0
      /\ stage' = CASE stage = "windows" -> IF windows = <<>> THEN "tba" ELSE "windows"
                    [] stage = "tba"     -> "tbd"
                    [] OTHER            -> "ended"
      /\ pending' = (stage = "tbd")
  BY DEF Advance
<1>2. stage \in {"windows", "tba", "tbd"} /\ (stage = "windows" => window \in Window)
  BY DEF FetInv, FetTypes, Reading, Undated
<1>3. stage' \in {"windows", "tba", "tbd", "ended"} /\ (stage = "tbd" => stage' = "ended")
  BY <1>1, <1>2
<1>4. FetTypes' /\ FetShape'
  BY <1>1, <1>3 DEF FetInv, FetTypes, FetShape
<1>5. FetProgress'
  <2> SUFFICES ASSUME shifts' = 0
               PROVE  /\ when' \in [Catalog -> Hours \cup {Tba, Tbd}]
                      /\ DatedCovered(stage', windows', window', when', got')
                      /\ UndatedCovered(stage', when', got')
                      /\ ResultPagesRead(stage', window', when', current', got')
    BY DEF FetProgress, Hours, Tba, Tbd
  <2>1. shifts = 0 /\ ~fetchError
    BY <1>2 DEF FetInv, FetShape
  <2>2. /\ when \in [Catalog -> Hours \cup {Tba, Tbd}]
        /\ DatedCovered(stage, windows, window, when, got)
        /\ UndatedCovered(stage, when, got)
        /\ HitsOf(stage, window, when) \subseteq got'
    BY <2>1 DEF FetInv, FetProgress
  <2>3. PICK w, E : w = when /\ E = got'
    OBVIOUS
  <2>4. DatedCovered(stage', windows', window', when', got')
    <3> SUFFICES ASSUME NEW i \in Catalog, w[i] \in Hours, i \notin E
                 PROVE  stage' = "windows" /\ InStack(windows, w[i])
      BY <2>3 DEF DatedCovered
    <3>1. stage = "windows" /\ (InStack(windows, w[i]) \/ InWindow(window, w[i]))
      BY <2>2, <2>3 DEF DatedCovered
    <3>2. ~InWindow(window, w[i])
      <4>1. ASSUME InWindow(window, w[i]) PROVE FALSE
        <5>1. w[i] \in window[1]..window[2]
          BY <1>2, <3>1, <4>1, WithinWindow
        <5>2. i \in HitsOf(stage, window, when)
          BY <2>3, <3>1, <5>1 DEF HitsOf
        <5> QED BY <2>2, <2>3, <5>2
      <4> QED BY <4>1
    <3>3. windows # <<>>
      <4>1. ASSUME windows = <<>> PROVE FALSE
        <5>1. Len(windows) = 0
          BY <4>1
        <5> QED BY <3>1, <3>2, <5>1 DEF InStack
      <4> QED BY <4>1
    <3> QED BY <1>1, <3>1, <3>2, <3>3
  <2>5. UndatedCovered(stage', when', got')
    <3>1. \A st \in {"tba", "tbd"} : stage = st => \A i \in Catalog : w[i] = Undated[st] => i \in E
      BY <2>2, <2>3 DEF HitsOf
    <3>2. Undated["tba"] = Tba /\ Undated["tbd"] = Tbd
      BY DEF Undated
    <3>3. stage' = "tbd" => stage = "tba"
      BY <1>1, <1>2
    <3>4. stage' = "ended" => stage = "tbd"
      BY <1>1, <1>2
    <3>5. ASSUME stage' \in {"tbd", "ended"} PROVE \A i \in Catalog : w[i] = Tba => i \in E
      <4>1. CASE stage = "tba"
        BY <3>1, <3>2, <4>1
      <4>2. CASE stage = "tbd"
        BY <2>2, <2>3, <4>2 DEF UndatedCovered
      <4> QED BY <3>3, <3>4, <3>5, <4>1, <4>2
    <3>6. ASSUME stage' = "ended" PROVE \A i \in Catalog : w[i] = Tbd => i \in E
      BY <3>1, <3>2, <3>4, <3>6
    <3> QED BY <2>3, <3>5, <3>6 DEF UndatedCovered
  <2>6. ResultPagesRead(stage', window', when', current', got')
    BY <1>1, NothingReadYet DEF FetInv, FetTypes
  <2> QED BY <2>2, <2>4, <2>5, <2>6
<1> QED BY <1>4, <1>5 DEF FetInv

LEMMA ReadPageInv == ASSUME FetInv, ReadPage PROVE FetInv'
<1>1. /\ Reading /\ got' = got \cup PageItems
      /\ when' = when /\ windows' = windows /\ shifts' = shifts
  BY DEF ReadPage
<1>2. /\ \/ /\ current' = current + 1
            /\ UNCHANGED <<stage, window, fetchError, pending>>
         \/ Advance(current + 1 < TotalPages \/ TotalElements > Reachable)
  BY DEF ReadPage
<1>3. PICK H : H = HitsOf(stage, window, when)
  OBVIOUS
<1>4. H \in SUBSET Catalog /\ Hits = H
  BY <1>3, HitsAreListings
<1>5. when \in [Catalog -> Nat] /\ current \in Nat
  BY DEF FetInv, FetTypes
<1>6. PageItems = {i \in H : Ahead(H, when, i) \in current * PerPage..((current + 1) * PerPage - 1)}
  BY <1>4 DEF PageItems, Ahead, ListedBefore
<1>7. PageItems \subseteq Catalog
  BY <1>4, <1>6
<1>8. ASSUME shifts = 0, ~fetchError PROVE FirstRead(H, when, (current + 1) * PerPage, got')
  <2>1. ResultPagesRead(stage, window, when, current, got)
    BY <1>8 DEF FetInv, FetProgress
  <2>2. FirstRead(H, when, current * PerPage, got)
    BY <1>1, <1>3, <2>1 DEF ResultPagesRead, Reading, Undated
  <2> QED BY <1>1, <1>4, <1>5, <1>6, <2>2, NextPageRead
<1>9. CASE current' = current + 1 /\ UNCHANGED <<stage, window, fetchError, pending>>
  <2>1. /\ current' \in Nat /\ stage' = stage /\ window' = window
        /\ fetchError' = fetchError /\ pending' = pending
    BY <1>5, <1>9
  <2>2. FetTypes' /\ FetShape'
    BY <1>1, <1>7, <2>1 DEF FetInv, FetTypes, FetShape
  <2>3. FetProgress'
    <3> SUFFICES ASSUME shifts' = 0, ~fetchError'
                 PROVE  /\ when' \in [Catalog -> Hours \cup {Tba, Tbd}]
                        /\ DatedCovered(stage', windows', window', when', got')
                        /\ UndatedCovered(stage', when', got')
                        /\ ResultPagesRead(stage', window', when', current', got')
      BY DEF FetProgress, Hours, Tba, Tbd
    <3>1. /\ when \in [Catalog -> Hours \cup {Tba, Tbd}]
          /\ DatedCovered(stage, windows, window, when, got)
          /\ UndatedCovered(stage, when, got)
      BY <1>1, <2>1 DEF FetInv, FetProgress
    <3>2. got \subseteq got'
      BY <1>1
    <3>3. DatedCovered(stage', windows', window', when', got')
      BY <1>1, <2>1, <3>1, <3>2 DEF DatedCovered
    <3>4. UndatedCovered(stage', when', got')
      BY <1>1, <2>1, <3>1, <3>2 DEF UndatedCovered
    <3>5. ResultPagesRead(stage', window', when', current', got')
      BY <1>1, <1>3, <1>8, <1>9, <2>1 DEF ResultPagesRead
    <3> QED BY <1>1, <3>1, <3>3, <3>4, <3>5
  <2> QED BY <2>2, <2>3 DEF FetInv
<1>10. CASE Advance(current + 1 < TotalPages \/ TotalElements > Reachable)
  <2>1. CASE current + 1 < TotalPages \/ TotalElements > Reachable
    <3>1. /\ fetchError' = TRUE /\ window' = <<>> /\ current' = 0 /\ stage' = "ended"
          /\ pending' = FALSE
      BY <1>10, <2>1 DEF Advance
    <3>2. FetTypes'
      BY <1>1, <1>7, <3>1 DEF FetInv, FetTypes
    <3> QED BY <3>1, <3>2 DEF FetInv, FetShape, FetProgress
  <2>2. CASE ~(current + 1 < TotalPages \/ TotalElements > Reachable)
    <3>1. Advance(FALSE)
      BY <1>10, <2>2 DEF Advance
    <3>2. ASSUME shifts = 0, ~fetchError PROVE H \subseteq got'
      <4>1. PICK n : n = Cardinality(H)
        OBVIOUS
      <4>2. n \in Nat
        BY <1>4, <4>1, FetchAssumption, FS_Subset, FS_CardinalityType
      <4>3. TotalPages = CeilDiv(n, PerPage)
        BY <1>4, <4>1 DEF TotalPages, TotalElements
      <4>4. CeilDiv(n, PerPage) \in Nat
        BY <4>2, FetchAssumption DEF CeilDiv
      <4>5. current + 1 >= CeilDiv(n, PerPage) /\ current + 1 \in Nat
        BY <1>5, <2>2, <4>3, <4>4
      <4> QED BY <1>4, <1>5, <1>8, <3>2, <4>1, <4>5, LastPageIsAll
    <3> QED BY <1>1, <1>3, <1>7, <3>1, <3>2, ResultRead
  <2> QED BY <2>1, <2>2
<1> QED BY <1>2, <1>9, <1>10

\* Once a listing has changed nothing is promised of what was read.
LEMMA ShiftInv == ASSUME FetInv, Shift PROVE FetInv'
<1>1. PICK i \in Catalog, to \in Hours \cup {Gone} : when' = [when EXCEPT ![i] = to]
  BY DEF Shift
<1>2. /\ shifts' = shifts + 1 /\ windows' = windows /\ stage' = stage /\ window' = window
      /\ current' = current /\ got' = got /\ fetchError' = fetchError /\ pending' = pending
  BY DEF Shift
<1>3. to \in Nat
  BY FetchAssumption DEF Hours, Gone
<1>4. when' \in [Catalog -> Nat]
  BY <1>1, <1>3 DEF FetInv, FetTypes
<1>5. shifts' \in Nat /\ shifts' # 0
  BY <1>2 DEF FetInv, FetTypes
<1> QED BY <1>2, <1>4, <1>5 DEF FetInv, FetTypes, FetShape, FetProgress

LEMMA FetStepInv == FetInv /\ [FetchNext]_tmVars => FetInv'
<1> SUFFICES ASSUME FetInv, [FetchNext]_tmVars PROVE FetInv'
  OBVIOUS
<1>1. CASE UNCHANGED tmVars
  <2>1. /\ when' = when /\ windows' = windows /\ stage' = stage /\ window' = window
        /\ current' = current /\ got' = got /\ fetchError' = fetchError
        /\ pending' = pending /\ shifts' = shifts
    BY <1>1 DEF tmVars
  <2>2. FetTypes' /\ FetShape'
    BY <2>1 DEF FetInv, FetTypes, FetShape
  <2>3. FetProgress'
    BY <2>1 DEF FetInv, FetProgress, Hours, Tba, Tbd
  <2> QED BY <2>2, <2>3 DEF FetInv
<1>2. CASE FetchEnded
  BY <1>1, <1>2 DEF FetchEnded
<1>3. CASE FetchStep
  BY <1>3, PopInv, FailInv, SplitInv, ReadPageInv DEF FetchStep
<1>4. CASE Shift
  BY <1>4, ShiftInv
<1> QED BY <1>1, <1>2, <1>3, <1>4 DEF FetchNext

LEMMA FetInvTells == FetInv => CompleteOrReported
<1> SUFFICES ASSUME FetInv PROVE CompleteOrReported
  OBVIOUS
<1>1. pending => stage = "ended" /\ ~fetchError
  BY DEF FetInv, FetShape
<1>2. ASSUME stage = "ended", ~fetchError, shifts = 0 PROVE got = Catalog
  <2>1. /\ when \in [Catalog -> Hours \cup {Tba, Tbd}]
        /\ DatedCovered(stage, windows, window, when, got)
        /\ UndatedCovered(stage, when, got)
    BY <1>2 DEF FetInv, FetProgress
  <2>2. ASSUME NEW i \in Catalog PROVE i \in got
    <3>1. when[i] \in Hours \/ when[i] = Tba \/ when[i] = Tbd
      BY <2>1
    <3> QED BY <1>2, <2>1, <3>1 DEF DatedCovered, UndatedCovered
  <2> QED BY <2>2 DEF FetInv, FetTypes
<1> QED BY <1>1, <1>2 DEF CompleteOrReported

\* A fetch that reports no error has read every listing of the horizon and every
\* undated one, whatever the density of the days, if the provider's results held
\* still: TicketmasterSource.fetch_events.
THEOREM FetchIsCompleteOrReported == FetchSpec => []CompleteOrReported
<1>1. FetchInit => FetInv
  BY FetInitInv
<1>2. FetInv /\ [FetchNext]_tmVars => FetInv'
  BY FetStepInv
<1>3. FetInv => CompleteOrReported
  BY FetInvTells
<1> QED BY <1>1, <1>2, <1>3, PTL DEF FetchSpec

-----------------------------------------------------------------------------
(***************************************************************************)
(* The crawl as a whole.                                                   *)
(***************************************************************************)

\* Whatever happens on the way of a listing is, seen from each part of it, what
\* that part does: the theorems about the parts hold of the whole.
LEMMA CrawlRunsItsParts ==
    PartsSpec =>
       /\ FetchInit /\ [][FetchNext]_tmVars
       /\ CrawlInit /\ [][CrawlNext]_craVars
       /\ LimiterSpec
       /\ GeocodingSpec
       /\ TagsSpec
<1>1. PartsInit =>
        /\ FetchInit
        /\ CrawlInit
        /\ LimiterInit
        /\ GeocodingInit
        /\ TagsInit
  BY DEF PartsInit
<1>2. [PartsNext]_allVars => [FetchNext]_tmVars
  BY DEF PartsNext, allVars
<1>3. [PartsNext]_allVars => [CrawlNext]_craVars
  BY DEF PartsNext, allVars
<1>4. [PartsNext]_allVars => [LimiterNext]_limVars
  BY DEF PartsNext, allVars
<1>5. [PartsNext]_allVars => [GeocodingNext]_geoVars
  BY DEF PartsNext, allVars
<1>6. [PartsNext]_allVars => [TagsNext]_tagVars
  BY DEF PartsNext, allVars
<1> QED BY <1>1, <1>2, <1>3, <1>4, <1>5, <1>6, PTL
         DEF PartsSpec, LimiterSpec, GeocodingSpec, TagsSpec

\* On its way to the merge nothing is lost in silence, placed elsewhere, given up for
\* longer than a retry, asked too often or tagged in two ways, for any sources,
\* answers and workers and but for the exceptions that each property names.
THEOREM ListingsArriveSafely ==
    PartsSpec =>
       /\ [](CompleteOrReported /\ NothingSilentlyMissed)
       /\ [](SearchableIsPlaced /\ NegativesAreAnswers) /\ FailuresExpire
       /\ [](OutboundBounded /\ OneChoicePerDescription)
<1>1. PartsSpec => []CompleteOrReported /\ []NothingSilentlyMissed
  <2>1. PartsSpec => []CompleteOrReported
    BY CrawlRunsItsParts, FetInitInv, FetStepInv, FetInvTells, PTL
  <2>2. PartsSpec => []NothingSilentlyMissed
    BY CrawlRunsItsParts, CraInitInv, CraStepInv, CraInvTells, PTL
  <2> QED BY <2>1, <2>2
<1>2. PartsSpec => []SearchableIsPlaced /\ []NegativesAreAnswers /\ FailuresExpire
  BY CrawlRunsItsParts, SearchFindsThePlace, FailuresAreAnswers, FailuresAreAskedAgain, PTL
<1>3. PartsSpec => []OutboundBounded /\ []OneChoicePerDescription
  BY CrawlRunsItsParts, OutboundIsBounded, ChoiceIsOne, PTL
<1> QED BY <1>1, <1>2, <1>3, PTL
=============================================================================
